-------------------------- MODULE TeeServiceProofs --------------------------
(***************************************************************************)
(* For any number of calls over any enclave: one execution at a time is    *)
(* waited for, nothing is signed that was not asked, every caller is told  *)
(* of its own program, what is saved is an attestation, and the execute    *)
(* calls see the queue of ExecutionQueue.                                  *)
(*                                                                         *)
(* The invariant has four parts beyond that of the enclave.  Whoever is in *)
(* the line is there once, waits or calls, and calls only at its head.  A  *)
(* call has a stream open exactly while it calls or saves.  What was sent  *)
(* on a connection is a prefix of the call's requests, with at most one    *)
(* frame behind it once the host's end is closed.  And what a call has     *)
(* read is what it expected.  What the enclave signs needs a fifth: a      *)
(* frame that is read with another limit than the call's is that of a call *)
(* given up, or lies where no answer comes any more.                       *)
(***************************************************************************)
EXTENDS TeeService, EnclaveServerProofs

\* What a caller can be told.
Told == Response \cup {Failed, Plain("Refused"), Plain("Address"), Plain("Saved")}

HostTypeOK ==
    /\ pc \in [Conn -> {"idle", "auth", "waiting", "connecting", "calling",
                        "saving", "done", "gone"}]
    /\ line \in Seq(Conn)
    /\ got \in [Conn -> Nat]
    /\ verdict \in [Conn -> Seq(Told)]

InLine(k) == \E i \in 1..Len(line) : line[i] = k

\* execution_mutex: its line, and who is at its head.
LineInv ==
    /\ \A i, j \in 1..Len(line) : line[i] = line[j] => i = j
    /\ \A k \in Conn :
          InLine(k) <=> Kind[k] = "execute" /\ pc[k] \in {"waiting", "calling"}
    /\ \A k \in Conn : Kind[k] = "execute" /\ pc[k] = "calling" => line[1] = k

\* A call and its stream.
CallInv(k) ==
    /\ hostEnd[k] = "open" <=> pc[k] \in {"calling", "saving"}
    /\ pc[k] \in {"idle", "auth", "waiting", "connecting"} => hostEnd[k] = "none"
    /\ hostEnd[k] = "none" => up[k] = <<>> /\ partial[k] = NoRequest
    /\ pc[k] \in {"auth", "waiting"} => Kind[k] = "execute"
    /\ pc[k] \in {"connecting", "saving"} => Kind[k] # "execute"
    /\ Len(verdict[k]) = IF pc[k] = "done" THEN 1 ELSE 0

\* A frame on the connection of a call: its own, whole or cut.
OwnFrame(k, frame) ==
    /\ frame.type # "Print"
    /\ frame.type = "Execute" =>
          /\ Kind[k] = "execute"
          /\ frame.program = Wanted[k]
          /\ frame.cycle_limit \in {Limit[k]} \cup Mixed[Limit[k]]

SentInv(k) ==
    /\ \A i \in 1..Len(up[k]) : OwnFrame(k, up[k][i])
    /\ hostEnd[k] # "closed" =>
          /\ Len(up[k]) <= Len(Requests(k))
          /\ \A i \in 1..Len(up[k]) : up[k][i] = Requests(k)[i]
          /\ partial[k] # NoRequest =>
                /\ Len(up[k]) < Len(Requests(k))
                /\ partial[k] = Requests(k)[Len(up[k]) + 1]

\* The two requests of an attestation are answered, and at most the close is
\* behind them.
BothAnswered(k) ==
    /\ Kind[k] = "attest"
    /\ Len(down[k]) >= 2
    /\ down[k][1].type = "SigningKeyAttestation"
    /\ down[k][2].type = "PublicKey"
    /\ partial[k] = NoRequest
    /\ \/ Len(up[k]) = 2
       \/ Len(up[k]) = 3 /\ up[k][3] = CloseSession

\* What the call has read, and what was saved of it.
ReadInv(k) ==
    /\ got[k] <= Len(Requests(k)) /\ got[k] <= Len(down[k])
    /\ \A i \in 1..got[k] : expected(k, i, down[k][i])
    /\ pc[k] = "saving" \/ verdict[k] = <<Plain("Saved")>> => BothAnswered(k)

Own(k) ==
    \A i \in 1..Len(verdict[k]) :
        verdict[k][i].type = "SignedPublicValues"
          => /\ Kind[k] = "execute"
             /\ verdict[k][i] = SignedPublicValues(Wanted[k])
             /\ Limit[k] <= MaxAllowedCycles

ServiceInv ==
    /\ EnclaveInv /\ Connected
    /\ HostTypeOK
    /\ LineInv
    /\ \A k \in Conn : CallInv(k) /\ SentInv(k) /\ ReadInv(k) /\ Own(k)

-----------------------------------------------------------------------------
\* The line of the mutex.

\* A sequence without one of its places.
LEMMA RemoveAtFacts ==
    ASSUME NEW S, NEW s \in Seq(S), NEW i \in 1..Len(s)
    PROVE  /\ RemoveAt(s, i) \in Seq(S)
           /\ Len(RemoveAt(s, i)) = Len(s) - 1
           /\ \A j \in 1..Len(s) - 1 :
                 RemoveAt(s, i)[j] = IF j < i THEN s[j] ELSE s[j + 1]
  <1> DEFINE a == SubSeq(s, 1, i - 1)
             b == SubSeq(s, i + 1, Len(s))
  <1>1. Len(s) \in Nat /\ i \in Nat /\ 1 <= i /\ i <= Len(s)
    BY LenProperties
  <1>2. /\ a \in Seq(S) /\ Len(a) = i - 1
        /\ \A j \in 1..i - 1 : a[j] = s[j]
    <2>1. \A j \in 1..i - 1 : s[j] \in S
      BY <1>1, ElementOfSeq
    <2>2. 1 \in Int /\ i - 1 \in Int
      BY <1>1
    <2>3. /\ a \in Seq(S)
          /\ Len(a) = IF 1 <= i - 1 THEN i - 1 - 1 + 1 ELSE 0
          /\ \A j \in 1..i - 1 - 1 + 1 : a[j] = s[1 + j - 1]
      BY <2>1, <2>2, SubSeqProperties
    <2> HIDE DEF a
    <2> QED
      BY <1>1, <2>3
  <1>3. /\ b \in Seq(S) /\ Len(b) = Len(s) - i
        /\ \A j \in 1..Len(s) - i : b[j] = s[i + j]
    <2>1. \A j \in i + 1..Len(s) : s[j] \in S
      BY <1>1, ElementOfSeq
    <2>2. i + 1 \in Int /\ Len(s) \in Int
      BY <1>1
    <2>3. /\ b \in Seq(S)
          /\ Len(b) = IF i + 1 <= Len(s) THEN Len(s) - (i + 1) + 1 ELSE 0
          /\ \A j \in 1..Len(s) - (i + 1) + 1 : b[j] = s[i + 1 + j - 1]
      BY <2>1, <2>2, SubSeqProperties
    <2> HIDE DEF b
    <2>4. \A j \in 1..Len(s) - i : i + 1 + j - 1 = i + j
      BY <1>1
    <2> QED
      BY <1>1, <2>3, <2>4
  <1>4. RemoveAt(s, i) = a \o b
    BY DEF RemoveAt
  <1> HIDE DEF a, b
  <1>5. /\ a \o b \in Seq(S) /\ Len(a \o b) = Len(a) + Len(b)
        /\ \A j \in 1..Len(a) + Len(b) :
              (a \o b)[j] = IF j <= Len(a) THEN a[j] ELSE b[j - Len(a)]
    BY <1>2, <1>3, ConcatProperties
  <1>6. ASSUME NEW j \in 1..Len(s) - 1
        PROVE  (a \o b)[j] = IF j < i THEN s[j] ELSE s[j + 1]
    <2>1. CASE j < i
      BY <1>1, <1>2, <1>3, <1>5, <2>1
    <2>2. CASE j >= i
      <3>1. j - (i - 1) \in 1..Len(s) - i /\ i + (j - (i - 1)) = j + 1
        BY <1>1, <2>2
      <3>2. (a \o b)[j] = b[j - (i - 1)]
        <4>1. Len(a) = i - 1 /\ Len(b) = Len(s) - i
          BY <1>2, <1>3
        <4>2. j \in 1..Len(a) + Len(b) /\ ~(j <= Len(a))
          BY <1>1, <2>2, <4>1
        <4> QED
          BY <1>5, <4>1, <4>2
      <3>3. b[j - (i - 1)] = s[i + (j - (i - 1))]
        BY <1>3, <3>1
      <3> QED
        BY <1>1, <2>2, <3>1, <3>2, <3>3
    <2>3. j < i \/ j >= i
      BY <1>1
    <2> QED
      BY <2>1, <2>2, <2>3
  <1> QED
    BY <1>1, <1>2, <1>3, <1>4, <1>5, <1>6

\* Who is in line, said with its range.
LEMMA InRange ==
    ASSUME line \in Seq(Conn), NEW k
    PROVE  k \in Range(line) <=> InLine(k)
  BY RangeEquality DEF InLine

\* Whoever leaves the line leaves the others in it, in their order.
LEMMA Unlocked ==
    ASSUME line \in Seq(Conn), LineInv, NEW k \in Conn, unlock(k)
    PROVE  /\ line' \in Seq(Conn)
           /\ \A i, j \in 1..Len(line') : line'[i] = line'[j] => i = j
           /\ \A d \in Conn : InLine(d)' <=> InLine(d) /\ d # k
           /\ \A d \in Conn \ {k} : InLine(d) /\ line[1] = d => line'[1] = d
  <1>1. Len(line) \in Nat
    BY LenProperties
  <1>2. CASE k \notin Range(line) /\ UNCHANGED line
    BY <1>2, InRange DEF InLine, LineInv
  <1>3. ASSUME NEW i \in 1..Len(line), line[i] = k, line' = RemoveAt(line, i)
        PROVE  /\ line' \in Seq(Conn)
               /\ \A m, j \in 1..Len(line') : line'[m] = line'[j] => m = j
               /\ \A d \in Conn : InLine(d)' <=> InLine(d) /\ d # k
               /\ \A d \in Conn \ {k} : InLine(d) /\ line[1] = d => line'[1] = d
    <2>1. /\ line' \in Seq(Conn) /\ Len(line') = Len(line) - 1
          /\ \A j \in 1..Len(line) - 1 :
                line'[j] = IF j < i THEN line[j] ELSE line[j + 1]
      BY <1>3, RemoveAtFacts
    <2>2. \A m, j \in 1..Len(line) : line[m] = line[j] => m = j
      BY DEF LineInv
    <2>3. ASSUME NEW m \in 1..Len(line'), NEW j \in 1..Len(line'),
                 line'[m] = line'[j]
          PROVE  m = j
      <3> DEFINE at(n) == IF n < i THEN n ELSE n + 1
      <3>1. at(m) \in 1..Len(line) /\ at(j) \in 1..Len(line)
        BY <1>1, <2>1
      <3>2. line[at(m)] = line[at(j)]
        BY <1>1, <2>1, <2>3
      <3> QED
        BY <1>1, <2>1, <2>2, <3>1, <3>2
    <2>4. ASSUME NEW d \in Conn, InLine(d)' PROVE InLine(d) /\ d # k
      <3>1. PICK j \in 1..Len(line') : line'[j] = d
        BY <2>4 DEF InLine
      <3>2. CASE j < i
        BY <1>1, <1>3, <2>1, <2>2, <3>1, <3>2 DEF InLine
      <3>3. CASE j >= i
        <4>1. j + 1 \in 1..Len(line) /\ line[j + 1] = d /\ j + 1 # i
          BY <1>1, <2>1, <3>1, <3>3
        <4> QED
          BY <1>3, <2>2, <4>1 DEF InLine
      <3> QED
        BY <1>1, <2>1, <3>2, <3>3
    <2>5. ASSUME NEW d \in Conn, InLine(d), d # k PROVE InLine(d)'
      <3>1. PICK j \in 1..Len(line) : line[j] = d
        BY <2>5 DEF InLine
      <3>2. j # i
        BY <1>3, <2>5, <3>1
      <3>3. CASE j < i
        BY <1>1, <2>1, <3>1, <3>3 DEF InLine
      <3>4. CASE j > i
        <4>1. j - 1 \in 1..Len(line') /\ line'[j - 1] = d
          BY <1>1, <2>1, <3>1, <3>4
        <4> QED
          BY <4>1 DEF InLine
      <3> QED
        BY <1>1, <3>2, <3>3, <3>4
    <2>6. ASSUME NEW d \in Conn \ {k}, InLine(d), line[1] = d PROVE line'[1] = d
      <3>1. i # 1
        BY <1>3, <2>6
      <3> QED
        BY <1>1, <2>1, <2>6, <3>1
    <2> QED
      BY <2>1, <2>3, <2>4, <2>5, <2>6
  <1> QED
    BY <1>2, <1>3 DEF unlock

\* Whoever asks for the mutex goes behind those in the line.
LEMMA Entered ==
    ASSUME line \in Seq(Conn), LineInv, NEW k \in Conn, ~InLine(k),
           line' = Append(line, k)
    PROVE  /\ line' \in Seq(Conn)
           /\ \A i, j \in 1..Len(line') : line'[i] = line'[j] => i = j
           /\ \A d \in Conn : InLine(d)' <=> InLine(d) \/ d = k
           /\ \A d \in Conn : InLine(d) /\ line[1] = d => line'[1] = d
  <1>1. /\ Len(line) \in Nat
        /\ line' \in Seq(Conn) /\ Len(line') = Len(line) + 1
        /\ \A i \in 1..Len(line) : line'[i] = line[i]
        /\ line'[Len(line) + 1] = k
    BY LenProperties, AppendProperties
  <1>2. \A i, j \in 1..Len(line) : line[i] = line[j] => i = j
    BY DEF LineInv
  <1>3. \A i \in 1..Len(line) : line[i] # k
    BY DEF InLine
  <1>4. ASSUME NEW i \in 1..Len(line'), NEW j \in 1..Len(line'), line'[i] = line'[j]
        PROVE  i = j
    BY <1>1, <1>2, <1>3, <1>4
  <1>5. \A d \in Conn : InLine(d)' <=> InLine(d) \/ d = k
    <2>1. 1..Len(line') = 1..Len(line) \cup {Len(line) + 1}
      BY <1>1
    <2> QED
      BY <1>1, <2>1 DEF InLine
  <1>6. \A d \in Conn : InLine(d) /\ line[1] = d => line'[1] = d
    BY <1>1 DEF InLine
  <1> QED
    BY <1>1, <1>4, <1>5, <1>6

-----------------------------------------------------------------------------
\* A call and its connection.

\* The requests of a call are frames of its own.
LEMMA RequestsOfCall ==
    ASSUME NEW k \in Conn
    PROVE  /\ Len(Requests(k)) = IF Kind[k] = "attest" THEN 2 ELSE 1
           /\ \A i \in 1..Len(Requests(k)) :
                 /\ Requests(k)[i] \in Request /\ OwnFrame(k, Requests(k)[i])
                 /\ Requests(k)[i].type = "Execute"
                       => Requests(k)[i].cycle_limit = Limit[k]
  <1>1. /\ Kind[k] \in {"execute", "address", "attest"}
        /\ Execute(Wanted[k], Limit[k]) \in Request
        /\ Plain("GetPublicKey") \in Request /\ Plain("AttestSigningKey") \in Request
    BY CallAssumption DEF Request
  <1>2. CASE Kind[k] = "execute"
    BY <1>1, <1>2 DEF Requests, OwnFrame, Execute
  <1>3. CASE Kind[k] = "address"
    BY <1>1, <1>3 DEF Requests, OwnFrame, Plain
  <1>4. CASE Kind[k] = "attest"
    <2>1. Requests(k) = <<Plain("AttestSigningKey"), Plain("GetPublicKey")>>
      BY <1>4 DEF Requests
    <2> QED
      BY <1>1, <1>4, <2>1 DEF OwnFrame, Plain
  <1> QED
    BY <1>1, <1>2, <1>3, <1>4

\* What is not a call's own step leaves what is said of it.
LEMMA CallKept ==
    ASSUME NEW d \in Conn, CallInv(d), SentInv(d), ReadInv(d), Own(d),
           pc'[d] = pc[d], hostEnd'[d] = hostEnd[d], up'[d] = up[d],
           partial'[d] = partial[d], got'[d] = got[d], verdict'[d] = verdict[d],
           down'[d] = down[d]
    PROVE  CallInv(d)' /\ SentInv(d)' /\ ReadInv(d)' /\ Own(d)'
  BY DEF CallInv, SentInv, ReadInv, BothAnswered, Own

\* More answers leave it too.
LEMMA AnswerKept ==
    ASSUME NEW d \in Conn, CallInv(d), SentInv(d), ReadInv(d), Own(d),
           pc'[d] = pc[d], hostEnd'[d] = hostEnd[d], up'[d] = up[d],
           partial'[d] = partial[d], got'[d] = got[d], verdict'[d] = verdict[d],
           got[d] \in Nat, Len(down[d]) \in Nat, Len(down'[d]) \in Nat,
           Len(down'[d]) >= Len(down[d]),
           \A i \in 1..Len(down[d]) : down'[d][i] = down[d][i]
    PROVE  CallInv(d)' /\ SentInv(d)' /\ ReadInv(d)' /\ Own(d)'
  <1>1. CallInv(d)' /\ SentInv(d)' /\ Own(d)'
    BY DEF CallInv, SentInv, Own
  <1>2. got[d] <= Len(down[d]) /\ \A i \in 1..got[d] : i \in 1..Len(down[d])
    BY DEF ReadInv
  <1>3. BothAnswered(d) => 1 \in 1..Len(down[d]) /\ 2 \in 1..Len(down[d])
    BY DEF BothAnswered
  <1>a. \A i \in 1..got[d] : down'[d][i] = down[d][i]
    BY <1>2
  <1>b. got[d] <= Len(down'[d])
    BY <1>2
  <1>c. BothAnswered(d) => BothAnswered(d)'
    BY <1>3 DEF BothAnswered
  <1>4. ReadInv(d)'
    BY <1>a, <1>b, <1>c DEF ReadInv
  <1> QED
    BY <1>1, <1>4

\* The shape of every variable a service step reads.
LEMMA ServiceTypes ==
    ASSUME ServiceInv
    PROVE  /\ hostEnd \in [Conn -> {"none", "open", "dropped", "closed"}]
           /\ up \in [Conn -> Seq(Frame)]
           /\ down \in [Conn -> Seq(Response)]
           /\ partial \in [Conn -> Request \cup {NoRequest}]
           /\ pc \in [Conn -> {"idle", "auth", "waiting", "connecting", "calling",
                               "saving", "done", "gone"}]
           /\ line \in Seq(Conn)
           /\ got \in [Conn -> Nat]
           /\ verdict \in [Conn -> Seq(Told)]
           /\ \A d \in Conn : Len(up[d]) \in Nat /\ Len(down[d]) \in Nat
           /\ \A d \in Conn : CallInv(d) /\ SentInv(d) /\ ReadInv(d) /\ Own(d)
  <1>1. up \in [Conn -> Seq(Frame)] /\ down \in [Conn -> Seq(Response)]
    BY DEF ServiceInv, EnclaveInv, EnclaveTypeOK, StreamTypeOK
  <1> QED
    BY <1>1, LenProperties
    DEF ServiceInv, EnclaveInv, EnclaveTypeOK, StreamTypeOK, HostTypeOK

\* A call ends: its locals are dropped, its place in the line and its stream.
LEMMA CallOver ==
    ASSUME ServiceInv, NEW k \in Conn, NEW label \in {"done", "gone"},
           pc[k] \notin {"done", "gone"},
           pc' = [pc EXCEPT ![k] = label], unlock(k),
           IF hostEnd[k] = "open" THEN dropStream(k) ELSE UNCHANGED hostEnd,
           UNCHANGED <<up, down, partial, got, enclaveVars>>,
           verdict' \in [Conn -> Seq(Told)],
           \A d \in Conn \ {k} : verdict'[d] = verdict[d],
           Len(verdict'[k]) = IF label = "done" THEN 1 ELSE 0,
           Own(k)',
           verdict'[k] = <<Plain("Saved")>> => BothAnswered(k)
    PROVE  ServiceInv'
  <1>1. /\ pc'[k] = label
        /\ \A d \in Conn \ {k} : pc'[d] = pc[d]
        /\ \A d \in Conn \ {k} : hostEnd'[d] = hostEnd[d]
        /\ hostEnd'[k] = IF hostEnd[k] = "open" THEN "dropped" ELSE hostEnd[k]
    BY ServiceTypes DEF dropStream
  <1>2. EnclaveInv' /\ Connected'
    <2>1. UNCHANGED <<up, down, enclaveVars>>
      OBVIOUS
    <2>2. /\ hostEnd' \in [Conn -> {"none", "open", "dropped", "closed"}]
          /\ partial' \in [Conn -> Request \cup {NoRequest}]
      BY ServiceTypes DEF dropStream
    <2>3. \A c \in Conn : hostEnd'[c] = "none" => hostEnd[c] = "none"
      BY <1>1
    <2> QED
      BY <2>1, <2>2, <2>3, QuietPreserves DEF HostQuiet, ServiceInv
  <1>3. /\ line' \in Seq(Conn)
        /\ \A i, j \in 1..Len(line') : line'[i] = line'[j] => i = j
        /\ \A d \in Conn : InLine(d)' <=> InLine(d) /\ d # k
        /\ \A d \in Conn \ {k} : InLine(d) /\ line[1] = d => line'[1] = d
    BY ServiceTypes, Unlocked DEF ServiceInv
  <1>4. HostTypeOK'
    BY <1>3, ServiceTypes DEF HostTypeOK
  <1>5. LineInv'
    <2>1. \A d \in Conn :
             InLine(d)' <=> Kind[d] = "execute" /\ pc'[d] \in {"waiting", "calling"}
      BY <1>1, <1>3 DEF ServiceInv, LineInv
    <2>2. \A d \in Conn : Kind[d] = "execute" /\ pc'[d] = "calling" => line'[1] = d
      BY <1>1, <1>3 DEF ServiceInv, LineInv
    <2> QED
      BY <1>3, <2>1, <2>2 DEF LineInv
  <1>6. \A d \in Conn \ {k} : CallInv(d)' /\ SentInv(d)' /\ ReadInv(d)' /\ Own(d)'
    BY <1>1, ServiceTypes, CallKept
  <1>7. CallInv(k)' /\ SentInv(k)' /\ ReadInv(k)'
    <2>1. CallInv(k) /\ SentInv(k) /\ ReadInv(k)
      BY ServiceTypes
    <2>2. CallInv(k)'
      BY <1>1, <2>1 DEF CallInv
    <2>3. SentInv(k)'
      BY <1>1, <2>1 DEF SentInv
    <2>4. ReadInv(k)'
      BY <1>1, <2>1 DEF ReadInv, BothAnswered
    <2> QED
      BY <2>2, <2>3, <2>4
  <1> QED
    BY <1>2, <1>4, <1>5, <1>6, <1>7 DEF ServiceInv

\* A response is told by its type, but for the program of the values signed.
LEMMA ResponseTypes ==
    ASSUME NEW r \in Response
    PROVE  /\ r.type \in {"PublicKey", "SigningKeyAttestation", "Error", "Ack",
                          "SignedPublicValues"}
           /\ r.type \in {"PublicKey", "SigningKeyAttestation"} => r = Plain(r.type)
  <1>1. CASE r \in {Plain(t) : t \in {"PublicKey", "SigningKeyAttestation",
                                      "Error", "Ack"}}
    <2>1. PICK t \in {"PublicKey", "SigningKeyAttestation", "Error", "Ack"} :
             r = Plain(t)
      BY <1>1
    <2>2. r.type = t
      BY <2>1 DEF Plain
    <2> QED
      BY <2>1, <2>2
  <1>2. CASE r \in {SignedPublicValues(p) : p \in Program}
    BY <1>2 DEF SignedPublicValues
  <1> QED
    BY <1>1, <1>2 DEF Response

\* What is signed on a connection answers a frame on it that asks for the call's
\* program, within the limit that is allowed.
LEMMA SignedFrame ==
    ASSUME ServiceInv, NEW k \in Conn, NEW i \in 1..Len(down[k]),
           down[k][i].type = "SignedPublicValues"
    PROVE  /\ i \in 1..Len(up[k]) /\ up[k][i].type = "Execute"
           /\ Kind[k] = "execute"
           /\ down[k][i] = SignedPublicValues(Wanted[k])
           /\ up[k][i].cycle_limit \in {Limit[k]} \cup Mixed[Limit[k]]
           /\ up[k][i].cycle_limit <= MaxAllowedCycles
  <1>1. ConnInv(k) /\ taken[k] \in Nat
    BY DEF ServiceInv, EnclaveInv, EnclaveTypeOK
  <1>2. Answered(k)
    BY ServiceTypes DEF SentInv, OwnFrame, Answered
  <1>3. i \in 1..Len(up[k]) /\ Answers(up[k][i], down[k][i])
    BY <1>1, <1>2, ServiceTypes DEF ConnInv, OrderInv
  <1>4. OwnFrame(k, up[k][i])
    BY <1>3, ServiceTypes DEF SentInv
  <1>5. up[k][i].type = "Execute"
    BY <1>3 DEF Answers, Plain
  <1>6. /\ down[k][i] = SignedPublicValues(up[k][i].program)
        /\ up[k][i].cycle_limit <= MaxAllowedCycles
    BY <1>3, <1>5 DEF Answers, Plain
  <1> QED
    BY <1>3, <1>4, <1>5, <1>6 DEF OwnFrame

\* Of a call that still calls, nothing was cut: the limit is its own.
LEMMA SignedAsked ==
    ASSUME ServiceInv, NEW k \in Conn, NEW i \in 1..Len(down[k]),
           down[k][i].type = "SignedPublicValues", pc[k] = "calling"
    PROVE  /\ Kind[k] = "execute"
           /\ down[k][i] = SignedPublicValues(Wanted[k])
           /\ Limit[k] <= MaxAllowedCycles
  <1>1. /\ i \in 1..Len(up[k]) /\ Kind[k] = "execute"
        /\ down[k][i] = SignedPublicValues(Wanted[k])
        /\ up[k][i].cycle_limit <= MaxAllowedCycles
    BY SignedFrame
  <1>2. /\ Len(up[k]) <= Len(Requests(k)) /\ up[k][i] = Requests(k)[i]
        /\ Len(up[k]) \in Nat
    BY <1>1, ServiceTypes DEF CallInv, SentInv
  <1>3. Requests(k) = <<Execute(Wanted[k], Limit[k])>>
    BY <1>1 DEF Requests
  <1>4. i = 1
    BY <1>1, <1>2, <1>3
  <1>5. up[k][i] = Execute(Wanted[k], Limit[k])
    BY <1>2, <1>3, <1>4
  <1> QED
    BY <1>1, <1>5 DEF Execute

\* A call returns what it may be told, and leaves the line.
LEMMA CallReturns ==
    ASSUME ServiceInv, NEW k \in Conn, NEW outcome \in Told,
           pc[k] \notin {"done", "gone"}, return(k, outcome),
           UNCHANGED <<up, down, partial, enclaveVars>>,
           outcome.type = "SignedPublicValues" =>
               /\ Kind[k] = "execute"
               /\ outcome = SignedPublicValues(Wanted[k])
               /\ Limit[k] <= MaxAllowedCycles,
           outcome = Plain("Saved") => BothAnswered(k)
    PROVE  ServiceInv'
  <1>1. verdict[k] = <<>>
    BY ServiceTypes, EmptySeq DEF CallInv
  <1>2. /\ verdict'[k] = <<outcome>>
        /\ verdict' \in [Conn -> Seq(Told)]
        /\ \A d \in Conn \ {k} : verdict'[d] = verdict[d]
    BY <1>1, ServiceTypes DEF return
  <1>3. Len(verdict'[k]) = 1 /\ \A i \in 1..Len(verdict'[k]) : verdict'[k][i] = outcome
    BY <1>2
  <1>4. Own(k)'
    BY <1>3 DEF Own
  <1>5. verdict'[k] = <<Plain("Saved")>> => BothAnswered(k)
    BY <1>2
  <1>6. /\ pc' = [pc EXCEPT ![k] = "done"] /\ unlock(k)
        /\ IF hostEnd[k] = "open" THEN dropStream(k) ELSE UNCHANGED hostEnd
        /\ UNCHANGED got
    BY DEF return
  <1> QED
    BY <1>2, <1>3, <1>4, <1>5, <1>6, CallOver

\* The outcomes that say nothing of the enclave.
LEMMA PlainOutcomes ==
    /\ {Failed, Plain("Refused"), Plain("Address"), Plain("Saved")} \subseteq Told
    /\ \A outcome \in {Failed, Plain("Refused"), Plain("Address"), Plain("Saved")} :
          outcome.type # "SignedPublicValues"
    /\ \A outcome \in {Failed, Plain("Refused"), Plain("Address")} :
          outcome # Plain("Saved")
  BY DEF Told, Failed, Plain

-----------------------------------------------------------------------------
\* The steps of a call that do not end it.

\* A call at work has been told nothing.
LEMMA NotSavedYet ==
    ASSUME ServiceInv, NEW k \in Conn, pc[k] = "calling"
    PROVE  verdict[k] # <<Plain("Saved")>>
  <1>1. Len(verdict[k]) = 0
    BY ServiceTypes DEF CallInv
  <1> QED
    BY <1>1

\* Steps of a call that leave the line, what was read and what was told.
LEMMA CallMoves ==
    ASSUME ServiceInv, NEW k \in Conn, EnclaveInv', Connected',
           UNCHANGED <<line, verdict>>, got' \in [Conn -> Nat],
           pc' \in [Conn -> {"idle", "auth", "waiting", "connecting", "calling",
                             "saving", "done", "gone"}],
           \A d \in Conn \ {k} :
               /\ pc'[d] = pc[d] /\ hostEnd'[d] = hostEnd[d] /\ up'[d] = up[d]
               /\ partial'[d] = partial[d] /\ got'[d] = got[d] /\ down'[d] = down[d],
           LineInv', CallInv(k)', SentInv(k)', ReadInv(k)'
    PROVE  ServiceInv'
  <1>1. HostTypeOK'
    BY DEF ServiceInv, HostTypeOK
  <1>2. \A d \in Conn \ {k} : CallInv(d)' /\ SentInv(d)' /\ ReadInv(d)' /\ Own(d)'
    BY ServiceTypes, CallKept
  <1>3. Own(k)'
    BY ServiceTypes DEF Own
  <1> QED
    BY <1>1, <1>2, <1>3 DEF ServiceInv

\* A call begins; an execute checks its key first.
LEMMA BeginPreserves ==
    ASSUME ServiceInv, NEW k \in Conn, begin(k)
    PROVE  ServiceInv'
  <1>1. /\ pc[k] = "idle"
        /\ pc'[k] = IF Kind[k] = "execute" THEN "auth" ELSE "connecting"
        /\ \A d \in Conn \ {k} : pc'[d] = pc[d]
        /\ UNCHANGED <<hostEnd, up, down, partial, line, got, verdict>>
        /\ UNCHANGED enclaveVars
    BY ServiceTypes DEF begin, goto, vars, streamVars
  <1>2. EnclaveInv' /\ Connected'
    <2>1. HostQuiet
      BY <1>1, ServiceTypes DEF HostQuiet
    <2> QED
      BY <2>1, QuietPreserves DEF ServiceInv
  <1>3. /\ pc' \in [Conn -> {"idle", "auth", "waiting", "connecting", "calling",
                             "saving", "done", "gone"}]
        /\ got' \in [Conn -> Nat]
    BY ServiceTypes DEF begin, goto
  <1>4. LineInv'
    <2>1. LineInv /\ ~InLine(k)
      BY <1>1 DEF ServiceInv, LineInv
    <2>2. pc'[k] \notin {"waiting", "calling"}
      BY <1>1
    <2>3. UNCHANGED line /\ \A d \in Conn \ {k} : pc'[d] = pc[d]
      BY <1>1
    <2> QED
      BY <2>1, <2>2, <2>3 DEF LineInv, InLine
  <1>5. CallInv(k)' /\ SentInv(k)' /\ ReadInv(k)'
    BY <1>1, ServiceTypes DEF CallInv, SentInv, ReadInv, BothAnswered
  <1> QED
    BY <1>1, <1>2, <1>3, <1>4, <1>5, CallMoves

\* A call that waits for the mutex is at the end of the line.
LEMMA EnterPreserves ==
    ASSUME ServiceInv, NEW k \in Conn, enterLine(k)
    PROVE  ServiceInv'
  <1>1. /\ pc[k] = "auth" /\ pc'[k] = "waiting"
        /\ \A d \in Conn \ {k} : pc'[d] = pc[d]
        /\ UNCHANGED <<hostEnd, up, down, partial, enclaveVars, got, verdict>>
    BY ServiceTypes DEF enterLine, vars, streamVars
  <1>2. EnclaveInv' /\ Connected'
    <2>1. HostQuiet
      BY <1>1, ServiceTypes DEF HostQuiet
    <2> QED
      BY <2>1, QuietPreserves DEF ServiceInv
  <1>3. Kind[k] = "execute" /\ ~InLine(k)
    BY <1>1, ServiceTypes DEF ServiceInv, LineInv, CallInv
  <1>4. /\ line' \in Seq(Conn)
        /\ \A i, j \in 1..Len(line') : line'[i] = line'[j] => i = j
        /\ \A d \in Conn : InLine(d)' <=> InLine(d) \/ d = k
        /\ \A d \in Conn : InLine(d) /\ line[1] = d => line'[1] = d
    BY <1>3, ServiceTypes, Entered DEF enterLine, ServiceInv
  <1>5. LineInv'
    <2>1. \A d \in Conn :
             InLine(d)' <=> Kind[d] = "execute" /\ pc'[d] \in {"waiting", "calling"}
      BY <1>1, <1>3, <1>4 DEF ServiceInv, LineInv
    <2>2. \A d \in Conn : Kind[d] = "execute" /\ pc'[d] = "calling" => line'[1] = d
      BY <1>1, <1>4 DEF ServiceInv, LineInv
    <2> QED
      BY <1>4, <2>1, <2>2 DEF LineInv
  <1>6. HostTypeOK'
    BY <1>4, ServiceTypes DEF enterLine, HostTypeOK
  <1>7. \A d \in Conn \ {k} : CallInv(d)' /\ SentInv(d)' /\ ReadInv(d)' /\ Own(d)'
    BY <1>1, ServiceTypes, CallKept
  <1>8. CallInv(k)' /\ SentInv(k)' /\ ReadInv(k)' /\ Own(k)'
    <2>1. CallInv(k) /\ SentInv(k) /\ ReadInv(k) /\ Own(k)
      BY ServiceTypes
    <2>2. CallInv(k)' /\ Own(k)'
      BY <1>1, <1>3, <2>1 DEF CallInv, Own
    <2>3. SentInv(k)' /\ ReadInv(k)'
      BY <1>1, <2>1 DEF SentInv, ReadInv, BothAnswered
    <2> QED
      BY <2>2, <2>3
  <1> QED
    BY <1>2, <1>5, <1>6, <1>7, <1>8 DEF ServiceInv

\* Connecting takes the mutex holder, or a call without the mutex.
LEMMA ConnectPreserves ==
    ASSUME ServiceInv, NEW k \in Conn, connectEnclave(k)
    PROVE  ServiceInv'
  <1>1. mayConnect(k)
    BY DEF connectEnclave
  <1>2. CASE hostConnect(k) /\ goto(k, "calling")
    <2>1. /\ hostEnd[k] = "none" /\ hostEnd'[k] = "open" /\ pc'[k] = "calling"
          /\ \A d \in Conn \ {k} : pc'[d] = pc[d] /\ hostEnd'[d] = hostEnd[d]
          /\ UNCHANGED <<up, down, partial, line, got, verdict>>
      BY <1>2, ServiceTypes DEF hostConnect, connect, goto
    <2>2. EnclaveInv' /\ Connected'
      BY <1>2, NextPreserves DEF ServiceInv, HostStep, Next
    <2>3. /\ pc' \in [Conn -> {"idle", "auth", "waiting", "connecting", "calling",
                               "saving", "done", "gone"}]
          /\ got' \in [Conn -> Nat]
      BY <1>2, ServiceTypes DEF goto
    <2>4. LineInv'
      <3>1. LineInv /\ CallInv(k)
        BY ServiceTypes DEF ServiceInv
      <3>2. Kind[k] = "execute" => line[1] = k /\ InLine(k)
        <4>1. CASE pc[k] = "connecting"
          BY <3>1, <4>1 DEF CallInv
        <4>2. CASE pc[k] = "waiting" /\ line # <<>> /\ Head(line) = k
          BY <3>1, <4>2, ServiceTypes DEF LineInv, CallInv
        <4> QED
          BY <1>1, <4>1, <4>2 DEF mayConnect
      <3> QED
        BY <2>1, <3>1, <3>2 DEF LineInv, InLine
    <2>5. CallInv(k)' /\ SentInv(k)' /\ ReadInv(k)'
      <3>1. CallInv(k) /\ SentInv(k) /\ ReadInv(k)
        BY ServiceTypes
      <3>2. pc[k] \in {"waiting", "connecting"}
        BY <1>1 DEF mayConnect
      <3> QED
        BY <2>1, <3>1, <3>2 DEF CallInv, SentInv, ReadInv, BothAnswered
    <2> QED
      BY <2>1, <2>2, <2>3, <2>4, <2>5, CallMoves
  <1>3. CASE return(k, Failed) /\ UNCHANGED <<up, down, partial, enclaveVars>>
    <2>1. pc[k] \notin {"done", "gone"}
      BY <1>1 DEF mayConnect
    <2> QED
      BY <1>3, <2>1, PlainOutcomes, CallReturns
  <1> QED
    BY <1>2, <1>3 DEF connectEnclave

\* A call begins to send its next request.
LEMMA SendRequestPreserves ==
    ASSUME ServiceInv, NEW k \in Conn, sendRequest(k)
    PROVE  ServiceInv'
  <1>1. /\ pc[k] = "calling" /\ partial[k] = NoRequest
        /\ Len(up[k]) < Len(Requests(k))
    BY DEF sendRequest
  <1>2. CASE /\ beginSend(k, Requests(k)[Len(up[k]) + 1])
             /\ UNCHANGED <<enclaveVars, hostVars>>
    <2> DEFINE request == Requests(k)[Len(up[k]) + 1]
    <2>1. Len(up[k]) + 1 \in 1..Len(Requests(k))
      BY <1>1, RequestsOfCall, ServiceTypes
    <2>2. request \in Request
      BY <2>1, RequestsOfCall
    <2>3. /\ partial'[k] = request
          /\ \A d \in Conn \ {k} : partial'[d] = partial[d]
          /\ partial' \in [Conn -> Request \cup {NoRequest}]
          /\ UNCHANGED <<hostEnd, up, down, pc, line, got, verdict>>
      BY <1>2, <2>2, ServiceTypes DEF beginSend, hostVars
    <2>4. EnclaveInv' /\ Connected'
      <3>1. HostQuiet
        BY <1>2, <2>3, ServiceTypes DEF HostQuiet
      <3> QED
        BY <3>1, QuietPreserves DEF ServiceInv
    <2>5. LineInv'
      BY <2>3 DEF ServiceInv, LineInv, InLine
    <2>6. CallInv(k)' /\ SentInv(k)' /\ ReadInv(k)'
      <3>1. CallInv(k) /\ SentInv(k) /\ ReadInv(k)
        BY ServiceTypes
      <3>2. CallInv(k)'
        BY <1>1, <2>3, <3>1 DEF CallInv
      <3>3. SentInv(k)'
        BY <1>1, <2>3, <3>1 DEF SentInv
      <3>4. verdict[k] # <<Plain("Saved")>>
        BY <1>1, NotSavedYet
      <3>5. ReadInv(k)'
        BY <1>1, <1>2, <2>3, <3>1, <3>4 DEF ReadInv, hostVars
      <3> QED
        BY <3>2, <3>3, <3>5
    <2> QED
      BY <2>3, <2>4, <2>5, <2>6, ServiceTypes, CallMoves
  <1>3. CASE return(k, Failed) /\ UNCHANGED <<up, down, partial, enclaveVars>>
    BY <1>1, <1>3, PlainOutcomes, CallReturns
  <1> QED
    BY <1>2, <1>3 DEF sendRequest

\* A send that completes adds the next request to those that were sent.
LEMMA SentPreserves ==
    ASSUME ServiceInv, NEW k \in Conn, sent(k)
    PROVE  ServiceInv'
  <1>1. pc[k] = "calling" /\ partial[k] # NoRequest
    BY DEF sent
  <1>2. CASE hostEndSend(k) /\ UNCHANGED hostVars
    <2>1. /\ hostEnd[k] = "open"
          /\ up'[k] = Append(up[k], partial[k]) /\ partial'[k] = NoRequest
          /\ \A d \in Conn \ {k} : up'[d] = up[d] /\ partial'[d] = partial[d]
          /\ UNCHANGED <<hostEnd, down, pc, line, got, verdict>>
      BY <1>2, ServiceTypes DEF hostEndSend, endSend, hostVars
    <2>2. EnclaveInv' /\ Connected'
      BY <1>2, NextPreserves DEF ServiceInv, HostStep, Next
    <2>3. LineInv'
      BY <2>1 DEF ServiceInv, LineInv, InLine
    <2>4. CallInv(k) /\ SentInv(k) /\ ReadInv(k)
      BY ServiceTypes
    <2>5. CallInv(k)'
      BY <1>1, <2>1, <2>4 DEF CallInv
    <2>6. ReadInv(k)'
      <3>1. verdict[k] # <<Plain("Saved")>>
        BY <1>1, NotSavedYet
      <3> QED
        BY <1>1, <1>2, <2>1, <2>4, <3>1 DEF ReadInv, hostVars
    <2>7. SentInv(k)'
      <3>1. /\ up[k] \in Seq(Frame) /\ partial[k] \in Frame
            /\ Len(up[k]) \in Nat
        BY <1>1, ServiceTypes, PlainFrames
      <3>2. /\ Len(up'[k]) = Len(up[k]) + 1
            /\ \A i \in 1..Len(up[k]) : up'[k][i] = up[k][i]
            /\ up'[k][Len(up[k]) + 1] = partial[k]
        BY <2>1, <3>1, AppendProperties
      <3>3. /\ Len(up[k]) < Len(Requests(k))
            /\ partial[k] = Requests(k)[Len(up[k]) + 1]
            /\ \A i \in 1..Len(up[k]) : up[k][i] = Requests(k)[i]
        BY <1>1, <2>1, <2>4 DEF SentInv
      <3>4. Len(Requests(k)) \in Nat
        BY RequestsOfCall
      <3>5. 1..Len(up'[k]) = 1..Len(up[k]) \cup {Len(up[k]) + 1}
        BY <3>1, <3>2
      <3>6. \A i \in 1..Len(up'[k]) : up'[k][i] = Requests(k)[i]
        BY <3>2, <3>3, <3>5
      <3>7. \A i \in 1..Len(up'[k]) : i \in 1..Len(Requests(k))
        BY <3>1, <3>2, <3>3, <3>4
      <3>8. \A i \in 1..Len(up'[k]) : OwnFrame(k, up'[k][i])
        BY <3>6, <3>7, RequestsOfCall
      <3>9. Len(up'[k]) <= Len(Requests(k))
        BY <3>1, <3>2, <3>3, <3>4
      <3> QED
        BY <2>1, <3>6, <3>8, <3>9 DEF SentInv
    <2>8. /\ pc' \in [Conn -> {"idle", "auth", "waiting", "connecting", "calling",
                               "saving", "done", "gone"}]
          /\ got' \in [Conn -> Nat]
      BY <2>1, ServiceTypes
    <2> QED
      BY <2>1, <2>2, <2>3, <2>5, <2>6, <2>7, <2>8, CallMoves
  <1>3. CASE return(k, Failed) /\ UNCHANGED <<up, down, partial, enclaveVars>>
    BY <1>1, <1>3, PlainOutcomes, CallReturns
  <1> QED
    BY <1>2, <1>3 DEF sent

\* An answer that is read is the next one down, after those read before it.
LEMMA ReceivedPreserves ==
    ASSUME ServiceInv, NEW k \in Conn, received(k)
    PROVE  ServiceInv'
  <1> DEFINE n == got[k] + 1
             response == down[k][n]
  <1>1. /\ pc[k] = "calling" /\ allSent(k) /\ got[k] < Len(down[k])
        /\ UNCHANGED <<up, down, partial>>
        /\ UNCHANGED enclaveVars
    BY DEF received
  <1>2. n \in 1..Len(down[k]) /\ got[k] \in Nat
    BY <1>1, ServiceTypes
  <1>3. response \in Response
    BY <1>2, ServiceTypes, ElementOfSeq
  <1>4. CASE /\ expected(k, n, response) /\ n < Len(Requests(k))
             /\ got' = [got EXCEPT ![k] = n]
             /\ UNCHANGED <<pc, line, verdict, hostEnd>>
    <2>1. /\ got'[k] = n /\ \A d \in Conn \ {k} : got'[d] = got[d]
          /\ got' \in [Conn -> Nat]
      BY <1>2, <1>4, ServiceTypes
    <2>2. EnclaveInv' /\ Connected'
      <3>1. HostQuiet
        BY <1>1, <1>4, ServiceTypes DEF HostQuiet
      <3> QED
        BY <3>1, QuietPreserves DEF ServiceInv
    <2>3. LineInv'
      BY <1>4 DEF ServiceInv, LineInv, InLine
    <2>4. CallInv(k) /\ SentInv(k) /\ ReadInv(k)
      BY ServiceTypes
    <2>5. CallInv(k)' /\ SentInv(k)'
      BY <1>1, <1>4, <2>4 DEF CallInv, SentInv
    <2>6. ReadInv(k)'
      <3>1. n <= Len(down[k]) /\ 1..n = 1..got[k] \cup {n}
        BY <1>2
      <3>2. \A i \in 1..n : expected(k, i, down[k][i])
        BY <1>4, <2>4, <3>1 DEF ReadInv
      <3>3. verdict[k] # <<Plain("Saved")>>
        BY <1>1, NotSavedYet
      <3> QED
        BY <1>1, <1>4, <2>1, <3>1, <3>2, <3>3 DEF ReadInv
    <2>7. pc' \in [Conn -> {"idle", "auth", "waiting", "connecting", "calling",
                            "saving", "done", "gone"}]
      BY <1>4, ServiceTypes
    <2> QED
      BY <1>1, <1>4, <2>1, <2>2, <2>3, <2>5, <2>6, <2>7, CallMoves
  <1>5. CASE /\ expected(k, n, response) /\ n = Len(Requests(k))
             /\ Kind[k] # "attest" /\ return(k, returned(k, response))
    <2> DEFINE told == returned(k, response)
    <2>1. told = response \/ told = Plain("Address")
      BY DEF returned
    <2>2. told \in Told
      BY <1>3, <2>1, PlainOutcomes DEF Told
    <2>3. told.type = "SignedPublicValues" =>
             /\ Kind[k] = "execute"
             /\ told = SignedPublicValues(Wanted[k])
             /\ Limit[k] <= MaxAllowedCycles
      <3>1. told.type = "SignedPublicValues" => told = response
        BY <2>1, PlainOutcomes
      <3> QED
        BY <1>1, <1>2, <3>1, SignedAsked
    <2>4. told # Plain("Saved")
      <3>1. response.type # "Saved"
        BY <1>3, ResponseTypes
      <3>2. Plain("Saved").type = "Saved" /\ Plain("Address").type # "Saved"
        BY DEF Plain
      <3> QED
        BY <2>1, <3>1, <3>2
    <2> HIDE DEF told
    <2>5. return(k, told)
      BY <1>5 DEF told
    <2> QED
      BY <1>1, <2>2, <2>3, <2>4, <2>5, CallReturns
  <1>7. CASE /\ expected(k, n, response) /\ n = Len(Requests(k))
             /\ Kind[k] = "attest"
             /\ got' = [got EXCEPT ![k] = n]
             /\ pc' = [pc EXCEPT ![k] = "saving"]
             /\ UNCHANGED <<line, verdict, hostEnd>>
    <2>1. /\ got'[k] = n /\ \A d \in Conn \ {k} : got'[d] = got[d]
          /\ pc'[k] = "saving" /\ \A d \in Conn \ {k} : pc'[d] = pc[d]
          /\ got' \in [Conn -> Nat]
          /\ pc' \in [Conn -> {"idle", "auth", "waiting", "connecting", "calling",
                               "saving", "done", "gone"}]
      BY <1>2, <1>7, ServiceTypes
    <2>2. EnclaveInv' /\ Connected'
      <3>1. HostQuiet
        BY <1>1, <1>7, ServiceTypes DEF HostQuiet
      <3> QED
        BY <3>1, QuietPreserves DEF ServiceInv
    <2>3. LineInv'
      <3>1. LineInv /\ ~InLine(k) /\ UNCHANGED line
        BY <1>7 DEF ServiceInv, LineInv
      <3> QED
        BY <1>7, <2>1, <3>1 DEF LineInv, InLine
    <2>4. CallInv(k) /\ SentInv(k) /\ ReadInv(k)
      BY ServiceTypes
    <2>5. CallInv(k)' /\ SentInv(k)'
      BY <1>1, <1>7, <2>1, <2>4 DEF CallInv, SentInv
    <2>6. BothAnswered(k)
      <3>1. Len(Requests(k)) = 2
        BY <1>7, RequestsOfCall
      <3>2. got[k] = 1 /\ n = 2
        BY <1>2, <1>7, <3>1
      <3>3. down[k][2].type = "PublicKey"
        BY <1>7, <3>2 DEF expected
      <3>4. down[k][1].type = "SigningKeyAttestation"
        <4>1. expected(k, 1, down[k][1])
          BY <2>4, <3>2 DEF ReadInv
        <4> QED
          BY <1>7, <4>1 DEF expected
      <3>5. Len(up[k]) = 2 /\ partial[k] = NoRequest
        BY <1>1, <3>1 DEF allSent
      <3> QED
        BY <1>2, <1>7, <3>2, <3>3, <3>4, <3>5, ServiceTypes DEF BothAnswered
    <2>7. ReadInv(k)'
      <3>1. n <= Len(down[k]) /\ 1..n = 1..got[k] \cup {n}
        BY <1>2
      <3>2. \A i \in 1..n : expected(k, i, down[k][i])
        BY <1>7, <2>4, <3>1 DEF ReadInv
      <3>3. BothAnswered(k)'
        BY <1>1, <2>6 DEF BothAnswered
      <3> QED
        BY <1>1, <1>7, <2>1, <3>1, <3>2, <3>3 DEF ReadInv
    <2> QED
      BY <1>1, <1>7, <2>1, <2>2, <2>3, <2>5, <2>7, CallMoves
  <1>6. CASE return(k, Failed)
    BY <1>1, <1>6, PlainOutcomes, CallReturns
  <1> QED
    BY <1>4, <1>5, <1>6, <1>7 DEF received

\* What is saved is what was read; the store may fail.
LEMMA SavePreserves ==
    ASSUME ServiceInv, NEW k \in Conn, save(k)
    PROVE  ServiceInv'
  <1>1. /\ pc[k] = "saving" /\ UNCHANGED <<up, down, partial, enclaveVars>>
        /\ return(k, Plain("Saved")) \/ return(k, Failed)
    BY DEF save
  <1>2. BothAnswered(k)
    BY <1>1, ServiceTypes DEF ReadInv
  <1> QED
    BY <1>1, <1>2, PlainOutcomes, CallReturns

\* A call whose recv fails returns an error.
LEMMA ReceiveFailedPreserves ==
    ASSUME ServiceInv, NEW k \in Conn, receiveFailed(k)
    PROVE  ServiceInv'
  <1>1. /\ pc[k] \notin {"done", "gone"} /\ return(k, Failed)
        /\ UNCHANGED <<up, down, partial, enclaveVars>>
    BY DEF receiveFailed
  <1> QED
    BY <1>1, PlainOutcomes, CallReturns

\* A call that is not whitelisted, or does not parse, is refused before it is in line.
LEMMA RefusePreserves ==
    ASSUME ServiceInv, NEW k \in Conn, refuse(k)
    PROVE  ServiceInv'
  <1>1. /\ pc[k] \notin {"done", "gone"} /\ return(k, Plain("Refused"))
        /\ UNCHANGED <<up, down, partial, enclaveVars>>
    BY DEF refuse
  <1> QED
    BY <1>1, PlainOutcomes, CallReturns

\* A call whose client is gone is dropped wherever it is.
LEMMA LeavePreserves ==
    ASSUME ServiceInv, NEW k \in Conn, leave(k)
    PROVE  ServiceInv'
  <1>1. /\ pc[k] \notin {"done", "gone"} /\ pc' = [pc EXCEPT ![k] = "gone"]
        /\ unlock(k)
        /\ IF hostEnd[k] = "open" THEN dropStream(k) ELSE UNCHANGED hostEnd
        /\ UNCHANGED <<up, down, partial, got, enclaveVars>>
        /\ UNCHANGED verdict
    BY DEF leave
  <1>2. Len(verdict[k]) = 0
    BY <1>1, ServiceTypes DEF CallInv
  <1>3. Own(k)' /\ verdict[k] # <<Plain("Saved")>>
    BY <1>1, <1>2 DEF Own
  <1>4. verdict' \in [Conn -> Seq(Told)] /\ \A d \in Conn : verdict'[d] = verdict[d]
    BY <1>1, ServiceTypes
  <1> QED
    BY <1>1, <1>2, <1>3, <1>4, CallOver

\* A call given up while it connects leaves a connection with nothing on it.
LEMMA LeaveConnectingPreserves ==
    ASSUME ServiceInv, NEW k \in Conn, leaveConnecting(k)
    PROVE  ServiceInv'
  <1>1. /\ mayConnect(k) /\ hostConnectDropped(k) /\ unlock(k)
        /\ UNCHANGED <<up, down, partial, got, verdict>>
        /\ hostEnd[k] = "none" /\ hostEnd'[k] = "closed" /\ pc'[k] = "gone"
        /\ \A d \in Conn \ {k} : pc'[d] = pc[d] /\ hostEnd'[d] = hostEnd[d]
        /\ pc' \in [Conn -> {"idle", "auth", "waiting", "connecting", "calling",
                             "saving", "done", "gone"}]
    BY ServiceTypes DEF leaveConnecting, hostConnectDropped, connectDropped
  <1>2. pc[k] \in {"connecting", "waiting"}
    BY <1>1 DEF mayConnect
  <1>3. EnclaveInv' /\ Connected'
    BY <1>1, NextPreserves DEF ServiceInv, HostStep, Next
  <1>4. /\ line' \in Seq(Conn)
        /\ \A i, j \in 1..Len(line') : line'[i] = line'[j] => i = j
        /\ \A d \in Conn : InLine(d)' <=> InLine(d) /\ d # k
        /\ \A d \in Conn \ {k} : InLine(d) /\ line[1] = d => line'[1] = d
    BY <1>1, ServiceTypes, Unlocked DEF ServiceInv
  <1>5. HostTypeOK'
    BY <1>1, <1>4, ServiceTypes DEF HostTypeOK
  <1>6. LineInv'
    <2>1. \A d \in Conn :
             InLine(d)' <=> Kind[d] = "execute" /\ pc'[d] \in {"waiting", "calling"}
      BY <1>1, <1>4 DEF ServiceInv, LineInv
    <2>2. \A d \in Conn : Kind[d] = "execute" /\ pc'[d] = "calling" => line'[1] = d
      BY <1>1, <1>4 DEF ServiceInv, LineInv
    <2> QED
      BY <1>4, <2>1, <2>2 DEF LineInv
  <1>7. \A d \in Conn \ {k} : CallInv(d)' /\ SentInv(d)' /\ ReadInv(d)' /\ Own(d)'
    BY <1>1, ServiceTypes, CallKept
  <1>8. CallInv(k)' /\ SentInv(k)' /\ ReadInv(k)' /\ Own(k)'
    <2>1. CallInv(k) /\ SentInv(k) /\ ReadInv(k) /\ Own(k)
      BY ServiceTypes
    <2>2. CallInv(k)'
      BY <1>1, <1>2, <2>1 DEF CallInv
    <2>3. SentInv(k)'
      BY <1>1, <2>1 DEF SentInv
    <2>4. ReadInv(k)' /\ Own(k)'
      BY <1>1, <2>1 DEF ReadInv, BothAnswered, Own
    <2> QED
      BY <2>2, <2>3, <2>4
  <1> QED
    BY <1>3, <1>5, <1>6, <1>7, <1>8 DEF ServiceInv

-----------------------------------------------------------------------------
\* The steps of no call: the end of the host, what it left behind, the enclave.

\* The host's process ends, and with it every call.
LEMMA HostGoesPreserves ==
    ASSUME ServiceInv, hostGoes
    PROVE  ServiceInv'
  <1>1. /\ UNCHANGED <<up, down, got, verdict>> /\ UNCHANGED enclaveVars
        /\ line' = <<>>
        /\ \A d \in Conn : /\ pc'[d] = IF pc[d] = "done" THEN "done" ELSE "gone"
                           /\ hostEnd'[d] = IF hostEnd[d] = "none" THEN "none"
                                            ELSE "closed"
                           /\ partial'[d] = NoRequest
    BY DEF hostGoes
  <1>2. EnclaveInv' /\ Connected'
    <2>1. HostQuiet
      BY <1>1, ServiceTypes DEF hostGoes, HostQuiet
    <2> QED
      BY <2>1, QuietPreserves DEF ServiceInv
  <1>3. HostTypeOK'
    BY <1>1, ServiceTypes, EmptySeq DEF hostGoes, HostTypeOK
  <1>4. Len(line') = 0
    BY <1>1, EmptySeq
  <1>5. LineInv'
    BY <1>1, <1>4 DEF LineInv, InLine
  <1>6. ASSUME NEW d \in Conn
        PROVE  CallInv(d)' /\ SentInv(d)' /\ ReadInv(d)' /\ Own(d)'
    <2>1. CallInv(d) /\ SentInv(d) /\ ReadInv(d) /\ Own(d)
      BY ServiceTypes
    <2>2. CallInv(d)'
      BY <1>1, <2>1 DEF CallInv
    <2>3. SentInv(d)'
      BY <1>1, <2>1 DEF SentInv
    <2>4. ReadInv(d)' /\ Own(d)'
      BY <1>1, <2>1 DEF ReadInv, BothAnswered, Own
    <2> QED
      BY <2>2, <2>3, <2>4
  <1> QED
    BY <1>2, <1>3, <1>5, <1>6 DEF ServiceInv

\* What is left of a call's frame is a frame of that call, or nothing.
LEMMA CutIsOwn ==
    ASSUME NEW k \in Conn, NEW r \in Request, OwnFrame(k, r),
           r.type = "Execute" => r.cycle_limit = Limit[k], NEW tail \in Cut(r)
    PROVE  \A i \in 1..Len(tail) : OwnFrame(k, tail[i])
  <1>1. OwnFrame(k, CloseSession)
    BY DEF OwnFrame, CloseSession, Plain
  <1>2. ASSUME NEW f \in completed(r) PROVE OwnFrame(k, f)
    <2>1. CASE r.type # "Execute"
      BY <1>2, <2>1 DEF completed
    <2>2. CASE r.type = "Execute"
      <3>1. PICK m \in Mixed[r.cycle_limit] : f = Execute(r.program, m)
        BY <1>2, <2>2 DEF completed
      <3>2. Kind[k] = "execute" /\ r.program = Wanted[k] /\ r.cycle_limit = Limit[k]
        BY <2>2 DEF OwnFrame
      <3> QED
        BY <3>1, <3>2 DEF OwnFrame, Execute
    <2> QED
      BY <2>1, <2>2
  <1>3. CASE tail = <<>>
    BY <1>3
  <1>4. ASSUME NEW f, tail = <<f>>, OwnFrame(k, f)
        PROVE  \A i \in 1..Len(tail) : OwnFrame(k, tail[i])
    <2>1. Len(tail) = 1 /\ tail[1] = f
      BY <1>4
    <2> QED
      BY <1>4, <2>1
  <1> QED
    BY <1>1, <1>2, <1>3, <1>4 DEF Cut

\* What the close task leaves on a connection is of its own call.
LEMMA CloseTaskPreserves ==
    ASSUME ServiceInv, NEW k \in Conn, closeSessionTask(k)
    PROVE  ServiceInv'
  <1>1. PICK tail \in IF partial[k] = NoRequest THEN {<<CloseSession>>}
                      ELSE Cut(partial[k]) :
           up' = [up EXCEPT ![k] = @ \o tail]
    BY DEF closeSessionTask, hostCloseTask, closeTask
  <1>2. /\ hostEnd[k] = "dropped" /\ hostEnd'[k] = "closed"
        /\ partial'[k] = NoRequest
        /\ up'[k] = up[k] \o tail
        /\ \A d \in Conn \ {k} : /\ hostEnd'[d] = hostEnd[d] /\ up'[d] = up[d]
                                 /\ partial'[d] = partial[d]
        /\ UNCHANGED <<down, pc, line, got, verdict>>
    BY <1>1, ServiceTypes DEF closeSessionTask, hostCloseTask, closeTask, hostVars
  <1>3. EnclaveInv' /\ Connected'
    BY NextPreserves DEF closeSessionTask, ServiceInv, HostStep, Next
  <1>4. LineInv'
    BY <1>2 DEF ServiceInv, LineInv, InLine
  <1>5. CallInv(k) /\ SentInv(k) /\ ReadInv(k)
    BY ServiceTypes
  <1>6. /\ tail \in Seq(Frame)
        /\ \A i \in 1..Len(tail) : OwnFrame(k, tail[i])
    <2>1. CASE partial[k] = NoRequest
      <3>1. tail = <<CloseSession>>
        BY <1>1, <2>1
      <3>2. OwnFrame(k, CloseSession)
        BY DEF OwnFrame, CloseSession, Plain
      <3>3. CloseSession \in Frame
        BY DEF Frame
      <3>4. Len(tail) = 1 /\ tail[1] = CloseSession
        BY <3>1
      <3> QED
        BY <3>1, <3>2, <3>3, <3>4
    <2>2. CASE partial[k] # NoRequest
      <3>1. /\ Len(up[k]) < Len(Requests(k))
            /\ partial[k] = Requests(k)[Len(up[k]) + 1]
        BY <1>2, <1>5, <2>2 DEF SentInv
      <3>2. Len(up[k]) + 1 \in 1..Len(Requests(k))
        BY <3>1, RequestsOfCall, ServiceTypes
      <3>3. /\ OwnFrame(k, partial[k]) /\ partial[k] \in Request
            /\ partial[k].type = "Execute" => partial[k].cycle_limit = Limit[k]
        BY <3>1, <3>2, RequestsOfCall
      <3>4. tail \in Cut(partial[k])
        BY <1>1, <2>2
      <3> QED
        BY <3>3, <3>4, CutFrames, CutIsOwn
    <2> QED
      BY <2>1, <2>2
  <1>7. /\ Len(up[k]) \in Nat /\ Len(tail) \in Nat
        /\ Len(up'[k]) = Len(up[k]) + Len(tail)
        /\ \A i \in 1..Len(up'[k]) :
              up'[k][i] = IF i <= Len(up[k]) THEN up[k][i] ELSE tail[i - Len(up[k])]
    <2>1. up[k] \in Seq(Frame)
      BY ServiceTypes
    <2> QED
      BY <1>2, <1>6, <2>1, ConcatProperties, LenProperties
  <1>8. CallInv(k)'
    BY <1>2, <1>5 DEF CallInv
  <1>9. SentInv(k)'
    <2>1. ASSUME NEW i \in 1..Len(up'[k]) PROVE OwnFrame(k, up'[k][i])
      <3>1. CASE i <= Len(up[k])
        BY <1>5, <1>7, <3>1 DEF SentInv
      <3>2. CASE i > Len(up[k])
        <4>1. i - Len(up[k]) \in 1..Len(tail) /\ up'[k][i] = tail[i - Len(up[k])]
          BY <1>7, <3>2
        <4> QED
          BY <1>6, <4>1
      <3> QED
        BY <1>7, <3>1, <3>2
    <2> QED
      BY <1>2, <2>1 DEF SentInv
  <1>10. ReadInv(k)'
    <2>1. ASSUME BothAnswered(k) PROVE BothAnswered(k)'
      <3>1. Len(up[k]) = 2 /\ partial[k] = NoRequest
        <4>1. Len(up[k]) <= Len(Requests(k)) /\ Len(Requests(k)) = 2
          BY <1>2, <1>5, <2>1, RequestsOfCall DEF SentInv, BothAnswered
        <4> QED
          BY <2>1, <4>1 DEF BothAnswered
      <3>2. tail = <<CloseSession>>
        BY <1>1, <3>1
      <3>3. Len(tail) = 1 /\ tail[1] = CloseSession
        BY <3>2
      <3>4. Len(up'[k]) = 3 /\ up'[k][3] = CloseSession
        BY <1>7, <3>1, <3>3
      <3> QED
        BY <1>2, <2>1, <3>4 DEF BothAnswered
    <2> QED
      BY <1>2, <1>5, <2>1 DEF ReadInv
  <1>11. /\ pc' \in [Conn -> {"idle", "auth", "waiting", "connecting", "calling",
                              "saving", "done", "gone"}]
         /\ got' \in [Conn -> Nat]
    BY <1>2, ServiceTypes
  <1> QED
    BY <1>2, <1>3, <1>4, <1>8, <1>9, <1>10, <1>11, CallMoves

\* The enclave touches the host's variables not at all, and of the connections
\* what it sends.
LEMMA EnclaveOnlySends ==
    ASSUME ServiceInv, NEW k \in Conn, EnclaveStep(k)
    PROVE  /\ UNCHANGED <<hostEnd, up, partial>>
           /\ \/ UNCHANGED down
              \/ \E response \in Response :
                    down' = [down EXCEPT ![k] = Append(@, response)]
  <1>1. /\ result \in [Conn -> Response]
        /\ Plain("PublicKey") \in Response /\ Plain("Error") \in Response
        /\ Plain("Ack") \in Response
    BY PlainFrames DEF ServiceInv, EnclaveInv, EnclaveTypeOK
  <1>2. ASSUME NEW response \in Response, send(k, response)
        PROVE  \/ UNCHANGED down
               \/ \E r \in Response : down' = [down EXCEPT ![k] = Append(@, r)]
    BY <1>2 DEF send
  <1>3. CASE threadStep(k)
    BY <1>3 DEF threadStep, startAttest, finishAttest, startExecute, takeGuard,
                finishExecute, streamVars
  <1>4. CASE accept(k) \/ spawnBlocking(k) \/ handleCloseSession(k) \/ handleEof(k)
    BY <1>4 DEF accept, spawnBlocking, handleCloseSession, handleEof, streamVars
  <1>5. CASE handleGetPublicKey(k) \/ handleNotImplemented(k)
    BY <1>1, <1>2, <1>5 DEF handleGetPublicKey, handleNotImplemented, answer
  <1>6. CASE handlePrint(k)
    <2>1. UNCHANGED <<hostEnd, up, partial>>
      BY <1>6 DEF handlePrint
    <2>2. UNCHANGED down \/ send(k, Plain("Ack"))
      BY <1>6 DEF handlePrint
    <2> QED
      BY <1>1, <1>2, <2>1, <2>2
  <1>7. CASE reply(k)
    BY <1>1, <1>2, <1>7 DEF reply
  <1> QED
    BY <1>3, <1>4, <1>5, <1>6, <1>7 DEF EnclaveStep, handlerStep, handleMessage

\* The enclave's answers to a call lie behind those it has.
LEMMA EnclavePreserves ==
    ASSUME ServiceInv, NEW k \in Conn, enclaveTask(k)
    PROVE  ServiceInv'
  <1>1. /\ EnclaveStep(k) /\ UNCHANGED <<pc, line, got, verdict>>
        /\ UNCHANGED <<hostEnd, up, partial>>
    BY EnclaveOnlySends DEF enclaveTask, hostVars
  <1>2. EnclaveInv' /\ Connected'
    BY <1>1, NextPreserves DEF ServiceInv, Next
  <1>3. HostTypeOK' /\ LineInv'
    BY <1>1 DEF ServiceInv, HostTypeOK, LineInv, InLine
  <1>4. ASSUME NEW d \in Conn
        PROVE  /\ Len(down'[d]) \in Nat /\ Len(down'[d]) >= Len(down[d])
               /\ \A i \in 1..Len(down[d]) : down'[d][i] = down[d][i]
    <2>1. down[d] \in Seq(Response) /\ Len(down[d]) \in Nat
      BY ServiceTypes
    <2>2. CASE down'[d] = down[d]
      BY <2>1, <2>2
    <2>3. ASSUME NEW r \in Response, down'[d] = Append(down[d], r)
          PROVE  /\ Len(down'[d]) \in Nat /\ Len(down'[d]) >= Len(down[d])
                 /\ \A i \in 1..Len(down[d]) : down'[d][i] = down[d][i]
      BY <2>1, <2>3, AppendProperties
    <2>4. down'[d] = down[d] \/ \E r \in Response : down'[d] = Append(down[d], r)
      BY <1>1, ServiceTypes, EnclaveOnlySends
    <2> QED
      BY <2>2, <2>3, <2>4
  <1>5. ASSUME NEW d \in Conn
        PROVE  CallInv(d)' /\ SentInv(d)' /\ ReadInv(d)' /\ Own(d)'
    BY <1>1, <1>4, ServiceTypes, AnswerKept
  <1> QED
    BY <1>2, <1>3, <1>5 DEF ServiceInv

\* The enclave's end takes no answer back.
LEMMA EnclaveCrashPreserves ==
    ASSUME ServiceInv, enclaveCrash
    PROVE  ServiceInv'
  <1>1. /\ UNCHANGED <<pc, line, got, verdict>>
        /\ UNCHANGED <<hostEnd, up, down, partial>>
    BY DEF enclaveCrash, crash, hostVars, streamVars
  <1>2. EnclaveInv' /\ Connected'
    <2>1. Next
      BY DEF enclaveCrash, Next
    <2>2. EnclaveInv /\ Connected
      BY DEF ServiceInv
    <2> QED
      BY <2>1, <2>2, NextPreserves
  <1>3. HostTypeOK' /\ LineInv'
    BY <1>1 DEF ServiceInv, HostTypeOK, LineInv, InLine
  <1>4. \A d \in Conn : CallInv(d)' /\ SentInv(d)' /\ ReadInv(d)' /\ Own(d)'
    BY <1>1, ServiceTypes, CallKept
  <1> QED
    BY <1>2, <1>3, <1>4 DEF ServiceInv

\* Before the first call the line is empty.
LEMMA ServiceInitEstablishes == ServiceInit => ServiceInv
  <1> SUFFICES ASSUME ServiceInit PROVE ServiceInv
    OBVIOUS
  <1>1. EnclaveInv /\ Connected
    BY InitEstablishes DEF ServiceInit, Init, EnclaveInit, Connected
  <1>2. /\ line = <<>> /\ Len(line) = 0
        /\ \A k \in Conn :
              /\ pc[k] = "idle" /\ got[k] = 0 /\ verdict[k] = <<>>
              /\ hostEnd[k] = "none" /\ up[k] = <<>> /\ down[k] = <<>>
              /\ partial[k] = NoRequest
    BY EmptySeq DEF ServiceInit, Init, StreamInit
  <1>3. HostTypeOK
    BY <1>2, EmptySeq DEF ServiceInit, HostTypeOK
  <1>4. LineInv
    BY <1>2 DEF LineInv, InLine
  <1>5. ASSUME NEW k \in Conn PROVE CallInv(k) /\ SentInv(k) /\ ReadInv(k) /\ Own(k)
    <2>1. /\ Len(up[k]) = 0 /\ Len(down[k]) = 0 /\ Len(verdict[k]) = 0
          /\ Len(Requests(k)) \in 1..2
      BY <1>2, EmptySeq, RequestsOfCall
    <2>2. verdict[k] # <<Plain("Saved")>>
      BY <2>1
    <2> QED
      BY <1>2, <2>1, <2>2 DEF CallInv, SentInv, ReadInv, Own
  <1> QED
    BY <1>1, <1>3, <1>4, <1>5 DEF ServiceInv

-----------------------------------------------------------------------------

\* Every step of the calls, of what they left behind, and of the enclave.
LEMMA ServiceNextPreserves ==
    ASSUME ServiceInv, ServiceNext
    PROVE  ServiceInv'
  BY BeginPreserves, EnterPreserves, ConnectPreserves, SendRequestPreserves,
     SentPreserves, ReceivedPreserves, ReceiveFailedPreserves, RefusePreserves,
     SavePreserves, LeavePreserves, LeaveConnectingPreserves, HostGoesPreserves, CloseTaskPreserves, EnclavePreserves,
     EnclaveCrashPreserves
  DEF ServiceNext, callStep

\* Every state of the service, over whatever enclave, keeps the line of the mutex,
\* the streams and the answers of its calls in step (bin/server.rs: execute).
THEOREM ServiceInvariant == ServiceSpec => []ServiceInv
  <1>1. ServiceInv /\ [ServiceNext]_serviceVars => ServiceInv'
    <2> SUFFICES ASSUME ServiceInv, [ServiceNext]_serviceVars PROVE ServiceInv'
      OBVIOUS
    <2>1. CASE ServiceNext
      BY <2>1, ServiceNextPreserves
    <2>2. CASE UNCHANGED serviceVars
      <3>1. /\ UNCHANGED <<pc, line, got, verdict>>
            /\ UNCHANGED <<hostEnd, up, down, partial>>
            /\ UNCHANGED enclaveVars
        BY <2>2 DEF serviceVars, vars, hostVars, streamVars
      <3>2. EnclaveInv' /\ Connected'
        <4>1. HostQuiet
          BY <3>1, ServiceTypes DEF HostQuiet
        <4> QED
          BY <4>1, QuietPreserves DEF ServiceInv
      <3>3. HostTypeOK' /\ LineInv'
        BY <3>1 DEF ServiceInv, HostTypeOK, LineInv, InLine
      <3>4. \A d \in Conn : CallInv(d)' /\ SentInv(d)' /\ ReadInv(d)' /\ Own(d)'
        BY <3>1, ServiceTypes, CallKept
      <3> QED
        BY <3>2, <3>3, <3>4 DEF ServiceInv
    <2> QED
      BY <2>1, <2>2
  <1> QED
    BY <1>1, ServiceInitEstablishes, PTL DEF ServiceSpec

\* Types of the service; a call is answered once, as it returns.
THEOREM ServiceTypeCorrect == ServiceSpec => []ServiceTypeOK
  <1>1. ServiceInv => ServiceTypeOK
    BY ServiceTypes
    DEF ServiceInv, EnclaveInv, HostTypeOK, Told, CallInv, ServiceTypeOK
  <1> QED
    BY <1>1, ServiceInvariant, PTL

\* bin/server.rs:160: no more than one execution that a client waits for is in
\* the enclave, whatever abandoned ones are, and it is the mutex holder's.
THEOREM OneExecutionWaitedFor == ServiceSpec => []OneWaitedExecution
  <1>1. ServiceInv => OneWaitedExecution
    <2> SUFFICES ASSUME ServiceInv, NEW k \in Conn,
                        Kind[k] = "execute", hostEnd[k] = "open"
                 PROVE  line # <<>> /\ Head(line) = k
      BY DEF OneWaitedExecution
    <2>1. pc[k] = "calling"
      BY ServiceTypes DEF CallInv
    <2>2. InLine(k) /\ line[1] = k
      BY <2>1 DEF ServiceInv, LineInv
    <2>3. line \in Seq(Conn) /\ line # <<>>
      BY <2>2, ServiceTypes, EmptySeq DEF InLine
    <2> QED
      BY <2>2, <2>3
  <1> QED
    BY <1>1, ServiceInvariant, PTL

-----------------------------------------------------------------------------
\* Frames that were cut.

\* A frame read with another limit than the call's is that of a call given up; or
\* the call failed to send it for the enclave's end was closed, and answers
\* nothing behind it.
CutInv(k) ==
    /\ partial[k] # NoRequest /\ pc[k] = "done" => enclaveEndClosed(k)
    /\ \A i \in 1..Len(up[k]) :
          up[k][i].type = "Execute" /\ up[k][i].cycle_limit # Limit[k]
            => pc[k] = "gone" \/ (enclaveEndClosed(k) /\ Len(down[k]) < i)

\* An end of the enclave that is closed stays so, and sends nothing.
StaysClosed(k) ==
    enclaveEndClosed(k) => enclaveEndClosed(k)' /\ down'[k] = down[k]

\* It does where its handler and its answers stay.
LEMMA ClosedKept ==
    ASSUME NEW d, handler'[d] = handler[d], down'[d] = down[d]
    PROVE  StaysClosed(d)
  BY DEF StaysClosed, enclaveEndClosed

\* Steps that add no frame to a connection and do not end its call.
LEMMA CutKept ==
    ASSUME NEW d \in Conn, CutInv(d), StaysClosed(d), up'[d] = up[d],
           partial'[d] = partial[d] \/ partial'[d] = NoRequest \/ pc'[d] # "done",
           pc[d] = "gone" => pc'[d] = "gone",
           pc'[d] = "done" => pc[d] = "done" \/ partial[d] = NoRequest \/ enclaveEndClosed(d)
    PROVE  CutInv(d)'
  <1>1. partial'[d] # NoRequest /\ pc'[d] = "done" => enclaveEndClosed(d)'
    BY DEF CutInv, StaysClosed
  <1>2. ASSUME NEW i \in 1..Len(up[d]), up[d][i].type = "Execute",
               up[d][i].cycle_limit # Limit[d]
        PROVE  pc'[d] = "gone" \/ (enclaveEndClosed(d)' /\ Len(down'[d]) < i)
    <2>1. pc[d] = "gone" \/ (enclaveEndClosed(d) /\ Len(down[d]) < i)
      BY <1>2 DEF CutInv
    <2> QED
      BY <2>1 DEF StaysClosed
  <1> QED
    BY <1>1, <1>2 DEF CutInv

\* The enclave's handlers and threads open nothing again.
LEMMA EnclaveStaysClosed ==
    ASSUME EnclaveTypeOK, NEW k \in Conn, EnclaveStep(k), NEW d \in Conn
    PROVE  StaysClosed(d)
  <1>1. /\ handler \in [Conn -> {"none", "backlog", "receiving", "awaiting",
                                 "closed", "panicked"}]
        /\ down \in [Conn -> Seq(Response)]
    BY DEF EnclaveTypeOK, StreamTypeOK
  <1>2. CASE threadStep(k)
    <2>1. UNCHANGED <<handler, down>>
      BY <1>2 DEF threadStep, startAttest, finishAttest, startExecute, takeGuard,
                  finishExecute, streamVars
    <2> QED
      BY <2>1, ClosedKept
  <1>3. CASE handlerStep(k)
    <2>1. handler[k] \in {"backlog", "receiving", "awaiting"}
      BY <1>3 DEF handlerStep, handleMessage, accept, handleGetPublicKey,
                  handleNotImplemented, handlePrint, answer, recv, spawnBlocking,
                  handleCloseSession, handleEof, reply
    <2>2. ASSUME d # k PROVE handler'[d] = handler[d] /\ down'[d] = down[d]
      BY <1>1, <1>3, <2>2
      DEF handlerStep, handleMessage, accept, handleGetPublicKey,
          handleNotImplemented, handlePrint, answer, recv, send, spawnBlocking,
          handleCloseSession, handleEof, reply, streamVars
    <2> QED
      BY <2>1, <2>2, ClosedKept DEF StaysClosed, enclaveEndClosed
  <1> QED
    BY <1>2, <1>3 DEF EnclaveStep

\* A step of the calls that sends nothing, and leaves the enclave alone.
LEMMA CutKeptByCalls ==
    ASSUME ServiceInv, \A d \in Conn : CutInv(d), NEW k \in Conn,
           UNCHANGED <<up, down, partial, enclaveVars>>,
           pc[k] \notin {"done", "gone"}, \A d \in Conn \ {k} : pc'[d] = pc[d],
           pc'[k] = "done" => partial[k] = NoRequest \/ enclaveEndClosed(k)
    PROVE  \A d \in Conn : CutInv(d)'
  <1> SUFFICES ASSUME NEW d \in Conn PROVE CutInv(d)'
    OBVIOUS
  <1>1. StaysClosed(d)
    BY ClosedKept DEF enclaveVars
  <1>2. /\ pc[d] = "gone" => pc'[d] = "gone"
        /\ pc'[d] = "done" => pc[d] = "done" \/ partial[d] = NoRequest \/ enclaveEndClosed(d)
    OBVIOUS
  <1> QED
    BY <1>1, <1>2, CutKept

\* A call that connects, or is given up meanwhile, has sent nothing.
LEMMA CutKeptByConnect ==
    ASSUME ServiceInv, \A d \in Conn : CutInv(d), NEW k \in Conn,
           hostConnect(k) \/ hostConnectDropped(k),
           \A d \in Conn \ {k} : pc'[d] = pc[d]
    PROVE  \A d \in Conn : CutInv(d)'
  <1>1. /\ hostEnd[k] = "none" /\ UNCHANGED <<up, down, partial>>
        /\ \A d \in Conn \ {k} : handler'[d] = handler[d]
    BY DEF hostConnect, connect, hostConnectDropped, connectDropped,
           ServiceInv, EnclaveInv, EnclaveTypeOK
  <1>2. Len(up[k]) = 0 /\ partial[k] = NoRequest
    BY <1>1, ServiceTypes, EmptySeq DEF CallInv
  <1>3. CutInv(k)'
    BY <1>1, <1>2 DEF CutInv
  <1>4. ASSUME NEW d \in Conn \ {k} PROVE CutInv(d)'
    BY <1>1, <1>4, ClosedKept, CutKept
  <1> QED
    BY <1>3, <1>4

\* A call ends with a frame half sent only if the enclave's end is closed.
LEMMA CutKeptByReturn ==
    ASSUME ServiceInv, \A d \in Conn : CutInv(d), NEW k \in Conn, NEW told, return(k, told),
           pc[k] \notin {"done", "gone"}, UNCHANGED <<up, down, partial, enclaveVars>>,
           partial[k] = NoRequest \/ enclaveEndClosed(k)
    PROVE  \A d \in Conn : CutInv(d)'
  <1>1. \A d \in Conn \ {k} : pc'[d] = pc[d]
    BY ServiceTypes DEF return
  <1> QED
    BY <1>1, CutKeptByCalls

\* The steps of a call.
LEMMA CutKeptByCall ==
    ASSUME ServiceInv, \A d \in Conn : CutInv(d), NEW k \in Conn,
           begin(k) \/ callStep(k) \/ leave(k) \/ leaveConnecting(k)
    PROVE  \A d \in Conn : CutInv(d)'
  <1>0. hostEnd[k] = "none" => partial[k] = NoRequest
    BY ServiceTypes DEF CallInv
  <1>1. CASE begin(k) \/ enterLine(k)
    <2>1. /\ UNCHANGED <<up, down, partial, enclaveVars>>
          /\ pc[k] \in {"idle", "auth"} /\ pc'[k] # "done"
          /\ \A d \in Conn \ {k} : pc'[d] = pc[d]
      BY <1>1, ServiceTypes DEF begin, goto, enterLine, vars, streamVars
    <2> QED
      BY <2>1, CutKeptByCalls
  <1>2. CASE refuse(k)
    <2>1. /\ pc[k] = "auth" /\ return(k, Plain("Refused"))
          /\ UNCHANGED <<up, down, partial, enclaveVars>>
      BY <1>2 DEF refuse
    <2>2. partial[k] = NoRequest
      BY <1>0, <2>1, ServiceTypes DEF CallInv
    <2> QED
      BY <2>1, <2>2, CutKeptByReturn
  <1>3. CASE connectEnclave(k)
    <2>1. CASE hostConnect(k) /\ goto(k, "calling")
      <3>1. \A d \in Conn \ {k} : pc'[d] = pc[d]
        BY <2>1, ServiceTypes DEF goto
      <3> QED
        BY <2>1, <3>1, CutKeptByConnect
    <2>2. CASE return(k, Failed) /\ UNCHANGED <<up, down, partial, enclaveVars>>
      <3>1. pc[k] \in {"connecting", "waiting"}
        BY <1>3 DEF connectEnclave, mayConnect
      <3>2. partial[k] = NoRequest
        BY <1>0, <3>1, ServiceTypes DEF CallInv
      <3> QED
        BY <2>2, <3>1, <3>2, CutKeptByReturn
    <2> QED
      BY <1>3, <2>1, <2>2 DEF connectEnclave
  <1>4. CASE sendRequest(k)
    <2>1. pc[k] = "calling" /\ partial[k] = NoRequest
      BY <1>4 DEF sendRequest
    <2>2. ASSUME NEW request, beginSend(k, request), UNCHANGED <<enclaveVars, hostVars>>
          PROVE  \A d \in Conn : CutInv(d)'
      <3>1. /\ UNCHANGED <<up, down, handler, pc>>
            /\ \A d \in Conn \ {k} : partial'[d] = partial[d]
        BY <2>2, ServiceTypes DEF beginSend, enclaveVars, hostVars
      <3> SUFFICES ASSUME NEW d \in Conn PROVE CutInv(d)'
        OBVIOUS
      <3>2. StaysClosed(d)
        BY <3>1, ClosedKept
      <3>3. partial'[d] = partial[d] \/ pc'[d] # "done"
        BY <2>1, <3>1
      <3> QED
        BY <3>1, <3>2, <3>3, CutKept
    <2>3. CASE return(k, Failed) /\ UNCHANGED <<up, down, partial, enclaveVars>>
      BY <2>1, <2>3, CutKeptByReturn
    <2> QED
      BY <1>4, <2>2, <2>3 DEF sendRequest
  <1>5. CASE sent(k)
    <2>1. pc[k] = "calling" /\ partial[k] # NoRequest
      BY <1>5 DEF sent
    <2>2. CASE hostEndSend(k) /\ UNCHANGED hostVars
      <3>1. /\ hostEnd[k] = "open" /\ partial'[k] = NoRequest
            /\ up'[k] = Append(up[k], partial[k])
            /\ \A d \in Conn \ {k} : up'[d] = up[d] /\ partial'[d] = partial[d]
            /\ UNCHANGED <<down, handler, pc>>
        BY <2>2, ServiceTypes DEF hostEndSend, endSend, hostVars, enclaveVars
      <3>2. /\ up[k] \in Seq(Frame) /\ partial[k] \in Frame /\ Len(up[k]) \in Nat
        BY <2>1, ServiceTypes, PlainFrames
      <3>3. /\ Len(up'[k]) = Len(up[k]) + 1
            /\ \A i \in 1..Len(up[k]) : up'[k][i] = up[k][i]
            /\ up'[k][Len(up[k]) + 1] = partial[k]
        BY <3>1, <3>2, AppendProperties
      <3>4. /\ Len(up[k]) < Len(Requests(k))
            /\ partial[k] = Requests(k)[Len(up[k]) + 1]
        BY <2>1, <3>1, ServiceTypes DEF SentInv
      <3>5. Len(up[k]) + 1 \in 1..Len(Requests(k))
        BY <3>2, <3>4, RequestsOfCall
      <3>6. partial[k].type = "Execute" => partial[k].cycle_limit = Limit[k]
        BY <3>4, <3>5, RequestsOfCall
      <3>7. CutInv(k)'
        <4>1. pc'[k] # "done"
          BY <2>1, <3>1
        <4>2. ASSUME NEW i \in 1..Len(up'[k]), up'[k][i].type = "Execute",
                     up'[k][i].cycle_limit # Limit[k]
              PROVE  pc'[k] = "gone" \/ (enclaveEndClosed(k)' /\ Len(down'[k]) < i)
          <5>1. i # Len(up[k]) + 1
            BY <3>3, <3>6, <4>2
          <5>2. i \in 1..Len(up[k])
            BY <3>2, <3>3, <5>1
          <5>3. pc[k] = "gone" \/ (enclaveEndClosed(k) /\ Len(down[k]) < i)
            BY <3>3, <4>2, <5>2 DEF CutInv
          <5> QED
            BY <3>1, <5>3 DEF enclaveEndClosed
        <4> QED
          BY <4>1, <4>2 DEF CutInv
      <3>8. ASSUME NEW d \in Conn \ {k} PROVE CutInv(d)'
        BY <3>1, <3>8, ClosedKept, CutKept
      <3> QED
        BY <3>7, <3>8
    <2>3. CASE /\ enclaveEndClosed(k) /\ return(k, Failed)
               /\ UNCHANGED <<up, down, partial, enclaveVars>>
      BY <2>1, <2>3, CutKeptByReturn
    <2> QED
      BY <1>5, <2>2, <2>3 DEF sent
  <1>6. CASE received(k)
    <2>1. /\ pc[k] = "calling" /\ partial[k] = NoRequest
          /\ UNCHANGED <<up, down, partial, enclaveVars>>
      BY <1>6 DEF received, allSent
    <2>2. \A d \in Conn \ {k} : pc'[d] = pc[d]
      BY <1>6, ServiceTypes DEF received, return
    <2> QED
      BY <2>1, <2>2, CutKeptByCalls
  <1>7. CASE receiveFailed(k)
    <2>1. /\ pc[k] = "calling" /\ partial[k] = NoRequest /\ return(k, Failed)
          /\ UNCHANGED <<up, down, partial, enclaveVars>>
      BY <1>7 DEF receiveFailed, allSent
    <2> QED
      BY <2>1, CutKeptByReturn
  <1>8. CASE save(k)
    <2>1. /\ pc[k] = "saving" /\ UNCHANGED <<up, down, partial, enclaveVars>>
          /\ \E told : return(k, told)
      BY <1>8 DEF save
    <2>2. partial[k] = NoRequest
      BY <2>1, ServiceTypes DEF ReadInv, BothAnswered
    <2> QED
      BY <2>1, <2>2, CutKeptByReturn
  <1>9. CASE leave(k)
    <2>1. /\ pc[k] \notin {"done", "gone"} /\ pc'[k] = "gone"
          /\ \A d \in Conn \ {k} : pc'[d] = pc[d]
          /\ UNCHANGED <<up, down, partial, enclaveVars>>
      BY <1>9, ServiceTypes DEF leave
    <2> QED
      BY <2>1, CutKeptByCalls
  <1>10. CASE leaveConnecting(k)
    <2>1. hostConnectDropped(k) /\ \A d \in Conn \ {k} : pc'[d] = pc[d]
      BY <1>10, ServiceTypes DEF leaveConnecting
    <2> QED
      BY <2>1, CutKeptByConnect
  <1> QED
    BY <1>1, <1>2, <1>3, <1>4, <1>5, <1>6, <1>7, <1>8, <1>9, <1>10 DEF callStep

\* The frame a close task completes is behind all answers, or its call was given up.
LEMMA CutKeptByClose ==
    ASSUME ServiceInv, \A d \in Conn : CutInv(d), NEW k \in Conn, closeSessionTask(k)
    PROVE  \A d \in Conn : CutInv(d)'
  <1>1. PICK tail \in IF partial[k] = NoRequest THEN {<<CloseSession>>}
                      ELSE Cut(partial[k]) :
           up' = [up EXCEPT ![k] = @ \o tail]
    BY DEF closeSessionTask, hostCloseTask, closeTask
  <1>2. /\ hostEnd[k] = "dropped" /\ partial'[k] = NoRequest
        /\ up'[k] = up[k] \o tail
        /\ \A d \in Conn \ {k} : up'[d] = up[d] /\ partial'[d] = partial[d]
        /\ UNCHANGED <<down, pc, handler>>
    BY <1>1, ServiceTypes
    DEF closeSessionTask, hostCloseTask, closeTask, hostVars, enclaveVars
  <1>3. ASSUME partial[k] # NoRequest
        PROVE  pc[k] = "gone" \/ enclaveEndClosed(k)
    <2>1. pc[k] \in {"done", "gone"}
      BY <1>2, ServiceTypes DEF CallInv
    <2> QED
      BY <1>3, <2>1 DEF CutInv
  <1>4. tail \in Seq(Frame) /\ (partial[k] = NoRequest => tail = <<CloseSession>>)
    <2>1. <<CloseSession>> \in Seq(Frame)
      BY PlainFrames
    <2>2. CASE partial[k] = NoRequest
      BY <1>1, <2>1, <2>2
    <2>3. CASE partial[k] # NoRequest
      <3>1. partial[k] \in Request /\ tail \in Cut(partial[k])
        BY <1>1, <2>3, ServiceTypes
      <3> QED
        BY <2>3, <3>1, CutFrames
    <2> QED
      BY <2>2, <2>3
  <1>5. Len(down[k]) <= Len(up[k])
    <2>1. ConnInv(k) /\ taken[k] \in Nat
      BY DEF ServiceInv, EnclaveInv, EnclaveTypeOK
    <2>2. Answered(k)
      BY ServiceTypes DEF SentInv, OwnFrame, Answered
    <2> QED
      BY <2>1, <2>2, ServiceTypes DEF ConnInv, OrderInv
  <1>6. /\ Len(up[k]) \in Nat /\ Len(tail) \in Nat /\ Len(down[k]) \in Nat
        /\ Len(up'[k]) = Len(up[k]) + Len(tail)
        /\ \A i \in 1..Len(up'[k]) :
              up'[k][i] = IF i <= Len(up[k]) THEN up[k][i] ELSE tail[i - Len(up[k])]
    <2>1. up[k] \in Seq(Frame)
      BY ServiceTypes
    <2> QED
      BY <1>2, <1>4, <2>1, ServiceTypes, ConcatProperties, LenProperties
  <1>7. ASSUME NEW i \in 1..Len(up'[k]), up'[k][i].type = "Execute",
               up'[k][i].cycle_limit # Limit[k]
        PROVE  pc'[k] = "gone" \/ (enclaveEndClosed(k)' /\ Len(down'[k]) < i)
    <2>1. CASE i <= Len(up[k])
      <3>1. i \in 1..Len(up[k]) /\ up'[k][i] = up[k][i]
        BY <1>6, <2>1
      <3>2. pc[k] = "gone" \/ (enclaveEndClosed(k) /\ Len(down[k]) < i)
        BY <1>7, <3>1 DEF CutInv
      <3> QED
        BY <1>2, <3>2 DEF enclaveEndClosed
    <2>2. CASE i > Len(up[k])
      <3>1. up'[k][i] = tail[i - Len(up[k])] /\ Len(down[k]) < i
        BY <1>5, <1>6, <2>2
      <3>2. partial[k] # NoRequest
        <4> SUFFICES ASSUME partial[k] = NoRequest PROVE FALSE
          OBVIOUS
        <4>1. tail = <<CloseSession>>
          BY <1>4
        <4>2. Len(tail) = 1 /\ tail[1] = CloseSession
          BY <4>1
        <4>3. i - Len(up[k]) = 1
          BY <1>6, <2>2, <4>2
        <4> QED
          BY <1>7, <3>1, <4>2, <4>3 DEF CloseSession, Plain
      <3>3. pc[k] = "gone" \/ enclaveEndClosed(k)
        BY <1>3, <3>2
      <3> QED
        BY <1>2, <3>1, <3>3 DEF enclaveEndClosed
    <2> QED
      BY <1>6, <2>1, <2>2
  <1>8. CutInv(k)'
    BY <1>2, <1>7 DEF CutInv
  <1>9. ASSUME NEW d \in Conn \ {k} PROVE CutInv(d)'
    BY <1>2, <1>9, ClosedKept, CutKept
  <1> QED
    BY <1>8, <1>9

\* Every step of the service.
LEMMA CutInvKept ==
    ASSUME ServiceInv, \A d \in Conn : CutInv(d), ServiceNext
    PROVE  \A d \in Conn : CutInv(d)'
  <1>1. CASE enclaveCrash
    <2>1. /\ UNCHANGED <<up, down, partial, pc>>
          /\ \A d \in Conn : handler'[d] = "closed"
      BY <1>1 DEF enclaveCrash, crash, hostVars, streamVars
    <2>2. \A d \in Conn : StaysClosed(d)
      BY <2>1 DEF StaysClosed, enclaveEndClosed
    <2> QED
      BY <2>1, <2>2, CutKept
  <1>2. CASE hostGoes
    <2>1. /\ UNCHANGED <<up, down, handler>>
          /\ \A d \in Conn : /\ pc'[d] = IF pc[d] = "done" THEN "done" ELSE "gone"
                             /\ partial'[d] = NoRequest
      BY <1>2 DEF hostGoes, enclaveVars
    <2> SUFFICES ASSUME NEW d \in Conn PROVE CutInv(d)'
      OBVIOUS
    <2>2. StaysClosed(d)
      BY <2>1, ClosedKept
    <2> QED
      BY <2>1, <2>2, CutKept
  <1>3. ASSUME NEW k \in Conn, enclaveTask(k)
        PROVE  \A d \in Conn : CutInv(d)'
    <2>1. EnclaveStep(k) /\ UNCHANGED <<up, partial, pc>>
      BY <1>3, EnclaveOnlySends DEF enclaveTask, hostVars
    <2>2. \A d \in Conn : StaysClosed(d)
      BY <2>1, EnclaveStaysClosed DEF ServiceInv, EnclaveInv
    <2> QED
      BY <2>1, <2>2, CutKept
  <1> QED
    BY <1>1, <1>2, <1>3, CutKeptByCall, CutKeptByClose DEF ServiceNext

\* Whatever is cut and whoever leaves or fails, a frame read with another limit
\* than its call's is answered to nobody (stream.rs: Drop for HostStream).
LEMMA CutInvariant == ServiceSpec => [](\A k \in Conn : CutInv(k))
  <1> DEFINE Cuts == \A k \in Conn : CutInv(k)
  <1>1. ServiceInit => Cuts
    <2> SUFFICES ASSUME ServiceInit, NEW k \in Conn PROVE CutInv(k)
      OBVIOUS
    <2>1. Len(up[k]) = 0 /\ partial[k] = NoRequest
      BY EmptySeq DEF ServiceInit, Init, StreamInit
    <2> QED
      BY <2>1 DEF CutInv
  <1>2. ServiceInv /\ Cuts /\ [ServiceNext]_serviceVars => Cuts'
    <2> SUFFICES ASSUME ServiceInv, Cuts, [ServiceNext]_serviceVars PROVE Cuts'
      OBVIOUS
    <2>1. CASE ServiceNext
      BY <2>1, CutInvKept
    <2>2. CASE UNCHANGED serviceVars
      <3>1. UNCHANGED <<up, down, partial, handler, pc>>
        BY <2>2 DEF serviceVars, vars, streamVars, enclaveVars, hostVars
      <3>2. \A d \in Conn : StaysClosed(d)
        BY <3>1, ClosedKept
      <3> QED
        BY <3>1, <3>2, CutKept
    <2> QED
      BY <2>1, <2>2
  <1> HIDE DEF Cuts
  <1>3. ServiceSpec => []Cuts
    BY <1>1, <1>2, ServiceInvariant, PTL DEF ServiceSpec
  <1> QED
    BY <1>3 DEF Cuts

\* The enclave runs and signs what was asked on the connection, within the limit
\* asked for.  A limit beyond the allowed that lost its last bytes may have it sign
\* within another; it is then that of a client that is gone (stream.rs: Drop for
\* HostStream).
THEOREM NothingElseSigned == ServiceSpec => []SignedWasAsked
  <1>1. ServiceInv /\ (\A k \in Conn : CutInv(k)) => SignedWasAsked
    <2> SUFFICES ASSUME ServiceInv, \A k \in Conn : CutInv(k),
                        NEW k \in Conn, NEW i \in 1..Len(down[k]),
                        down[k][i].type = "SignedPublicValues"
                 PROVE  /\ Kind[k] = "execute"
                        /\ down[k][i] = SignedPublicValues(Wanted[k])
                        /\ up[k][i].cycle_limit <= MaxAllowedCycles
                        /\ \/ up[k][i].cycle_limit = Limit[k]
                           \/ /\ Limit[k] > MaxAllowedCycles
                              /\ up[k][i].cycle_limit \in Mixed[Limit[k]]
                              /\ pc[k] = "gone" /\ verdict[k] = <<>>
      BY DEF SignedWasAsked
    <2>1. /\ i \in 1..Len(up[k]) /\ up[k][i].type = "Execute" /\ Kind[k] = "execute"
          /\ down[k][i] = SignedPublicValues(Wanted[k])
          /\ up[k][i].cycle_limit \in {Limit[k]} \cup Mixed[Limit[k]]
          /\ up[k][i].cycle_limit <= MaxAllowedCycles
      BY SignedFrame
    <2>2. ASSUME up[k][i].cycle_limit # Limit[k]
          PROVE  /\ Limit[k] > MaxAllowedCycles
                 /\ pc[k] = "gone" /\ verdict[k] = <<>>
      <3>1. /\ Limit[k] \in CycleLimit /\ Limit[k] \in Nat /\ MaxAllowedCycles \in Nat
            /\ up[k][i].cycle_limit \in Mixed[Limit[k]]
        BY <2>1, <2>2, CallAssumption, LimitAssumption
      <3>2. ~(Limit[k] <= MaxAllowedCycles)
        BY <2>1, <2>2, <3>1, LimitAssumption
      <3>3. pc[k] = "gone"
        <4>1. pc[k] = "gone" \/ Len(down[k]) < i
          BY <2>1, <2>2 DEF CutInv
        <4>2. i \in Nat /\ i <= Len(down[k]) /\ Len(down[k]) \in Nat
          BY ServiceTypes
        <4> QED
          BY <4>1, <4>2
      <3>4. verdict[k] = <<>>
        BY <3>3, ServiceTypes, EmptySeq DEF CallInv
      <3> QED
        BY <3>1, <3>2, <3>3, <3>4
    <2> QED
      BY <2>1, <2>2
  <1> QED
    BY <1>1, ServiceInvariant, CutInvariant, PTL

\* bin/server.rs, execute: a client is told of its own program alone.
THEOREM OwnAnswerOnly == ServiceSpec => []OwnAnswer
  <1>1. ServiceInv => OwnAnswer
    BY DEF ServiceInv, Own, OwnAnswer
  <1> QED
    BY <1>1, ServiceInvariant, PTL

\* save_attestation: what is saved is an attestation and the key it is of, for a
\* third answer would answer the close.
THEOREM AttestationSaved == ServiceSpec => []SavedIsAttestation
  <1>1. ServiceInv => SavedIsAttestation
    <2> SUFFICES ASSUME ServiceInv, NEW k \in Conn, NEW i \in 1..Len(verdict[k]),
                        verdict[k][i] = Plain("Saved")
                 PROVE  /\ Kind[k] = "attest"
                        /\ down[k] = <<Plain("SigningKeyAttestation"),
                                       Plain("PublicKey")>>
      BY DEF SavedIsAttestation
    <2>1. /\ verdict[k] \in Seq(Told) /\ Len(verdict[k]) = 1 /\ i = 1
      BY ServiceTypes DEF CallInv
    <2>2. verdict[k] = <<Plain("Saved")>>
      BY <2>1
    <2>3. BothAnswered(k)
      BY <2>2, ServiceTypes DEF ReadInv
    <2>4. down[k] \in Seq(Response) /\ Len(down[k]) \in Nat
      BY ServiceTypes
    <2>5. Len(down[k]) = 2
      <3>1. ConnInv(k) /\ taken[k] \in Nat
        BY DEF ServiceInv, EnclaveInv, EnclaveTypeOK
      <3>2. Answered(k)
        BY ServiceTypes DEF SentInv, OwnFrame, Answered
      <3>3. /\ Len(down[k]) <= Len(up[k])
            /\ \A j \in 1..Len(down[k]) : Answers(up[k][j], down[k][j])
        BY <3>1, <3>2, ServiceTypes DEF ConnInv, OrderInv
      <3>4. \A response : ~Answers(CloseSession, response)
        BY DEF Answers, CloseSession, Plain
      <3>5. ASSUME Len(up[k]) = 3, up[k][3] = CloseSession
            PROVE  Len(down[k]) < 3
        <4>1. \A j \in 1..Len(down[k]) : j # 3
          BY <3>3, <3>4, <3>5
        <4> QED
          BY <2>4, <4>1
      <3>6. Len(down[k]) <= 2
        <4>1. Len(down[k]) \in Nat
          BY <2>4
        <4>2. Len(up[k]) = 2 \/ Len(down[k]) < 3
          BY <2>3, <3>5 DEF BothAnswered
        <4> QED
          BY <3>3, <4>1, <4>2
      <3>7. Len(down[k]) >= 2
        BY <2>3 DEF BothAnswered
      <3>8. \A n \in Nat : n <= 2 /\ n >= 2 => n = 2
        OBVIOUS
      <3> QED
        BY <2>4, <3>6, <3>7, <3>8
    <2>6. /\ down[k][1] = Plain("SigningKeyAttestation")
          /\ down[k][2] = Plain("PublicKey")
      BY <2>3, <2>4, <2>5, ElementOfSeq, ResponseTypes DEF BothAnswered
    <2>7. down[k] = <<down[k][1], down[k][2]>>
      BY <2>4, <2>5
    <2> QED
      BY <2>3, <2>6, <2>7 DEF BothAnswered
  <1> QED
    BY <1>1, ServiceInvariant, PTL

-----------------------------------------------------------------------------
\* The queue the execute calls see: what they were told, and who is gone.

\* What changes neither the line nor what was told is no step of the queue.
LEMMA QueueStutters ==
    ASSUME UNCHANGED line,
           \A k \in ExecuteCall :
               verdict'[k] = verdict[k] /\ (pc'[k] = "gone" <=> pc[k] = "gone")
    PROVE  UNCHANGED Queue!vars
  BY DEF Queue!vars

\* Who is not in line holds up nobody.
LEMMA OutOfLine ==
    ASSUME ServiceInv, NEW k \in Conn, ~InLine(k), unlock(k)
    PROVE  UNCHANGED line
  BY DEF unlock, InLine

\* The head of the line returns: the permit goes to the next.
LEMMA HeadUnlocked ==
    ASSUME ServiceInv, NEW k \in Conn, InLine(k), line[1] = k, unlock(k)
    PROVE  line # <<>> /\ Head(line) = k /\ line' = Tail(line)
  <1>1. /\ line \in Seq(Conn) /\ line # <<>> /\ Len(line) \in Nat
        /\ 1 \in 1..Len(line)
    BY ServiceTypes, LenProperties, EmptySeq DEF InLine
  <1>2. Head(line) = k
    BY <1>1
  <1>3. k \in Range(line)
    BY <1>1, InRange
  <1>4. PICK i \in 1..Len(line) : line[i] = k /\ line' = RemoveAt(line, i)
    BY <1>3 DEF unlock
  <1>5. i = 1
    BY <1>1, <1>4 DEF ServiceInv, LineInv
  <1>6. /\ line' \in Seq(Conn) /\ Len(line') = Len(line) - 1
        /\ \A j \in 1..Len(line) - 1 : line'[j] = line[j + 1]
    <2>1. /\ RemoveAt(line, 1) \in Seq(Conn)
          /\ Len(RemoveAt(line, 1)) = Len(line) - 1
          /\ \A j \in 1..Len(line) - 1 :
                RemoveAt(line, 1)[j] = IF j < 1 THEN line[j] ELSE line[j + 1]
      BY <1>1, RemoveAtFacts
    <2> QED
      BY <1>1, <1>4, <1>5, <2>1
  <1>7. /\ Tail(line) \in Seq(Conn) /\ Len(Tail(line)) = Len(line) - 1
        /\ \A j \in 1..Len(line) - 1 : Tail(line)[j] = line[j + 1]
    BY <1>1, HeadTailProperties
  <1>8. line' = Tail(line)
    BY <1>6, <1>7, SeqEqual
  <1> QED
    BY <1>1, <1>2, <1>8

\* A call that is not in the line, or at its head, returns.
LEMMA QueueReturns ==
    ASSUME ServiceInv, NEW k \in Conn, NEW outcome, return(k, outcome),
           pc[k] \in {"connecting", "waiting", "calling", "saving"},
           Kind[k] = "execute" => InLine(k) /\ line[1] = k,
           Kind[k] = "execute" => outcome \in ExecuteOutcomes(k)
    PROVE  Queue!Next \/ UNCHANGED Queue!vars
  <1>1. /\ pc'[k] = "done" /\ \A d \in Conn \ {k} : pc'[d] = pc[d]
        /\ verdict'[k] = Append(verdict[k], outcome)
        /\ \A d \in Conn \ {k} : verdict'[d] = verdict[d]
        /\ unlock(k)
    BY ServiceTypes DEF return
  <1>2. CASE Kind[k] # "execute"
    <2>1. ~InLine(k)
      BY <1>2 DEF ServiceInv, LineInv
    <2>2. UNCHANGED line
      BY <1>1, <2>1, OutOfLine
    <2>3. \A d \in ExecuteCall : d \in Conn \ {k}
      BY <1>2 DEF ExecuteCall
    <2> QED
      BY <1>1, <2>2, <2>3, QueueStutters
  <1>3. CASE Kind[k] = "execute"
    <2>1. k \in ExecuteCall /\ ExecuteCall \subseteq Conn
      BY <1>3 DEF ExecuteCall
    <2>2. line # <<>> /\ Head(line) = k /\ line' = Tail(line)
      BY <1>1, <1>3, HeadUnlocked
    <2>3. Queue!Give(k, outcome)
      BY <1>1, <2>1 DEF Queue!Give
    <2>4. {d \in ExecuteCall : pc[d] = "gone"}' = {d \in ExecuteCall : pc[d] = "gone"}
      BY <1>1, <2>1
    <2>5. Queue!Serve(k)
      BY <1>3, <2>2, <2>3, <2>4 DEF Queue!Serve
    <2> QED
      BY <2>1, <2>5 DEF Queue!Next
  <1> QED
    BY <1>2, <1>3

\* Steps of the calls that nobody in the queue sees.
LEMMA QueueAside ==
    ASSUME ServiceInv, UNCHANGED <<line, verdict>>,
           \/ UNCHANGED pc
           \/ \E k \in Conn : \E label \in {"auth", "connecting", "calling", "saving"} :
                 pc[k] # "gone" /\ pc' = [pc EXCEPT ![k] = label]
    PROVE  UNCHANGED Queue!vars
  <1>1. \A d \in ExecuteCall : d \in Conn
    BY DEF ExecuteCall
  <1>2. \A d \in Conn : pc'[d] = "gone" <=> pc[d] = "gone"
    BY ServiceTypes
  <1> QED
    BY <1>1, <1>2, QueueStutters

\* A call that is calling holds the mutex, if it is an execution.
LEMMA CallingAtHead ==
    ASSUME ServiceInv, NEW k \in Conn, pc[k] = "calling", Kind[k] = "execute"
    PROVE  InLine(k) /\ line[1] = k
  BY DEF ServiceInv, LineInv

\* An execute asks for the mutex, or is refused.
LEMMA QueueEnters ==
    ASSUME ServiceInv, NEW k \in Conn, enterLine(k) \/ refuse(k)
    PROVE  Queue!Enter(k) \/ Queue!Refuse(k)
  <1>1. pc[k] = "auth" /\ Kind[k] = "execute" /\ Len(verdict[k]) = 0
    BY ServiceTypes DEF enterLine, refuse, CallInv
  <1>2. k \in ExecuteCall /\ ExecuteCall \subseteq Conn
    BY <1>1 DEF ExecuteCall
  <1>3. verdict[k] = <<>>
    BY <1>1, ServiceTypes, EmptySeq
  <1>4. ~InLine(k)
    BY <1>1 DEF ServiceInv, LineInv
  <1>5. k \notin Queue!Range(line)
    BY <1>4, InRange, ServiceTypes DEF Queue!Range, Range
  <1>6. Queue!Unserved(k)
    BY <1>1, <1>2, <1>3 DEF Queue!Unserved
  <1>7. CASE enterLine(k)
    <2>1. /\ line' = Append(line, k) /\ UNCHANGED verdict
          /\ \A d \in Conn : pc'[d] = "gone" <=> pc[d] = "gone"
      BY <1>1, <1>7, ServiceTypes DEF enterLine
    <2>2. {d \in ExecuteCall : pc[d] = "gone"}' = {d \in ExecuteCall : pc[d] = "gone"}
      BY <1>2, <2>1
    <2>3. [d \in ExecuteCall |-> verdict[d]]' = [d \in ExecuteCall |-> verdict[d]]
      BY <2>1
    <2> QED
      BY <1>5, <1>6, <2>1, <2>2, <2>3 DEF Queue!Enter
  <1>8. CASE refuse(k)
    <2>1. /\ pc'[k] = "done" /\ \A d \in Conn \ {k} : pc'[d] = pc[d]
          /\ verdict'[k] = Append(verdict[k], Plain("Refused"))
          /\ \A d \in Conn \ {k} : verdict'[d] = verdict[d]
          /\ unlock(k)
      BY <1>8, ServiceTypes DEF refuse, return
    <2>2. UNCHANGED line
      BY <1>4, <2>1, OutOfLine
    <2>3. {d \in ExecuteCall : pc[d] = "gone"}' = {d \in ExecuteCall : pc[d] = "gone"}
      BY <1>1, <1>2, <2>1
    <2>4. Queue!Give(k, [type |-> "Refused"])
      BY <1>2, <2>1 DEF Queue!Give, Plain
    <2> QED
      BY <1>5, <1>6, <2>2, <2>3, <2>4 DEF Queue!Refuse
  <1> QED
    BY <1>7, <1>8

\* An execute whose client is gone leaves the queue; the other calls were never in it.
LEMMA QueueLeft ==
    ASSUME ServiceInv, NEW k \in Conn, leave(k) \/ leaveConnecting(k)
    PROVE  Queue!Next \/ UNCHANGED Queue!vars
  <1>1. /\ pc[k] \in {"auth", "waiting", "connecting", "calling"}
        /\ pc'[k] = "gone" /\ \A d \in Conn \ {k} : pc'[d] = pc[d]
        /\ unlock(k) /\ UNCHANGED verdict
    BY ServiceTypes DEF leave, leaveConnecting, mayConnect
  <1>2. CASE Kind[k] # "execute"
    <2>1. ~InLine(k)
      BY <1>2 DEF ServiceInv, LineInv
    <2>2. UNCHANGED line
      BY <1>1, <2>1, OutOfLine
    <2>3. \A d \in ExecuteCall : d \in Conn \ {k}
      BY <1>2 DEF ExecuteCall
    <2> QED
      BY <1>1, <2>2, <2>3, QueueStutters
  <1>3. CASE Kind[k] = "execute"
    <2>1. k \in ExecuteCall /\ ExecuteCall \subseteq Conn
      BY <1>3 DEF ExecuteCall
    <2>2. verdict[k] = <<>>
      BY <1>1, ServiceTypes, EmptySeq DEF CallInv
    <2>3. Queue!Unserved(k)
      BY <1>1, <2>1, <2>2 DEF Queue!Unserved
    <2>4. {d \in ExecuteCall : pc[d] = "gone"}'
             = {d \in ExecuteCall : pc[d] = "gone"} \cup {k}
      BY <1>1, <2>1
    <2>5. \/ k \notin Range(line) /\ UNCHANGED line
          \/ \E i \in 1..Len(line) : line[i] = k /\ line' = RemoveAt(line, i)
      BY <1>1 DEF unlock
    <2>6. [d \in ExecuteCall |-> verdict[d]]' = [d \in ExecuteCall |-> verdict[d]]
      BY <1>1
    <2>7. Queue!Leave(k)
      BY <2>3, <2>4, <2>5, <2>6
      DEF Queue!Leave, Queue!RemoveAt, RemoveAt, Queue!Range, Range
    <2> QED
      BY <2>1, <2>7 DEF Queue!Next
  <1> QED
    BY <1>2, <1>3

\* The host goes: the queue closes.
LEMMA QueueCloses ==
    ASSUME ServiceInv, hostGoes
    PROVE  Queue!Close
  <1>1. /\ line' = <<>> /\ UNCHANGED verdict
        /\ \A d \in Conn : pc'[d] = "gone" <=> pc[d] # "done"
    BY DEF hostGoes
  <1>2. ExecuteCall \subseteq Conn
    BY DEF ExecuteCall
  <1>3. ASSUME NEW d \in Conn PROVE verdict[d] = <<>> <=> pc[d] # "done"
    <2>1. verdict[d] \in Seq(Told) /\ Len(verdict[d]) = IF pc[d] = "done" THEN 1 ELSE 0
      BY ServiceTypes DEF CallInv
    <2> QED
      BY <2>1, EmptySeq
  <1>4. {d \in ExecuteCall : pc[d] = "gone"}'
           = {d \in ExecuteCall : pc[d] = "gone"}
                \cup {d \in ExecuteCall : Queue!Unserved(d)}
    BY <1>1, <1>2, <1>3 DEF Queue!Unserved
  <1>5. [d \in ExecuteCall |-> verdict[d]]' = [d \in ExecuteCall |-> verdict[d]]
    BY <1>1
  <1> QED
    BY <1>1, <1>4, <1>5 DEF Queue!Close

\* With its last answer an execute is served; the queue does not see the others.
LEMMA QueueReceives ==
    ASSUME ServiceInv, NEW k \in Conn, received(k)
    PROVE  Queue!Next \/ UNCHANGED Queue!vars
  <1> DEFINE n == got[k] + 1
             response == down[k][n]
  <1>1. pc[k] = "calling" /\ n \in 1..Len(down[k])
    BY ServiceTypes DEF received
  <1>2. CASE UNCHANGED <<pc, line, verdict, hostEnd>>
    BY <1>2, QueueAside
  <1>3. CASE expected(k, n, response) /\ return(k, returned(k, response))
    <2>2. ASSUME Kind[k] = "execute" PROVE returned(k, response) \in ExecuteOutcomes(k)
      <3>1. returned(k, response) = response /\ response.type = "SignedPublicValues"
        BY <1>3, <2>2 DEF returned, expected
      <3> QED
        BY <1>1, <3>1, SignedAsked DEF ExecuteOutcomes
    <2> QED
      BY <1>1, <1>3, <2>2, CallingAtHead, QueueReturns
  <1>5. CASE pc' = [pc EXCEPT ![k] = "saving"] /\ UNCHANGED <<line, verdict>>
    <2>1. pc[k] # "gone"
      BY <1>1
    <2> QED
      BY <1>5, <2>1, QueueAside
  <1>4. CASE return(k, Failed)
    <2>1. Failed \in ExecuteOutcomes(k)
      BY DEF ExecuteOutcomes
    <2> QED
      BY <1>1, <1>4, <2>1, CallingAtHead, QueueReturns
  <1> QED
    BY <1>2, <1>3, <1>4, <1>5 DEF received

\* The queue has nothing to do with what is saved.
LEMMA QueueSaves ==
    ASSUME ServiceInv, NEW k \in Conn, save(k)
    PROVE  Queue!Next \/ UNCHANGED Queue!vars
  <1>1. pc[k] = "saving" /\ \E told : return(k, told)
    BY DEF save
  <1>2. Kind[k] # "execute"
    BY <1>1, ServiceTypes DEF CallInv
  <1> QED
    BY <1>1, <1>2, QueueReturns

\* A call fails while it calls, or while it connects.
LEMMA QueueFails ==
    ASSUME ServiceInv, NEW k \in Conn, return(k, Failed),
           pc[k] = "calling" \/ mayConnect(k)
    PROVE  Queue!Next \/ UNCHANGED Queue!vars
  <1>1. Failed \in ExecuteOutcomes(k)
    BY DEF ExecuteOutcomes
  <1>2. CASE pc[k] = "calling"
    BY <1>1, <1>2, CallingAtHead, QueueReturns
  <1>3. CASE pc[k] = "connecting"
    <2>1. Kind[k] # "execute"
      BY <1>3, ServiceTypes DEF CallInv
    <2> QED
      BY <1>3, <2>1, QueueReturns
  <1>4. CASE pc[k] = "waiting" /\ line # <<>> /\ Head(line) = k
    <2>1. line \in Seq(Conn) /\ 1 \in 1..Len(line)
      BY <1>4, ServiceTypes, EmptySeq
    <2>2. InLine(k) /\ line[1] = k
      BY <1>4, <2>1 DEF InLine
    <2> QED
      BY <1>1, <1>4, <2>2, QueueReturns
  <1> QED
    BY <1>2, <1>3, <1>4 DEF mayConnect

\* Every step of the service is one of the queue, or none.
LEMMA QueueStep ==
    ASSUME ServiceInv, ServiceNext
    PROVE  Queue!Next \/ UNCHANGED Queue!vars
  <1>1. ASSUME NEW k \in Conn, begin(k) PROVE UNCHANGED Queue!vars
    BY <1>1, QueueAside DEF begin, goto
  <1>2. ASSUME NEW k \in Conn, enterLine(k) \/ refuse(k) PROVE Queue!Next
    <2>1. k \in ExecuteCall
      BY <1>2, ServiceTypes DEF enterLine, refuse, CallInv, ExecuteCall
    <2> QED
      BY <1>2, <2>1, QueueEnters DEF Queue!Next
  <1>3. ASSUME NEW k \in Conn, connectEnclave(k)
        PROVE  Queue!Next \/ UNCHANGED Queue!vars
    <2>1. CASE hostConnect(k) /\ goto(k, "calling")
      <3>1. pc[k] # "gone"
        BY <1>3 DEF connectEnclave, mayConnect
      <3> QED
        BY <2>1, <3>1, QueueAside DEF goto
    <2>2. CASE return(k, Failed)
      BY <1>3, <2>2, QueueFails DEF connectEnclave
    <2> QED
      BY <1>3, <2>1, <2>2 DEF connectEnclave
  <1>4. ASSUME NEW k \in Conn, sendRequest(k) \/ sent(k) \/ receiveFailed(k)
        PROVE  Queue!Next \/ UNCHANGED Queue!vars
    <2>1. CASE UNCHANGED hostVars
      BY <2>1, QueueAside DEF hostVars
    <2>2. CASE return(k, Failed)
      BY <1>4, <2>2, QueueFails DEF sendRequest, sent, receiveFailed
    <2> QED
      BY <1>4, <2>1, <2>2 DEF sendRequest, sent, receiveFailed, hostVars
  <1>5. ASSUME NEW k \in Conn, closeSessionTask(k) \/ enclaveTask(k)
        PROVE  UNCHANGED Queue!vars
    BY <1>5, QueueAside DEF closeSessionTask, enclaveTask, hostVars
  <1>6. CASE enclaveCrash
    BY <1>6, QueueAside DEF enclaveCrash, hostVars
  <1>7. CASE hostGoes
    BY <1>7, QueueCloses DEF Queue!Next
  <1> QED
    BY <1>1, <1>2, <1>3, <1>4, <1>5, <1>6, <1>7, QueueReceives, QueueSaves,
       QueueLeft
    DEF ServiceNext, callStep

\* POST /execute, over a crashing enclave, clients that leave and frames they cut,
\* implements a queue that serves its callers one at a time, in order of arrival,
\* each with the outcome of its own program or an error.
THEOREM ServiceImplementsQueue == ServiceSpec => ImplementsQueue
  <1>1. ServiceInit => Queue!Init
    BY DEF ServiceInit, Queue!Init, ExecuteCall
  <1>2. ServiceInv /\ [ServiceNext]_serviceVars => [Queue!Next]_Queue!vars
    <2> SUFFICES ASSUME ServiceInv, [ServiceNext]_serviceVars
                 PROVE  Queue!Next \/ UNCHANGED Queue!vars
      OBVIOUS
    <2>1. CASE UNCHANGED serviceVars
      BY <2>1, QueueAside DEF serviceVars, hostVars
    <2> QED
      BY <2>1, QueueStep
  <1> QED
    BY <1>1, <1>2, ServiceInvariant, PTL DEF ServiceSpec, ImplementsQueue, Queue!Spec
=============================================================================

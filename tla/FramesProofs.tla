---------------------------- MODULE FramesProofs ----------------------------
(***************************************************************************)
(* For every set of programs and limits, messages of every length and any  *)
(* number of sends: what the handler reads is what was sent, wherever the  *)
(* last frame was cut, a length it allocates for is never garbage, and the *)
(* bytes implement the host's side of VsockStream.                         *)
(*                                                                         *)
(* None is inductive: a reader who is off by one byte reads anything.      *)
(* FramesInv lays out every byte of the wire - the frames sent, the first  *)
(* bytes of the one that was cut, the first of the CloseSession behind it  *)
(* - and says which of them the reader has read: it stands at the start of *)
(* a frame, or behind one that the two made together.                      *)
(***************************************************************************)
EXTENDS Frames, SequenceTheorems, WellFoundedInduction, TLAPS

\* The messages without fields that occur on this stream.

PlainType == {"GetPublicKey", "AttestSigningKey", "CloseSession"}

\* from_be_bytes of to_be_bytes.
LEMMA LengthRoundTrip == \A n \in Nat : fromBytes(toBytes(n)) = n
  BY DEF fromBytes, toBytes

\* The first bytes of a length, with zeroes in place of the others.
LEMMA CutLength ==
    ASSUME NEW n \in Nat, NEW k \in 1..3, NEW b, b = toBytes(n),
           NEW l \in Nat, l = fromBytes([i \in 1..4 |-> IF i <= k THEN b[i] ELSE 0])
    PROVE  l <= n /\ (l = 0 \/ l >= 256)
  BY DEF fromBytes, toBytes

\* A length that passed MessageTooLarge fits its four bytes.
LEMMA LengthBytes ==
    ASSUME NEW n \in Nat, n \div 65536 <= 65535
    PROVE  toBytes(n) \in Seq(Byte) /\ Len(toBytes(n)) = 4
  <1>1. /\ n \div 16777216 \in Byte /\ (n \div 65536) % 256 \in Byte
        /\ (n \div 256) % 256 \in Byte /\ n % 256 \in Byte
    BY DEF Byte
  <1> QED
    BY <1>1 DEF toBytes

\* A message without fields: its variant and nothing else.
LEMMA PlainMessages ==
    ASSUME NEW t \in PlainType
    PROVE  /\ serialize(Plain(t)) = <<Variant[t], 0, 0, 0>>
           /\ serialize(Plain(t)) \in Seq(Byte) /\ Len(serialize(Plain(t))) = 4
           /\ ~tooLarge(Plain(t))
  <1>1. Variant[t] \in {1, 3, 6}
    BY DEF PlainType, Variant
  <1>2. <<Variant[t], 0, 0, 0>> \in Seq(Byte)
    BY <1>1 DEF Byte
  <1>3. serialize(Plain(t)) = <<Variant[t], 0, 0, 0>> \o <<>>
    BY DEF serialize, Plain, PlainType
  <1>4. serialize(Plain(t)) = <<Variant[t], 0, 0, 0>>
    BY <1>2, <1>3, ConcatEmptySeq
  <1> QED
    BY <1>2, <1>4 DEF tooLarge

\* One sequence behind another.
LEMMA Joined ==
    ASSUME NEW S, NEW a \in Seq(S), NEW b \in Seq(S)
    PROVE  /\ a \o b \in Seq(S)
           /\ Len(a) \in Nat /\ Len(b) \in Nat /\ Len(a \o b) = Len(a) + Len(b)
           /\ \A i \in 1..Len(a) : (a \o b)[i] = a[i]
           /\ \A i \in 1..Len(b) : (a \o b)[Len(a) + i] = b[i]
  <1>1. Len(a) \in Nat /\ Len(b) \in Nat
    BY LenProperties
  <1>2. /\ a \o b \in Seq(S) /\ Len(a \o b) = Len(a) + Len(b)
        /\ \A i \in 1..Len(a) + Len(b) :
              (a \o b)[i] = IF i <= Len(a) THEN a[i] ELSE b[i - Len(a)]
    BY ConcatProperties
  <1>3. ASSUME NEW i \in 1..Len(a) PROVE (a \o b)[i] = a[i]
    <2>1. i \in 1..Len(a) + Len(b) /\ i <= Len(a)
      BY <1>1
    <2> QED
      BY <1>2, <2>1
  <1>4. ASSUME NEW i \in 1..Len(b) PROVE (a \o b)[Len(a) + i] = b[i]
    <2>1. /\ Len(a) + i \in 1..Len(a) + Len(b) /\ ~(Len(a) + i <= Len(a))
          /\ (Len(a) + i) - Len(a) = i
      BY <1>1
    <2> QED
      BY <1>2, <2>1
  <1> QED
    BY <1>1, <1>2, <1>3, <1>4

\* The same of bytes.
LEMMA BytesJoined ==
    \A a, b \in Seq(Byte) :
        /\ a \o b \in Seq(Byte)
        /\ Len(a) \in Nat /\ Len(b) \in Nat /\ Len(a \o b) = Len(a) + Len(b)
        /\ \A i \in 1..Len(a) : (a \o b)[i] = a[i]
        /\ \A i \in 1..Len(b) : (a \o b)[Len(a) + i] = b[i]
  BY Joined

\* An Execute, with whatever limit: its variant, the program and the limit.
LEMMA ExecuteMessages ==
    ASSUME NEW p \in Program, NEW l \in [1..8 -> Byte]
    PROVE  LET s == serialize(Execute(p, l)) IN
           /\ s \in Seq(Byte)
           /\ Len(p) \in Nat /\ Len(s) = Len(p) + 12
           /\ s[1] = 4 /\ s[2] = 0 /\ s[3] = 0 /\ s[4] = 0
           /\ \A i \in 1..Len(p) : s[4 + i] = p[i]
           /\ \A i \in 1..8 : s[4 + Len(p) + i] = l[i]
  <1> DEFINE s == serialize(Execute(p, l))
             v == <<4, 0, 0, 0>>
             t == p \o l
  <1>1. v \in Seq(Byte) /\ Len(v) = 4 /\ v[1] = 4 /\ v[2] = 0 /\ v[3] = 0 /\ v[4] = 0
    BY DEF Byte
  <1>2. p \in Seq(Byte) /\ l \in Seq(Byte) /\ Len(l) = 8
    <2>1. l \in Seq(Byte)
      BY SeqDef
    <2>2. DOMAIN l = 1..8 /\ Len(l) \in Nat /\ DOMAIN l = 1..Len(l)
      BY <2>1, LenProperties
    <2> QED
      BY <2>1, <2>2, FrameAssumption
  <1>3. /\ t \in Seq(Byte) /\ Len(p) \in Nat /\ Len(t) = Len(p) + 8
        /\ \A i \in 1..Len(p) : t[i] = p[i]
        /\ \A i \in 1..8 : t[Len(p) + i] = l[i]
    <2>1. /\ t \in Seq(Byte) /\ Len(p) \in Nat /\ Len(t) = Len(p) + Len(l)
          /\ \A i \in 1..Len(p) : t[i] = p[i]
          /\ \A i \in 1..Len(l) : t[Len(p) + i] = l[i]
      BY <1>2, BytesJoined, Zenon
    <2> QED
      BY <1>2, <2>1
  <1>4. s = v \o t
    BY DEF serialize, Execute, Variant
  <1> HIDE DEF s, v, t
  <1>5. /\ s \in Seq(Byte) /\ Len(s) = 4 + Len(t)
        /\ \A i \in 1..4 : s[i] = v[i]
        /\ \A i \in 1..Len(t) : s[4 + i] = t[i]
    <2>1. /\ s \in Seq(Byte) /\ Len(s) = Len(v) + Len(t)
          /\ \A i \in 1..Len(v) : s[i] = v[i]
          /\ \A i \in 1..Len(t) : s[Len(v) + i] = t[i]
      BY <1>1, <1>3, <1>4, BytesJoined, Zenon
    <2> QED
      BY <1>1, <2>1
  <1>6. s[1] = 4 /\ s[2] = 0 /\ s[3] = 0 /\ s[4] = 0
    BY <1>1, <1>5
  <1>7. ASSUME NEW i \in 1..Len(p) PROVE s[4 + i] = p[i]
    <2>1. t[i] = p[i]
      BY <1>3
    <2>2. i \in 1..Len(t)
      <3>1. Len(p) \in Nat /\ Len(t) = Len(p) + 8
        BY <1>3
      <3> QED
        BY <3>1
    <2> QED
      BY <1>5, <2>1, <2>2
  <1>8. ASSUME NEW i \in 1..8 PROVE s[4 + Len(p) + i] = l[i]
    <2>n. PICK n : n = Len(p)
      OBVIOUS
    <2>1. n \in Nat /\ Len(t) = n + 8 /\ t[n + i] = l[i]
      BY <1>3, <2>n
    <2>2. n + i \in 1..(n + 8) /\ 4 + (n + i) = 4 + n + i
      BY <2>1
    <2>3. s[4 + (n + i)] = t[n + i]
      BY <1>5, <2>1, <2>2
    <2> QED
      BY <2>1, <2>2, <2>3, <2>n
  <1> QED
    BY <1>3, <1>5, <1>6, <1>7, <1>8 DEF s

\* The n bytes behind the first a.
LEMMA Slice ==
    ASSUME NEW s \in Seq(Byte), NEW a \in Nat, NEW n \in Nat, a + n <= Len(s)
    PROVE  /\ SubSeq(s, a + 1, a + n) \in Seq(Byte)
           /\ Len(SubSeq(s, a + 1, a + n)) = n
           /\ \A i \in 1..n : SubSeq(s, a + 1, a + n)[i] = s[a + i]
  <1> DEFINE b == a + 1
             e == a + n
             u == SubSeq(s, b, e)
  <1>1. \A i \in b..e : s[i] \in Byte
    BY LenProperties, ElementOfSeq
  <1>2. b \in Int /\ e \in Int
    OBVIOUS
  <1> HIDE DEF b, e
  <1>3. /\ u \in Seq(Byte)
        /\ Len(u) = IF b <= e THEN e - b + 1 ELSE 0
        /\ \A i \in 1..(e - b + 1) : u[i] = s[b + i - 1]
    BY <1>1, <1>2, SubSeqProperties, Z3
  <1> HIDE DEF u
  <1>4. Len(u) = n
    BY <1>3 DEF b, e
  <1>5. ASSUME NEW i \in 1..n PROVE u[i] = s[a + i]
    <2>1. b + i - 1 = a + i /\ i \in 1..(e - b + 1)
      BY DEF b, e
    <2> QED
      BY <1>3, <2>1
  <1> QED
    BY <1>3, <1>4, <1>5 DEF u, b, e

\* They are those of t.
LEMMA Part ==
    ASSUME NEW s \in Seq(Byte), NEW t \in Seq(Byte), NEW a \in Nat,
           a + Len(t) <= Len(s), \A i \in 1..Len(t) : s[a + i] = t[i]
    PROVE  SubSeq(s, a + 1, a + Len(t)) = t
  <1> DEFINE u == SubSeq(s, a + 1, a + Len(t))
  <1>1. Len(t) \in Nat
    BY LenProperties
  <1>2. u \in Seq(Byte) /\ Len(u) = Len(t) /\ \A i \in 1..Len(t) : u[i] = s[a + i]
    BY <1>1, Slice
  <1> HIDE DEF u
  <1>3. u = t
    BY <1>2, SeqEqual
  <1> QED
    BY <1>3 DEF u

\* The bodies that deserialize tries as messages without fields.
LEMMA PlainBodies ==
    {Plain(t) : t \in DOMAIN Variant \ {"Execute"}} = {Plain(t) : t \in PlainType}
  <1>1. DOMAIN Variant \ {"Execute"} = PlainType
    BY DEF Variant, PlainType
  <1> QED
    BY <1>1

\* One sequence of bytes begins another.
LEMMA Begins ==
    ASSUME NEW a \in Seq(Byte), NEW b \in Seq(Byte)
    PROVE  IsPrefix(a, b) <=> Len(a) <= Len(b) /\ \A i \in 1..Len(a) : a[i] = b[i]
  <1>n. PICK n : n = Len(a)
    OBVIOUS
  <1>1. n \in Nat /\ Len(b) \in Nat
    BY <1>n, LenProperties
  <1>2. CASE n <= Len(b)
    <2>u. PICK u : u = SubSeq(a, 0 + 1, 0 + n)
      OBVIOUS
    <2>v. PICK v : v = SubSeq(b, 0 + 1, 0 + n)
      OBVIOUS
    <2>1. u \in Seq(Byte) /\ Len(u) = n /\ \A i \in 1..n : u[i] = a[0 + i]
      BY <1>n, <1>1, <2>u, Slice
    <2>2. v \in Seq(Byte) /\ Len(v) = n /\ \A i \in 1..n : v[i] = b[0 + i]
      BY <1>1, <1>2, <2>v, Slice
    <2>3. \A i \in 1..n : u[i] = a[i] /\ v[i] = b[i]
      BY <2>1, <2>2
    <2>4. IsPrefix(a, b) <=> u = v
      <3>1. 0 + 1 = 1 /\ 0 + n = n
        BY <1>1
      <3> QED
        BY <1>n, <1>2, <2>u, <2>v, <3>1 DEF IsPrefix
    <2>5. u = v <=> \A i \in 1..n : u[i] = v[i]
      BY <2>1, <2>2, SeqEqual
    <2>6. (\A i \in 1..n : u[i] = v[i]) <=> (\A i \in 1..n : a[i] = b[i])
      BY <2>3
    <2> QED
      BY <1>n, <1>2, <2>4, <2>5, <2>6
  <1>3. CASE ~(n <= Len(b))
    BY <1>n, <1>3 DEF IsPrefix
  <1> QED
    BY <1>2, <1>3

\* A body that begins with a message without fields.
LEMMA BeginsPlain ==
    ASSUME NEW t \in PlainType, NEW body \in Seq(Byte)
    PROVE  IsPrefix(serialize(Plain(t)), body) <=>
              /\ Len(body) >= 4 /\ body[1] = Variant[t]
              /\ body[2] = 0 /\ body[3] = 0 /\ body[4] = 0
  <1>a. PICK a : a = <<Variant[t], 0, 0, 0>>
    OBVIOUS
  <1>1. serialize(Plain(t)) = a /\ a \in Seq(Byte) /\ Len(a) = 4
    BY <1>a, PlainMessages
  <1>2. a[1] = Variant[t] /\ a[2] = 0 /\ a[3] = 0 /\ a[4] = 0
    BY <1>a
  <1>3. IsPrefix(a, body) <=> Len(a) <= Len(body) /\ \A i \in 1..Len(a) : a[i] = body[i]
    BY <1>1, Begins
  <1>4. Len(body) \in Nat /\ 1..4 = {1, 2, 3, 4}
    BY LenProperties
  <1> QED
    BY <1>1, <1>2, <1>3, <1>4

\* A body that begins with an Execute.
LEMMA BeginsExecute ==
    ASSUME NEW p \in Program, NEW body \in Seq(Byte)
    PROVE  holdsExecute(body, p) <=>
              /\ Len(body) >= Len(p) + 12
              /\ body[1] = 4 /\ body[2] = 0 /\ body[3] = 0 /\ body[4] = 0
              /\ \A i \in 1..Len(p) : body[4 + i] = p[i]
  <1>v. PICK v : v = <<4, 0, 0, 0>>
    OBVIOUS
  <1>a. PICK a : a = v \o p
    OBVIOUS
  <1>1. v \in Seq(Byte) /\ Len(v) = 4 /\ v[1] = 4 /\ v[2] = 0 /\ v[3] = 0 /\ v[4] = 0
    BY <1>v DEF Byte
  <1>2. p \in Seq(Byte) /\ Len(p) \in Nat /\ Len(body) \in Nat
    BY FrameAssumption, LenProperties
  <1>3. /\ a \in Seq(Byte) /\ Len(a) = 4 + Len(p)
        /\ \A i \in 1..4 : a[i] = v[i]
        /\ \A i \in 1..Len(p) : a[4 + i] = p[i]
    <2>1. /\ a \in Seq(Byte) /\ Len(a) = Len(v) + Len(p)
          /\ \A i \in 1..Len(v) : a[i] = v[i]
          /\ \A i \in 1..Len(p) : a[Len(v) + i] = p[i]
      BY <1>a, <1>1, <1>2, BytesJoined, Zenon
    <2> QED
      BY <1>1, <2>1
  <1>4. holdsExecute(body, p) <=> Len(body) >= Len(p) + 12 /\ IsPrefix(a, body)
    BY <1>v, <1>a DEF holdsExecute, Variant
  <1>5. IsPrefix(a, body) <=>
           Len(a) <= Len(body) /\ \A i \in 1..Len(a) : a[i] = body[i]
    BY <1>3, Begins
  <1>6. (\A i \in 1..Len(a) : a[i] = body[i]) <=>
           /\ body[1] = 4 /\ body[2] = 0 /\ body[3] = 0 /\ body[4] = 0
           /\ \A i \in 1..Len(p) : body[4 + i] = p[i]
    <2>1. ASSUME \A i \in 1..Len(a) : a[i] = body[i]
          PROVE  /\ body[1] = 4 /\ body[2] = 0 /\ body[3] = 0 /\ body[4] = 0
                 /\ \A i \in 1..Len(p) : body[4 + i] = p[i]
      <3>1. \A i \in 1..4 : i \in 1..Len(a)
        BY <1>2, <1>3
      <3>2. \A i \in 1..Len(p) : 4 + i \in 1..Len(a)
        BY <1>2, <1>3
      <3> QED
        BY <1>1, <1>3, <2>1, <3>1, <3>2
    <2>2. ASSUME body[1] = 4, body[2] = 0, body[3] = 0, body[4] = 0,
                 \A i \in 1..Len(p) : body[4 + i] = p[i],
                 NEW i \in 1..Len(a)
          PROVE  a[i] = body[i]
      <3>1. CASE i <= 4
        <4>1. i \in {1, 2, 3, 4} /\ i \in 1..4
          BY <1>2, <1>3, <3>1
        <4> QED
          BY <1>1, <1>3, <2>2, <4>1
      <3>2. CASE ~(i <= 4)
        <4>1. i - 4 \in 1..Len(p) /\ i = 4 + (i - 4)
          BY <1>2, <1>3, <3>2
        <4> QED
          BY <1>3, <2>2, <4>1
      <3> QED
        BY <3>1, <3>2
    <2> QED
      BY <2>1, <2>2
  <1> QED
    BY <1>2, <1>3, <1>4, <1>5, <1>6

\* deserialize undoes serialize, of a message without fields ...
LEMMA DeserializePlain ==
    ASSUME NEW t \in PlainType
    PROVE  deserialize(serialize(Plain(t))) = Plain(t)
  <1> DEFINE plain == {Plain(u) : u \in PlainType}
  <1>b. PICK body : body = serialize(Plain(t))
    OBVIOUS
  <1>0. /\ body \in Seq(Byte) /\ Len(body) = 4 /\ body[1] = Variant[t]
        /\ body[2] = 0 /\ body[3] = 0 /\ body[4] = 0
    <2>1. body = <<Variant[t], 0, 0, 0>> /\ body \in Seq(Byte) /\ Len(body) = 4
      BY <1>b, PlainMessages
    <2> QED
      BY <2>1
  <1>1. ASSUME NEW m \in plain, IsPrefix(serialize(m), body) PROVE m = Plain(t)
    <2>1. PICK u \in PlainType : m = Plain(u)
      OBVIOUS
    <2>2. Variant[u] = Variant[t]
      BY <1>0, <1>1, <2>1, BeginsPlain
    <2>3. u = t
      BY <2>2 DEF Variant, PlainType
    <2> QED
      BY <2>1, <2>3
  <1>2. Plain(t) \in plain /\ IsPrefix(serialize(Plain(t)), body)
    BY <1>0, BeginsPlain
  <1>3. (CHOOSE m \in plain : IsPrefix(serialize(m), body)) = Plain(t)
    BY <1>1, <1>2
  <1>4. ~ \E p \in Program : holdsExecute(body, p)
    <2> SUFFICES ASSUME NEW p \in Program, holdsExecute(body, p) PROVE FALSE
      OBVIOUS
    <2>1. body[1] = 4
      BY <1>0, BeginsExecute
    <2>2. Variant[t] # 4
      BY DEF Variant, PlainType
    <2> QED
      BY <1>0, <2>1, <2>2
  <1>5. deserialize(body) = Plain(t)
    BY <1>2, <1>3, <1>4, PlainBodies DEF deserialize
  <1> QED
    BY <1>b, <1>5

\* No message is shorter than an Execute without a program, except by its variant.
LEMMA Garbled ==
    ASSUME NEW body \in Seq(Byte), Len(body) < 12,
           Len(body) >= 4 => body[1] \notin {1, 3, 6}
    PROVE  deserialize(body) = Malformed
  <1>1. ASSUME NEW t \in PlainType, IsPrefix(serialize(Plain(t)), body) PROVE FALSE
    <2>1. Len(body) >= 4 /\ body[1] = Variant[t]
      BY <1>1, BeginsPlain
    <2>2. Variant[t] \in {1, 3, 6}
      BY DEF Variant, PlainType
    <2> QED
      BY <2>1, <2>2
  <1>2. ~ \E m \in {Plain(t) : t \in DOMAIN Variant \ {"Execute"}} :
             IsPrefix(serialize(m), body)
    BY <1>1, PlainBodies
  <1>3. ~ \E p \in Program : holdsExecute(body, p)
    <2> SUFFICES ASSUME NEW p \in Program, holdsExecute(body, p) PROVE FALSE
      OBVIOUS
    <2>1. Len(body) >= Len(p) + 12
      BY BeginsExecute
    <2>2. Len(p) \in Nat /\ Len(body) \in Nat
      BY FrameAssumption, LenProperties
    <2> QED
      BY <2>1, <2>2
  <1> QED
    BY <1>2, <1>3 DEF deserialize

\* The program at the beginning of a body is told from all others.
LEMMA OneProgram ==
    ASSUME NEW body \in Seq(Byte), NEW p \in Program, NEW q \in Program,
           holdsExecute(body, p), holdsExecute(body, q)
    PROVE  p = q
  <1>1. p \in Seq(Byte) /\ q \in Seq(Byte) /\ Len(p) \in Nat /\ Len(q) \in Nat
    BY FrameAssumption, LenProperties
  <1>2. /\ \A i \in 1..Len(p) : body[4 + i] = p[i]
        /\ \A i \in 1..Len(q) : body[4 + i] = q[i]
    BY BeginsExecute
  <1>3. CASE Len(p) <= Len(q)
    <2>1. \A i \in 1..Len(p) : i \in 1..Len(q)
      BY <1>1, <1>3
    <2>2. \A i \in 1..Len(p) : p[i] = q[i]
      BY <1>2, <2>1
    <2>3. IsPrefix(p, q)
      BY <1>1, <1>3, <2>2, Begins
    <2> QED
      BY <2>3, FrameAssumption
  <1>4. CASE Len(q) <= Len(p)
    <2>1. \A i \in 1..Len(q) : i \in 1..Len(p)
      BY <1>1, <1>4
    <2>2. \A i \in 1..Len(q) : q[i] = p[i]
      BY <1>2, <2>1
    <2>3. IsPrefix(q, p)
      BY <1>1, <1>4, <2>2, Begins
    <2> QED
      BY <2>3, FrameAssumption
  <1> QED
    BY <1>1, <1>3, <1>4

\* ... and of an Execute, whatever its limit.
LEMMA DeserializeExecute ==
    ASSUME NEW p \in Program, NEW l \in [1..8 -> Byte]
    PROVE  deserialize(serialize(Execute(p, l))) = Execute(p, l)
  <1>b. PICK body : body = serialize(Execute(p, l))
    OBVIOUS
  <1>1. /\ body \in Seq(Byte)
        /\ Len(p) \in Nat /\ Len(body) = Len(p) + 12
        /\ body[1] = 4 /\ body[2] = 0 /\ body[3] = 0 /\ body[4] = 0
        /\ \A i \in 1..Len(p) : body[4 + i] = p[i]
        /\ \A i \in 1..8 : body[4 + Len(p) + i] = l[i]
    BY <1>b, ExecuteMessages
  <1>2. ASSUME NEW t \in PlainType PROVE ~IsPrefix(serialize(Plain(t)), body)
    <2>1. Variant[t] # 4
      BY DEF Variant, PlainType
    <2> QED
      BY <1>1, <2>1, BeginsPlain
  <1>3. l \in Seq(Byte) /\ Len(l) = 8
    <2>1. l \in Seq(Byte)
      BY SeqDef
    <2>2. DOMAIN l = 1..8 /\ Len(l) \in Nat /\ DOMAIN l = 1..Len(l)
      BY <2>1, LenProperties
    <2> QED
      BY <2>1, <2>2
  <1>4. holdsExecute(body, p)
    BY <1>1, BeginsExecute
  <1>5. (CHOOSE q \in Program : holdsExecute(body, q)) = p
    BY <1>1, <1>4, OneProgram
  <1>6. SubSeq(body, Len(p) + 5, Len(p) + 12) = l
    <2>a. PICK a : a = 4 + Len(p)
      OBVIOUS
    <2>1. /\ a \in Nat /\ a + 1 = Len(p) + 5 /\ a + Len(l) = Len(p) + 12
          /\ a + Len(l) <= Len(body)
          /\ \A i \in 1..Len(l) : body[a + i] = l[i]
      BY <1>1, <1>3, <2>a
    <2>2. SubSeq(body, a + 1, a + Len(l)) = l
      BY <1>1, <1>3, <2>1, Part
    <2> QED
      BY <2>1, <2>2
  <1>7. ~ \E m \in {Plain(t) : t \in DOMAIN Variant \ {"Execute"}} :
             IsPrefix(serialize(m), body)
    BY <1>2, PlainBodies
  <1>8. deserialize(body) = Execute(p, l)
    BY <1>4, <1>5, <1>6, <1>7 DEF deserialize
  <1> QED
    BY <1>b, <1>8

-----------------------------------------------------------------------------
\* A frame that is cut and the frame of a CloseSession behind it.

\* A CloseSession on the wire.
CloseBytes == <<0, 0, 0, 4, 6, 0, 0, 0>>

\* The frame that the task of Drop writes.
LEMMA CloseFrame == frame(CloseSession) = CloseBytes
  <1> DEFINE a == toBytes(4)
             b == <<6, 0, 0, 0>>
  <1>1. serialize(CloseSession) = b /\ Len(serialize(CloseSession)) = 4
    BY PlainMessages DEF CloseSession, PlainType, Variant
  <1>2. a = <<0, 0, 0, 4>>
    BY DEF toBytes
  <1>3. /\ a \in Seq(Byte) /\ Len(a) = 4 /\ b \in Seq(Byte) /\ Len(b) = 4
        /\ CloseBytes \in Seq(Byte) /\ Len(CloseBytes) = 8
    <2>1. 0 \in Byte /\ 4 \in Byte /\ 6 \in Byte
      BY DEF Byte
    <2>2. a \in Seq(Byte) /\ Len(a) = 4
      <3>1. <<0, 0, 0, 4>> \in Seq(Byte) /\ Len(<<0, 0, 0, 4>>) = 4
        BY <2>1
      <3> QED
        BY <1>2, <3>1, Zenon
    <2>3. b \in Seq(Byte) /\ Len(b) = 4
      BY <2>1
    <2>4. CloseBytes \in Seq(Byte) /\ Len(CloseBytes) = 8
      BY <2>1 DEF CloseBytes
    <2> QED
      BY <2>2, <2>3, <2>4
  <1>4. /\ \A i \in 1..4 : CloseBytes[i] = a[i]
        /\ \A i \in 1..4 : CloseBytes[4 + i] = b[i]
    BY <1>2 DEF CloseBytes
  <1>5. frame(CloseSession) = a \o b
    BY <1>1 DEF frame
  <1> HIDE DEF a, b
  <1>6. /\ a \o b \in Seq(Byte) /\ Len(a \o b) = Len(a) + Len(b)
        /\ \A i \in 1..Len(a) : (a \o b)[i] = a[i]
        /\ \A i \in 1..Len(b) : (a \o b)[Len(a) + i] = b[i]
    BY <1>3, BytesJoined, Zenon
  <1>7. ASSUME NEW i \in 1..8 PROVE (a \o b)[i] = CloseBytes[i]
    <2>1. CASE i <= 4
      BY <1>3, <1>4, <1>6, <2>1
    <2>2. CASE ~(i <= 4)
      <3>1. i - 4 \in 1..4 /\ i = 4 + (i - 4)
        BY <2>2
      <3> QED
        BY <1>3, <1>4, <1>6, <3>1
    <2> QED
      BY <2>1, <2>2
  <1>8. a \o b = CloseBytes
    BY <1>3, <1>6, <1>7, SeqEqual
  <1> QED
    BY <1>5, <1>8

\* A limit whose last c bytes are those of a CloseSession is eight bytes.
LEMMA OverwrittenBytes ==
    ASSUME NEW l \in [1..8 -> Byte], NEW c \in 1..8
    PROVE  /\ overwritten(l, c) \in [1..8 -> Byte]
           /\ \A i \in 1..8 : overwritten(l, c)[i] =
                 IF i <= 8 - c THEN l[i] ELSE CloseBytes[i - (8 - c)]
  <1>1. \A i \in 1..8 : CloseBytes[i] \in Byte
    BY DEF CloseBytes, Byte
  <1>2. ASSUME NEW i \in 1..8, ~(i <= 8 - c) PROVE i - (8 - c) \in 1..8
    BY <1>2
  <1>3. overwritten(l, c) = [i \in 1..8 |-> IF i <= 8 - c THEN l[i]
                                           ELSE CloseBytes[i - (8 - c)]]
    BY CloseFrame DEF overwritten
  <1> QED
    BY <1>1, <1>2, <1>3

\* A limit of u32::MAX or less: nothing in the bytes above.
Small(l) == \A i \in 5..8 : l[i] = 0

\* The 4 or the 6 of a CloseSession makes any limit larger than u32::MAX, and the
\* zeroes before them leave a limit of u32::MAX or less as it is
\* (communication.rs: send, cut, and recv).  Of two limits of u32::MAX or less one
\* is never read as the other: the bytes bear out EnclaveServer!LimitAssumption.
THEOREM SmallLimitsKept ==
    ASSUME NEW l \in [1..8 -> Byte], NEW c \in 1..8, Small(l), Small(overwritten(l, c))
    PROVE  overwritten(l, c) = l
  <1>k. PICK k : k = overwritten(l, c)
    OBVIOUS
  <1>1. /\ k \in [1..8 -> Byte]
        /\ \A i \in 1..8 : k[i] = IF i <= 8 - c THEN l[i] ELSE CloseBytes[i - (8 - c)]
    BY <1>k, OverwrittenBytes
  <1>2. c < 4
    <2>1. ASSUME c = 4 \/ c = 5 \/ c = 6 \/ c = 7 \/ c = 8 PROVE FALSE
      <3>1. CASE c = 4
        <4>1. k[8] = 4
          BY <1>1, <3>1 DEF CloseBytes
        <4> QED
          BY <1>k, <4>1 DEF Small
      <3>2. CASE c = 5
        <4>1. k[7] = 4
          BY <1>1, <3>2 DEF CloseBytes
        <4> QED
          BY <1>k, <4>1 DEF Small
      <3>3. CASE c = 6
        <4>1. k[6] = 4
          BY <1>1, <3>3 DEF CloseBytes
        <4> QED
          BY <1>k, <4>1 DEF Small
      <3>4. CASE c = 7
        <4>1. k[5] = 4
          BY <1>1, <3>4 DEF CloseBytes
        <4> QED
          BY <1>k, <4>1 DEF Small
      <3>5. CASE c = 8
        <4>1. k[5] = 6
          BY <1>1, <3>5 DEF CloseBytes
        <4> QED
          BY <1>k, <4>1 DEF Small
      <3> QED
        BY <2>1, <3>1, <3>2, <3>3, <3>4, <3>5
    <2> QED
      BY <2>1
  <1>3. ASSUME NEW i \in 1..8 PROVE k[i] = l[i]
    <2>1. CASE i <= 8 - c
      BY <1>1, <2>1
    <2>2. CASE i > 8 - c
      <3>1. i \in 5..8
        BY <1>2, <2>2
      <3> QED
        BY <1>k, <3>1 DEF Small
    <2> QED
      BY <2>1, <2>2
  <1> QED
    BY <1>k, <1>1, <1>3

\* What the host sends, by its fields.
LEMMA MessageKinds ==
    ASSUME NEW m \in Message
    PROVE  \/ \E t \in PlainType \ {"CloseSession"} : m = Plain(t)
           \/ \E p \in Program, l \in Limit : m = Execute(p, l)
  BY DEF Message, PlainType

\* bincode's round trip, of every message on this stream.
LEMMA Serialized ==
    ASSUME NEW m \in Message \cup {CloseSession}
    PROVE  /\ serialize(m) \in Seq(Byte)
           /\ Len(serialize(m)) \in Nat /\ Len(serialize(m)) >= 4
           /\ deserialize(serialize(m)) = m
  <1>1. CASE \E t \in PlainType : m = Plain(t)
    <2>1. PICK t \in PlainType : m = Plain(t)
      BY <1>1
    <2>2. serialize(Plain(t)) \in Seq(Byte) /\ Len(serialize(Plain(t))) = 4
      BY PlainMessages
    <2>3. serialize(m) \in Seq(Byte) /\ Len(serialize(m)) = 4
      BY <2>1, <2>2, Zenon
    <2>4. deserialize(serialize(m)) = m
      BY <2>1, DeserializePlain, Zenon
    <2> QED
      BY <2>3, <2>4
  <1>2. CASE \E p \in Program, l \in Limit : m = Execute(p, l)
    <2>1. PICK p \in Program, l \in Limit : m = Execute(p, l)
      BY <1>2
    <2>2. l \in [1..8 -> Byte]
      BY FrameAssumption
    <2>3. /\ serialize(m) \in Seq(Byte) /\ Len(p) \in Nat
          /\ Len(serialize(m)) = Len(p) + 12
      BY <2>1, <2>2, ExecuteMessages
    <2>4. deserialize(serialize(m)) = m
      BY <2>1, <2>2, DeserializeExecute
    <2> QED
      BY <2>3, <2>4
  <1>3. CloseSession = Plain("CloseSession") /\ "CloseSession" \in PlainType
    BY DEF CloseSession, PlainType
  <1> QED
    BY <1>1, <1>2, <1>3, MessageKinds

\* What the host sends ends no loop and unwraps no error.
LEMMA NotClosing ==
    ASSUME NEW m \in Message
    PROVE  m # CloseSession /\ m # Malformed
  BY DEF Message, Plain, Execute, CloseSession, Malformed

\* The message x is one that VsockStream has in place of m when m is cut.
Mixture(m, x) == <<x>> \in Stream!Cut(m)

\* The body of m with its last c bytes from the frame of a CloseSession.
LEMMA MixedBody ==
    ASSUME NEW m \in Message, NEW c \in 1..8, c <= Len(serialize(m)),
           NEW body \in Seq(Byte), Len(body) = Len(serialize(m)),
           \A i \in 1..(Len(body) - c) : body[i] = serialize(m)[i],
           \A i \in 1..c : body[Len(body) - c + i] = CloseBytes[i]
    PROVE  \/ deserialize(body) = Malformed
           \/ /\ deserialize(body) # CloseSession
              /\ Mixture(m, deserialize(body))
  <1> DEFINE s == serialize(m)
  <1>1. CASE \E t \in PlainType \ {"CloseSession"} : m = Plain(t)
    <2>1. PICK t \in PlainType \ {"CloseSession"} : m = Plain(t)
      BY <1>1
    <2>2. /\ s = <<Variant[t], 0, 0, 0>> /\ s \in Seq(Byte) /\ Len(s) = 4
          /\ deserialize(s) = m
      BY <2>1, PlainMessages, DeserializePlain
    <2>3. Len(body) = 4
      BY <2>2
    <2>4. CASE c = 4
      <3>1. body[1] = 0
        <4>1. 1 \in 1..c /\ Len(body) - c + 1 = 1
          BY <2>3, <2>4
        <4>2. body[1] = CloseBytes[1]
          BY <4>1
        <4> QED
          BY <4>2 DEF CloseBytes
      <3>2. Len(body) < 12 /\ body[1] \notin {1, 3, 6}
        BY <2>3, <3>1
      <3>3. deserialize(body) = Malformed
        BY <3>2, Garbled, Zenon
      <3> QED
        BY <3>3, Zenon
    <2>5. CASE c # 4
      <3>1. c \in 1..3
        BY <2>2, <2>5
      <3>2. ASSUME NEW i \in 1..4 PROVE body[i] = s[i]
        <4>1. CASE i <= 4 - c
          BY <2>3, <3>1, <4>1
        <4>2. CASE ~(i <= 4 - c)
          <5>1. i - (4 - c) \in 1..c /\ i = 4 - c + (i - (4 - c)) /\ i \in {2, 3, 4}
            BY <3>1, <4>2
          <5>2. body[i] = CloseBytes[i - (4 - c)] /\ i - (4 - c) \in 1..3
            BY <2>3, <3>1, <5>1
          <5>3. body[i] = 0
            BY <5>2 DEF CloseBytes
          <5>4. s[i] = 0
            BY <2>2, <5>1
          <5> QED
            BY <5>3, <5>4
        <4> QED
          BY <4>1, <4>2
      <3>3. body = s
        BY <2>2, <2>3, <3>2, SeqEqual
      <3>4. deserialize(body) = m /\ m # CloseSession
        BY <2>2, <3>3, NotClosing
      <3>5. m.type # "Execute"
        BY <2>1 DEF Plain, PlainType
      <3> QED
        BY <3>4, <3>5 DEF Mixture, Stream!Cut, Stream!completed
    <2> QED
      BY <2>4, <2>5
  <1>2. CASE \E p \in Program, l \in Limit : m = Execute(p, l)
    <2>1. PICK p \in Program, l \in Limit : m = Execute(p, l)
      BY <1>2
    <2> DEFINE k == overwritten(l, c)
               z == serialize(Execute(p, k))
    <2>2. l \in [1..8 -> Byte] /\ k \in [1..8 -> Byte]
      BY FrameAssumption, OverwrittenBytes
    <2>3. /\ s \in Seq(Byte) /\ Len(p) \in Nat /\ Len(s) = Len(p) + 12
          /\ s[1] = 4 /\ s[2] = 0 /\ s[3] = 0 /\ s[4] = 0
          /\ \A i \in 1..Len(p) : s[4 + i] = p[i]
          /\ \A i \in 1..8 : s[4 + Len(p) + i] = l[i]
      BY <2>1, <2>2, ExecuteMessages
    <2>4. /\ z \in Seq(Byte) /\ Len(z) = Len(p) + 12
          /\ z[1] = 4 /\ z[2] = 0 /\ z[3] = 0 /\ z[4] = 0
          /\ \A i \in 1..Len(p) : z[4 + i] = p[i]
          /\ \A i \in 1..8 : z[4 + Len(p) + i] = k[i]
      <3>1. k \in [1..8 -> Byte] /\ p \in Program
        BY <2>2
      <3> HIDE DEF k, s
      <3>2. /\ z \in Seq(Byte) /\ Len(z) = Len(p) + 12
            /\ z[1] = 4 /\ z[2] = 0 /\ z[3] = 0 /\ z[4] = 0
        BY <3>1, ExecuteMessages
      <3>3. ASSUME NEW i \in 1..Len(p) PROVE z[4 + i] = p[i]
        BY <3>1, ExecuteMessages
      <3>4. ASSUME NEW i \in 1..8 PROVE z[4 + Len(p) + i] = k[i]
        BY <3>1, ExecuteMessages
      <3> QED
        BY <3>2, <3>3, <3>4, Zenon
    <2>5. /\ Len(body) = Len(p) + 12
          /\ \A i \in 1..(Len(body) - c) : body[i] = s[i]
          /\ \A i \in 1..c : body[Len(body) - c + i] = CloseBytes[i]
      BY <2>3
    <2>6. deserialize(z) = Execute(p, k)
      BY <2>2, DeserializeExecute
    <2>7. \A i \in 1..8 : k[i] = IF i <= 8 - c THEN l[i] ELSE CloseBytes[i - (8 - c)]
      BY <2>2, OverwrittenBytes
    <2> HIDE DEF s, z, k
    <2>8. ASSUME NEW i \in 1..Len(body) PROVE body[i] = z[i]
      <3>0. Len(p) \in Nat /\ Len(body) = Len(p) + 12 /\ i \in 1..(Len(p) + 12)
        BY <2>3, <2>5
      <3>1. CASE i <= 4
        <4>1. i \in 1..(Len(body) - c) /\ i \in {1, 2, 3, 4}
          BY <3>0, <3>1
        <4>2. body[i] = s[i]
          BY <2>5, <4>1
        <4>3. s[i] = z[i]
          BY <2>3, <2>4, <4>1
        <4> QED
          BY <4>2, <4>3
      <3>2. CASE i > 4 /\ i <= 4 + Len(p)
        <4>1. i - 4 \in 1..Len(p) /\ i = 4 + (i - 4) /\ i \in 1..(Len(body) - c)
          BY <3>0, <3>2
        <4>2. body[i] = s[i]
          BY <2>5, <4>1
        <4>3. s[4 + (i - 4)] = z[4 + (i - 4)]
          <5>1. s[4 + (i - 4)] = p[i - 4]
            BY <2>3, <4>1
          <5>2. z[4 + (i - 4)] = p[i - 4]
            BY <2>4, <4>1
          <5> QED
            BY <5>1, <5>2
        <4> QED
          BY <4>1, <4>2, <4>3
      <3>3. CASE i > 4 + Len(p)
        <4> DEFINE j == i - 4 - Len(p)
        <4>1. j \in 1..8 /\ i = 4 + Len(p) + j
          BY <3>0, <3>3
        <4> HIDE DEF j
        <4>2. z[i] = k[j]
          BY <2>4, <4>1
        <4>3. CASE j <= 8 - c
          <5>1. i \in 1..(Len(body) - c)
            BY <3>0, <4>1, <4>3
          <5>2. body[i] = s[i]
            BY <2>5, <5>1
          <5>3. s[i] = l[j]
            BY <2>3, <4>1
          <5>4. k[j] = l[j]
            BY <2>7, <4>1, <4>3
          <5> QED
            BY <4>2, <5>2, <5>3, <5>4
        <4>4. CASE ~(j <= 8 - c)
          <5>1. j - (8 - c) \in 1..c /\ i = Len(body) - c + (j - (8 - c))
            BY <3>0, <4>1, <4>4
          <5>2. body[Len(body) - c + (j - (8 - c))] = CloseBytes[j - (8 - c)]
            BY <2>5, <5>1
          <5>3. k[j] = CloseBytes[j - (8 - c)]
            BY <2>7, <4>1, <4>4
          <5> QED
            BY <4>2, <5>1, <5>2, <5>3
        <4> QED
          BY <4>3, <4>4
      <3> QED
        BY <3>0, <3>1, <3>2, <3>3
    <2>9. body = z
      BY <2>4, <2>5, <2>8, SeqEqual
    <2>10. deserialize(body) = Execute(p, k)
      BY <2>6, <2>9
    <2>13. Mixture(m, Execute(p, k))
      <3>1. m.type = "Execute" /\ m.program = p /\ m.cycle_limit = l
        BY <2>1 DEF Execute
      <3>2. k \in {overwritten(l, d) : d \in 1..8}
        BY DEF k
      <3>3. Stream!Execute(p, k) = Execute(p, k)
        BY DEF Stream!Execute, Execute
      <3>4. Execute(p, k) \in Stream!completed(m)
        BY <3>1, <3>2, <3>3 DEF Stream!completed
      <3> QED
        BY <3>4 DEF Mixture, Stream!Cut
    <2>14. Execute(p, k) # CloseSession
      BY DEF Execute, CloseSession, Plain
    <2> QED
      BY <2>10, <2>13, <2>14
  <1> QED
    BY <1>1, <1>2, MessageKinds

-----------------------------------------------------------------------------
\* What is on the wire and how much of it has been read.

\* What passes MessageTooLarge.
Sendable == {m \in Message : ~tooLarge(m)}

\* What deserialize can make of bytes: an Execute with any limit.
Readable ==
    {Plain(t) : t \in PlainType} \cup {Execute(p, l) : p \in Program, l \in [1..8 -> Byte]}

\* Types.
BytesTypeOK ==
    /\ hostEnd \in {"none", "open", "dropped", "closing", "closed"}
    /\ wire \in Seq(Byte) /\ rest \in Seq(Byte)
    /\ sending \in Sendable \cup {NoMessage} /\ sent \in Seq(Sendable)
    /\ reader \in {"length", "body", "ended", "panicked"}
    /\ taken \in Nat /\ need \in Nat /\ read \in Seq(Readable)

\* The frames of seq are among the bytes w, one behind the other: that of seq[i]
\* behind the first off[i] bytes.
LaidOn(w, seq, off) ==
    /\ off \in [1..(Len(seq) + 1) -> Nat] /\ off[1] = 0
    /\ \A i \in 1..Len(seq) :
          /\ off[i + 1] = off[i] + Len(frame(seq[i]))
          /\ off[i + 1] <= Len(w)
          /\ \A j \in 1..Len(frame(seq[i])) : w[off[i] + j] = frame(seq[i])[j]

\* Those of the messages sent are on the wire.
Laid(off) == LaidOn(wire, sent, off)

\* Behind the first e bytes of w, and nothing else: the first cut bytes of the
\* frame of m, and the first d of the frame of a CloseSession.
CutOn(w, e, m, cut, d) ==
    /\ cut < Len(frame(m))
    /\ Len(w) = e + cut + d
    /\ \A j \in 1..cut : w[e + j] = frame(m)[j]
    /\ \A j \in 1..d : w[e + cut + j] = CloseBytes[j]

\* That is what the wire ends in.
CutOff(e, m, cut, d) == CutOn(wire, e, m, cut, d)

\* The writer, who has the rest of one of these two frames to write.
Written(off, m, cut, d) ==
    /\ Laid(off)
    /\ CutOff(off[Len(sent) + 1], m, cut, d)
    /\ sending # NoMessage => sending = m
    /\ sending = NoMessage /\ hostEnd # "closed" => cut = 0
    /\ d > 0 => hostEnd \in {"closing", "closed"}
    /\ hostEnd = "none" => sending = NoMessage /\ rest = <<>>
    /\ hostEnd = "open" =>
          IF sending = NoMessage THEN rest = <<>>
          ELSE /\ Len(rest) = Len(frame(m)) - cut
               /\ \A j \in 1..Len(rest) : rest[j] = frame(m)[cut + j]
    /\ hostEnd = "closing" =>
          /\ Len(rest) = 8 - d /\ d < 8
          /\ \A j \in 1..Len(rest) : rest[j] = CloseBytes[d + j]

\* The reader before a whole message, or what has the length of one, that is
\* not among those sent.
ReadingSent(off) ==
    /\ Len(read) <= Len(sent) /\ \A i \in 1..Len(read) : read[i] = sent[i]
    /\ reader # "ended"
    /\ reader = "length" => taken = off[Len(read) + 1]
    /\ reader = "body" =>
          /\ taken = off[Len(read) + 1] + 4 /\ taken <= Len(wire)
          /\ need = fromBytes(SubSeq(wire, off[Len(read) + 1] + 1, off[Len(read) + 1] + 4))
    /\ reader # "body" => need = 0

\* It has read the CloseSession that follows them.
ReadClosing ==
    /\ reader = "ended" /\ need = 0
    /\ hostEnd \in {"closing", "closed"}
    /\ read = Append(sent, CloseSession)

\* The number that the last four bytes of a CloseSession make.
Longest == 6 * 16777216

\* It has read a mixture of m and the CloseSession, and of what is left of this
\* no message can be read.
ReadMixture(off, m, cut, d) ==
    /\ hostEnd \in {"closing", "closed"} /\ 0 < cut
    /\ Len(frame(m)) <= cut + d
    /\ Len(read) = Len(sent) + 1 /\ \A i \in 1..Len(sent) : read[i] = sent[i]
    /\ Mixture(m, read[Len(read)])
    /\ reader # "ended"
    /\ reader = "length" => taken = off[Len(sent) + 1] + Len(frame(m))
    /\ reader = "body" =>
          /\ taken = off[Len(sent) + 1] + Len(frame(m)) + 4 /\ taken <= Len(wire)
          /\ 256 <= need /\ need <= Longest
    /\ reader # "body" => need = 0

\* Both.
Framed(off, m, cut, d) ==
    /\ Written(off, m, cut, d)
    /\ ReadingSent(off) \/ ReadClosing \/ ReadMixture(off, m, cut, d)

\* The inductive invariant.
FramesInv ==
    /\ BytesTypeOK
    /\ \E off : \E m \in Sendable, cut \in Nat, d \in 0..8 : Framed(off, m, cut, d)

-----------------------------------------------------------------------------
\* Bytes on the wire.

\* Four numbers, each 256 of the next.
Base256(w, x, y, z) == ((w * 256 + x) * 256 + y) * 256 + z

\* They make a number.
LEMMA Base256Nat ==
    ASSUME NEW w \in Nat, NEW x \in Nat, NEW y \in Nat, NEW z \in Nat
    PROVE  Base256(w, x, y, z) \in Nat
  <1>1. PICK b : b = w * 256 + x
    OBVIOUS
  <1>2. b \in Nat
    BY <1>1
  <1>3. PICK c : c = b * 256 + y
    OBVIOUS
  <1>4. c \in Nat
    BY <1>2, <1>3
  <1>5. Base256(w, x, y, z) = c * 256 + z
    BY <1>1, <1>3, Zenon DEF Base256
  <1> QED
    BY <1>4, <1>5

\* A length, of any four bytes on the wire.
LEMMA Word ==
    ASSUME NEW s \in Seq(Byte), NEW a \in Nat, a + 4 <= Len(s)
    PROVE  /\ fromBytes(SubSeq(s, a + 1, a + 4))
                 = Base256(s[a + 1], s[a + 2], s[a + 3], s[a + 4])
           /\ fromBytes(SubSeq(s, a + 1, a + 4)) \in Nat
  <1> DEFINE u == SubSeq(s, a + 1, a + 4)
  <1>1. u \in Seq(Byte) /\ Len(u) = 4 /\ \A i \in 1..4 : u[i] = s[a + i]
    BY Slice
  <1> HIDE DEF u
  <1>2. u[1] \in Nat /\ u[2] \in Nat /\ u[3] \in Nat /\ u[4] \in Nat
    <2>1. Byte \subseteq Nat
      BY DEF Byte
    <2>2. \A i \in 1..4 : u[i] \in Byte
      BY <1>1, ElementOfSeq
    <2>3. u[1] \in Byte /\ u[2] \in Byte /\ u[3] \in Byte /\ u[4] \in Byte
      BY <2>2
    <2> QED
      BY <2>1, <2>3, Zenon
  <1>3. fromBytes(u) = Base256(u[1], u[2], u[3], u[4])
    BY DEF fromBytes, Base256
  <1>4. /\ u[1] = s[a + 1] /\ u[2] = s[a + 2]
        /\ u[3] = s[a + 3] /\ u[4] = s[a + 4]
    BY <1>1
  <1>5. fromBytes(u) \in Nat
    <2>1. Base256(u[1], u[2], u[3], u[4]) \in Nat
      BY <1>2, Base256Nat
    <2> QED
      BY <1>3, <2>1, Zenon
  <1>6. fromBytes(u) = Base256(s[a + 1], s[a + 2], s[a + 3], s[a + 4])
    BY <1>3, <1>4, Zenon
  <1> QED
    BY <1>5, <1>6, Zenon DEF u

\* A frame is four bytes of length and what serialize makes.
LEMMA FrameBytes ==
    ASSUME NEW m \in Sendable \cup {CloseSession}
    PROVE  LET n == Len(serialize(m)) IN
           /\ frame(m) \in Seq(Byte)
           /\ n \in Nat /\ n >= 4 /\ Len(frame(m)) = 4 + n
           /\ \A i \in 1..4 : frame(m)[i] = toBytes(n)[i]
           /\ \A i \in 1..n : frame(m)[4 + i] = serialize(m)[i]
  <1> DEFINE n == Len(serialize(m))
             a == toBytes(n)
             b == serialize(m)
  <1>1. m \in Message \cup {CloseSession} /\ ~tooLarge(m)
    BY PlainMessages DEF Sendable, CloseSession, PlainType
  <1>2. b \in Seq(Byte) /\ n \in Nat /\ n >= 4
    BY <1>1, Serialized
  <1>3. a \in Seq(Byte) /\ Len(a) = 4
    <2>1. n \div 65536 <= 65535
      BY <1>1, <1>2 DEF tooLarge
    <2> QED
      BY <1>2, <2>1, LengthBytes
  <1>4. frame(m) = a \o b
    BY DEF frame
  <1> HIDE DEF a, b
  <1>5. /\ frame(m) \in Seq(Byte) /\ Len(frame(m)) = Len(a) + Len(b)
        /\ \A i \in 1..Len(a) : frame(m)[i] = a[i]
        /\ \A i \in 1..Len(b) : frame(m)[Len(a) + i] = b[i]
    <2>1. /\ a \o b \in Seq(Byte) /\ Len(a \o b) = Len(a) + Len(b)
          /\ \A i \in 1..Len(a) : (a \o b)[i] = a[i]
          /\ \A i \in 1..Len(b) : (a \o b)[Len(a) + i] = b[i]
      BY <1>2, <1>3, BytesJoined, Zenon
    <2> QED
      BY <1>4, <2>1
  <1>6. Len(b) = n
    BY DEF b
  <1>7. \A i \in 1..4 : frame(m)[i] = a[i]
    BY <1>3, <1>5
  <1>8. \A i \in 1..n : frame(m)[4 + i] = b[i]
    BY <1>3, <1>5, <1>6
  <1> QED
    BY <1>2, <1>3, <1>5, <1>6, <1>7, <1>8 DEF a, b

\* The length before a body.
LEMMA FrameLength ==
    ASSUME NEW m \in Sendable \cup {CloseSession}, NEW s \in Seq(Byte), NEW a \in Nat,
           a + 4 <= Len(s), \A j \in 1..4 : s[a + j] = frame(m)[j]
    PROVE  fromBytes(SubSeq(s, a + 1, a + 4)) = Len(serialize(m))
  <1> DEFINE n == Len(serialize(m))
             b == toBytes(n)
  <1>1. n \in Nat /\ \A i \in 1..4 : frame(m)[i] = b[i]
    BY FrameBytes
  <1>2. fromBytes(b) = n
    BY <1>1, LengthRoundTrip
  <1> HIDE DEF n, b
  <1>3. s[a + 1] = b[1] /\ s[a + 2] = b[2] /\ s[a + 3] = b[3] /\ s[a + 4] = b[4]
    BY <1>1
  <1>4. fromBytes(SubSeq(s, a + 1, a + 4)) = fromBytes(b)
    BY <1>3, Word DEF fromBytes
  <1> QED
    BY <1>2, <1>4 DEF n

\* A length that was cut in its k-th byte, with zeroes behind.
LEMMA FrameLengthCut ==
    ASSUME NEW m \in Sendable, NEW s \in Seq(Byte), NEW a \in Nat, NEW k \in 1..3,
           a + 4 <= Len(s),
           \A j \in 1..k : s[a + j] = frame(m)[j],
           \A j \in 1..(4 - k) : s[a + k + j] = CloseBytes[j]
    PROVE  LET l == fromBytes(SubSeq(s, a + 1, a + 4)) IN
           l <= Len(serialize(m)) /\ (l = 0 \/ l >= 256)
  <1> DEFINE n == Len(serialize(m))
             b == toBytes(n)
             l == fromBytes(SubSeq(s, a + 1, a + 4))
             z == [i \in 1..4 |-> IF i <= k THEN b[i] ELSE 0]
  <1>1. n \in Nat /\ \A i \in 1..4 : frame(m)[i] = b[i]
    BY FrameBytes
  <1>2. ASSUME NEW i \in 1..4 PROVE s[a + i] = z[i]
    <2>1. CASE i <= k
      <3>1. i \in 1..k
        BY <2>1
      <3> QED
        BY <1>1, <2>1, <3>1
    <2>2. CASE ~(i <= k)
      <3>1. i - k \in 1..(4 - k) /\ i - k \in 1..3 /\ a + k + (i - k) = a + i
        BY <2>2
      <3>2. s[a + i] = CloseBytes[i - k]
        BY <3>1
      <3> QED
        BY <2>2, <3>1, <3>2 DEF CloseBytes
    <2> QED
      BY <2>1, <2>2
  <1>3. /\ l = Base256(s[a + 1], s[a + 2], s[a + 3], s[a + 4])
        /\ l \in Nat
    BY Word
  <1>4. fromBytes(z) = Base256(z[1], z[2], z[3], z[4])
    BY DEF fromBytes, Base256
  <1>5. s[a + 1] = z[1] /\ s[a + 2] = z[2] /\ s[a + 3] = z[3] /\ s[a + 4] = z[4]
    BY <1>2
  <1> HIDE DEF l
  <1>6. l = fromBytes(z)
    BY <1>3, <1>4, <1>5, Zenon
  <1>7. l <= n /\ (l = 0 \/ l >= 256)
    BY <1>1, <1>3, <1>6, CutLength
  <1> QED
    BY <1>7 DEF l

\* A body that is whole.
LEMMA FrameBody ==
    ASSUME NEW m \in Sendable \cup {CloseSession}, NEW s \in Seq(Byte), NEW a \in Nat,
           a + Len(frame(m)) <= Len(s),
           \A j \in 1..Len(frame(m)) : s[a + j] = frame(m)[j]
    PROVE  deserialize(SubSeq(s, a + 4 + 1, a + 4 + Len(serialize(m)))) = m
  <1> DEFINE b == serialize(m)
             e == a + 4
  <1>1. /\ Len(b) \in Nat /\ Len(frame(m)) = 4 + Len(b)
        /\ \A i \in 1..Len(b) : frame(m)[4 + i] = b[i]
    BY FrameBytes
  <1>2. b \in Seq(Byte) /\ deserialize(b) = m
    BY Serialized DEF Sendable
  <1> HIDE DEF b
  <1>3. e \in Nat /\ e + Len(b) <= Len(s)
    BY <1>1, LenProperties
  <1>4. ASSUME NEW i \in 1..Len(b) PROVE s[e + i] = b[i]
    <2>1. 4 + i \in 1..Len(frame(m)) /\ a + (4 + i) = e + i
      BY <1>1
    <2> QED
      BY <1>1, <2>1
  <1> HIDE DEF e
  <1>5. SubSeq(s, e + 1, e + Len(b)) = b
    BY <1>2, <1>3, <1>4, Part
  <1> QED
    BY <1>2, <1>5 DEF b, e

\* What bincode makes of a body can be kept.
LEMMA Deserialized ==
    ASSUME NEW body \in Seq(Byte)
    PROVE  deserialize(body) \in Readable \cup {Malformed}
  <1> DEFINE plain == {Plain(t) : t \in DOMAIN Variant \ {"Execute"}}
  <1>1. CASE \E m \in plain : IsPrefix(serialize(m), body)
    <2>m. PICK m : m = CHOOSE x \in plain : IsPrefix(serialize(x), body)
      OBVIOUS
    <2>1. m \in plain
      BY <1>1, <2>m
    <2>2. m \in Readable
      <3>1. m \in {Plain(t) : t \in PlainType}
        BY <2>1, PlainBodies, Zenon
      <3> QED
        BY <3>1 DEF Readable
    <2>3. ~ \E p \in Program : holdsExecute(body, p)
      <3> SUFFICES ASSUME NEW p \in Program, holdsExecute(body, p) PROVE FALSE
        OBVIOUS
      <3>1. PICK t \in PlainType : IsPrefix(serialize(Plain(t)), body)
        BY <1>1, PlainBodies
      <3>2. body[1] = Variant[t]
        BY <3>1, BeginsPlain
      <3>3. body[1] = 4
        BY BeginsExecute
      <3>4. Variant[t] # 4
        BY DEF Variant, PlainType
      <3> QED
        BY <3>2, <3>3, <3>4
    <2>4. deserialize(body) = m
      BY <1>1, <2>m, <2>3 DEF deserialize
    <2> QED
      BY <2>2, <2>4
  <1>2. CASE /\ ~ \E m \in plain : IsPrefix(serialize(m), body)
             /\ \E p \in Program : holdsExecute(body, p)
    <2>p. PICK p : p = CHOOSE q \in Program : holdsExecute(body, q)
      OBVIOUS
    <2>l. PICK l : l = SubSeq(body, Len(p) + 5, Len(p) + 12)
      OBVIOUS
    <2>1. p \in Program /\ holdsExecute(body, p)
      BY <1>2, <2>p
    <2>2. l \in [1..8 -> Byte]
      <3>a. PICK a : a = 4 + Len(p)
        OBVIOUS
      <3>1. Len(body) >= Len(p) + 12 /\ Len(p) \in Nat /\ Len(body) \in Nat
        <4>1. Len(body) >= Len(p) + 12
          BY <2>1, BeginsExecute
        <4>2. p \in Seq(Byte)
          BY <2>1, FrameAssumption
        <4> QED
          BY <4>1, <4>2, LenProperties
      <3>2. a \in Nat /\ a + 8 <= Len(body) /\ a + 1 = Len(p) + 5 /\ a + 8 = Len(p) + 12
        BY <3>a, <3>1
      <3>3. /\ SubSeq(body, a + 1, a + 8) \in Seq(Byte)
            /\ Len(SubSeq(body, a + 1, a + 8)) = 8
        BY <3>2, Slice
      <3>4. l \in Seq(Byte) /\ Len(l) = 8
        BY <2>l, <3>2, <3>3
      <3> QED
        BY <3>4, LenProperties
    <2>3. Execute(p, l) \in Readable
      BY <2>1, <2>2 DEF Readable
    <2>4. deserialize(body) = Execute(p, l)
      BY <1>2, <2>p, <2>l DEF deserialize
    <2> QED
      BY <2>3, <2>4
  <1>3. CASE /\ ~ \E m \in plain : IsPrefix(serialize(m), body)
             /\ ~ \E p \in Program : holdsExecute(body, p)
    BY <1>3 DEF deserialize
  <1> QED
    BY <1>1, <1>2, <1>3

-----------------------------------------------------------------------------
\* The writer's steps.

\* Nothing is sent, cut or read.
LEMMA InitEstablishes == FramesInit => FramesInv
  <1> SUFFICES ASSUME FramesInit PROVE FramesInv
    OBVIOUS
  <1> DEFINE m == Plain("GetPublicKey")
             off == [i \in 1..1 |-> 0]
  <1>1. m \in Sendable
    BY PlainMessages DEF Sendable, Message, PlainType
  <1>2. BytesTypeOK
    BY EmptySeq DEF FramesInit, BytesTypeOK
  <1>3. Len(frame(m)) \in Nat /\ 0 < Len(frame(m))
    BY <1>1, FrameBytes
  <1> HIDE DEF m
  <1>4. Len(sent) = 0 /\ Len(wire) = 0 /\ Len(read) = 0 /\ Len(sent) + 1 = 1
    BY DEF FramesInit
  <1>5. Laid(off) /\ off[Len(sent) + 1] = 0
    BY <1>4 DEF Laid, LaidOn
  <1> HIDE DEF off
  <1>6. CutOff(0, m, 0, 0)
    BY <1>3, <1>4 DEF CutOff, CutOn
  <1>7. Written(off, m, 0, 0)
    BY <1>5, <1>6 DEF Written, FramesInit
  <1>8. ReadingSent(off)
    BY <1>4, <1>5 DEF ReadingSent, FramesInit
  <1>9. 0 \in Nat /\ 0 \in 0..8 /\ Framed(off, m, 0, 0)
    BY <1>7, <1>8 DEF Framed
  <1> QED
    BY <1>1, <1>2, <1>9, Zenon DEF FramesInv

\* A byte more on the wire leaves the others where they were.
\* The wire keeps what was written.
Grows == /\ Len(wire') >= Len(wire)
         /\ \A i \in 1..Len(wire) : wire'[i] = wire[i]

\* write_all moves one byte from the frame to the wire.
LEMMA ByteWritten ==
    ASSUME BytesTypeOK, rest # <<>>, wire' = Append(wire, Head(rest)), rest' = Tail(rest)
    PROVE  /\ wire' \in Seq(Byte) /\ Len(wire') = Len(wire) + 1
           /\ wire'[Len(wire) + 1] = rest[1] /\ Grows
           /\ rest' \in Seq(Byte) /\ Len(rest) \in Nat \ {0} /\ Len(rest') = Len(rest) - 1
           /\ \A i \in 1..Len(rest') : rest'[i] = rest[i + 1]
  <1>1. wire \in Seq(Byte) /\ rest \in Seq(Byte)
    BY DEF BytesTypeOK
  <1>2. Len(rest) \in Nat \ {0} /\ Len(wire) \in Nat
    BY <1>1, EmptySeq, LenProperties
  <1>3. /\ Head(rest) \in Byte /\ rest' \in Seq(Byte) /\ Len(rest') = Len(rest) - 1
        /\ \A i \in 1..Len(rest') : rest'[i] = rest[i + 1]
    BY <1>1, HeadTailProperties
  <1>4. Head(rest) = rest[1]
    BY <1>1, <1>2
  <1>5. /\ wire' \in Seq(Byte) /\ Len(wire') = Len(wire) + 1
        /\ \A i \in 1..Len(wire) : wire'[i] = wire[i]
        /\ wire'[Len(wire) + 1] = Head(rest)
    BY <1>1, <1>3, AppendProperties
  <1> QED
    BY <1>2, <1>3, <1>4, <1>5 DEF Grows

\* The frames sent stay where they are.
LEMMA LaidGrows ==
    ASSUME BytesTypeOK, NEW off, Laid(off), Grows, sent' = sent
    PROVE  Laid(off)'
  <1>1. Len(sent) \in Nat /\ Len(wire) \in Nat /\ Len(wire') >= Len(wire)
    BY LenProperties DEF BytesTypeOK, Grows
  <1>2. ASSUME NEW i \in 1..Len(sent)
        PROVE  /\ off[i + 1] <= Len(wire')
               /\ \A j \in 1..Len(frame(sent[i])) : wire'[off[i] + j] = frame(sent[i])[j]
    <2>1. off[i] \in Nat /\ off[i + 1] \in Nat
      <3>1. i \in 1..(Len(sent) + 1) /\ i + 1 \in 1..(Len(sent) + 1)
        BY <1>1
      <3>2. off \in [1..(Len(sent) + 1) -> Nat]
        BY DEF Laid, LaidOn
      <3> QED
        BY <3>1, <3>2
    <2>2. sent[i] \in Sendable
      BY ElementOfSeq DEF BytesTypeOK
    <2>3. Len(frame(sent[i])) \in Nat
      BY <2>2, FrameBytes
    <2>4. /\ off[i + 1] = off[i] + Len(frame(sent[i])) /\ off[i + 1] <= Len(wire)
          /\ \A j \in 1..Len(frame(sent[i])) : wire[off[i] + j] = frame(sent[i])[j]
      BY DEF Laid, LaidOn
    <2>5. ASSUME NEW j \in 1..Len(frame(sent[i]))
          PROVE  wire'[off[i] + j] = frame(sent[i])[j]
      <3>1. off[i] + j \in 1..Len(wire)
        BY <1>1, <2>1, <2>3, <2>4
      <3> QED
        BY <2>4, <3>1 DEF Grows
    <2> QED
      BY <1>1, <2>1, <2>4, <2>5
  <1> QED
    BY <1>2 DEF Laid, LaidOn

\* A reader of what was sent is not disturbed.
LEMMA ReadingGrows ==
    ASSUME BytesTypeOK, NEW off, Laid(off), ReadingSent(off), Grows, wire' \in Seq(Byte),
           UNCHANGED readerVars,
           NEW off2, \A i \in 1..(Len(sent) + 1) : off2[i] = off[i],
           Len(sent') \in Nat, Len(sent) <= Len(sent'),
           \A i \in 1..Len(sent) : sent'[i] = sent[i]
    PROVE  ReadingSent(off2)'
  <1>1. /\ Len(sent) \in Nat /\ Len(read) \in Nat /\ Len(wire) \in Nat /\ Len(wire') \in Nat
        /\ wire \in Seq(Byte)
    BY LenProperties DEF BytesTypeOK
  <1> DEFINE a == off[Len(read) + 1]
  <1>2. Len(read) + 1 \in 1..(Len(sent) + 1)
    BY <1>1 DEF ReadingSent
  <1>3. a \in Nat /\ off2[Len(read) + 1] = a
    BY <1>1, <1>2 DEF Laid, LaidOn
  <1>4. \A i \in 1..Len(read) : i \in 1..Len(sent)
    BY <1>1 DEF ReadingSent
  <1>5. ASSUME reader = "body"
        PROVE  /\ taken <= Len(wire')
               /\ need = fromBytes(SubSeq(wire', a + 1, a + 4))
    <2>1. /\ taken = a + 4 /\ taken <= Len(wire)
          /\ need = fromBytes(SubSeq(wire, a + 1, a + 4))
      BY <1>5 DEF ReadingSent
    <2> HIDE DEF a
    <2>2. a + 4 <= Len(wire) /\ a + 4 <= Len(wire')
      BY <1>1, <1>3, <2>1 DEF Grows
    <2>3. /\ wire'[a + 1] = wire[a + 1] /\ wire'[a + 2] = wire[a + 2]
          /\ wire'[a + 3] = wire[a + 3] /\ wire'[a + 4] = wire[a + 4]
      BY <1>1, <1>3, <2>2 DEF Grows
    <2>4. fromBytes(SubSeq(wire', a + 1, a + 4)) = fromBytes(SubSeq(wire, a + 1, a + 4))
      <3>1. fromBytes(SubSeq(wire', a + 1, a + 4))
              = Base256(wire'[a + 1], wire'[a + 2], wire'[a + 3], wire'[a + 4])
        BY <1>3, <2>2, Word
      <3>2. fromBytes(SubSeq(wire, a + 1, a + 4))
              = Base256(wire[a + 1], wire[a + 2], wire[a + 3], wire[a + 4])
        BY <1>1, <1>3, <2>2, Word
      <3> QED
        BY <2>3, <3>1, <3>2, Zenon
    <2> QED
      BY <1>3, <2>1, <2>2, <2>4
  <1> QED
    BY <1>1, <1>3, <1>4, <1>5 DEF ReadingSent, readerVars

\* The lengths, and where the frames sent end.
LEMMA End ==
    ASSUME BytesTypeOK, NEW off, Laid(off)
    PROVE  /\ Len(sent) \in Nat /\ Len(wire) \in Nat /\ Len(read) \in Nat /\ Len(rest) \in Nat
           /\ off[Len(sent) + 1] \in Nat
  <1>1. /\ Len(sent) \in Nat /\ Len(wire) \in Nat /\ Len(read) \in Nat
        /\ Len(rest) \in Nat
    BY LenProperties DEF BytesTypeOK
  <1>2. Len(sent) + 1 \in 1..(Len(sent) + 1)
    BY <1>1
  <1> QED
    BY <1>1, <1>2 DEF Laid, LaidOn

\* Where nothing is written and nothing sent, what is on the wire and what was
\* read of it stay as they are.
LEMMA WireKept ==
    ASSUME BytesTypeOK, NEW off, Laid(off), UNCHANGED <<wire, sent, readerVars>>
    PROVE  /\ Laid(off)'
           /\ \A e, m, cut, d : CutOff(e, m, cut, d) => CutOff(e, m, cut, d)'
           /\ ReadingSent(off) => ReadingSent(off)'
           /\ ReadClosing /\ hostEnd' \in {"closing", "closed"} => ReadClosing'
           /\ \A m, cut, d : /\ ReadMixture(off, m, cut, d)
                             /\ hostEnd' \in {"closing", "closed"}
                             => ReadMixture(off, m, cut, d)'
  <1>1. Laid(off)' /\ \A e, m, cut, d : CutOff(e, m, cut, d) => CutOff(e, m, cut, d)'
    BY DEF Laid, LaidOn, CutOff, CutOn
  <1>2. /\ ReadingSent(off) => ReadingSent(off)'
        /\ ReadClosing /\ hostEnd' \in {"closing", "closed"} => ReadClosing'
    BY DEF ReadingSent, ReadClosing, readerVars
  <1>3. ASSUME NEW m, NEW cut, NEW d, ReadMixture(off, m, cut, d),
               hostEnd' \in {"closing", "closed"}
        PROVE  ReadMixture(off, m, cut, d)'
    BY <1>3 DEF ReadMixture, Mixture, readerVars
  <1> QED
    BY <1>1, <1>2, <1>3

\* HostStream::new
LEMMA OpenPreserves ==
    ASSUME FramesInv, open
    PROVE  FramesInv'
  <1> USE DEF open
  <1>1. BytesTypeOK /\ BytesTypeOK'
    BY DEF FramesInv, BytesTypeOK, readerVars
  <1>2. PICK off : \E m \in Sendable, cut \in Nat, d \in 0..8 : Framed(off, m, cut, d)
    BY DEF FramesInv
  <1>3. PICK m \in Sendable, cut \in Nat, d \in 0..8 : Framed(off, m, cut, d)
    BY <1>2
  <1>4. Laid(off) /\ CutOff(off[Len(sent) + 1], m, cut, d)
    BY <1>3 DEF Framed, Written
  <1>5. Written(off, m, cut, d)'
    <2>1. Laid(off)' /\ CutOff(off[Len(sent) + 1], m, cut, d)'
      BY <1>1, <1>4, WireKept
    <2>2. sending = NoMessage /\ rest = <<>> /\ cut = 0 /\ ~(d > 0)
      BY <1>3 DEF Framed, Written
    <2> QED
      BY <2>1, <2>2 DEF Written
  <1>6. ReadingSent(off)'
    <2>1. ReadingSent(off)
      BY <1>3 DEF Framed, ReadClosing, ReadMixture
    <2> QED
      BY <1>1, <1>4, <2>1, WireKept
  <1> QED
    BY <1>1, <1>5, <1>6 DEF FramesInv, Framed

\* send: the frame to come is that of a message not too large.
LEMMA BeginFramePreserves ==
    ASSUME FramesInv, NEW next \in Message, beginFrame(next)
    PROVE  FramesInv'
  <1> USE DEF beginFrame
  <1>1. BytesTypeOK /\ next \in Sendable
    BY DEF FramesInv, Sendable
  <1>2. PICK off : \E m \in Sendable, cut \in Nat, d \in 0..8 : Framed(off, m, cut, d)
    BY DEF FramesInv
  <1>3. PICK m \in Sendable, cut \in Nat, d \in 0..8 : Framed(off, m, cut, d)
    BY <1>2
  <1>4. Laid(off) /\ CutOff(off[Len(sent) + 1], m, cut, d)
    BY <1>3 DEF Framed, Written
  <1>5. /\ frame(next) \in Seq(Byte) /\ Len(frame(next)) \in Nat /\ 0 < Len(frame(next))
        /\ Len(frame(m)) \in Nat
    BY <1>1, FrameBytes
  <1>6. BytesTypeOK'
    BY <1>1, <1>5 DEF BytesTypeOK, readerVars
  <1>7. sending = NoMessage
    <2>1. cut < Len(frame(m)) /\ Len(rest) = 0
      BY <1>4, EmptySeq DEF CutOff, CutOn
    <2> QED
      BY <1>3, <1>5, <2>1 DEF Framed, Written
  <1>8. cut = 0 /\ d = 0
    BY <1>3, <1>7 DEF Framed, Written
  <1>9. next # NoMessage
    BY NoMessageAssumption
  <1>10. Written(off, next, 0, 0)'
    <2>1. Laid(off)' /\ CutOff(off[Len(sent) + 1], m, cut, d)'
      BY <1>1, <1>4, WireKept
    <2>2. CutOff(off[Len(sent) + 1], next, 0, 0)'
      BY <1>5, <1>8, <2>1 DEF CutOff, CutOn
    <2> QED
      BY <1>5, <1>9, <2>1, <2>2 DEF Written
  <1>11. ReadingSent(off)'
    <2>1. ReadingSent(off)
      BY <1>3 DEF Framed, ReadClosing, ReadMixture
    <2> QED
      BY <1>1, <1>4, <2>1, WireKept
  <1>12. 0 \in Nat /\ 0 \in 0..8 /\ Framed(off, next, 0, 0)'
    BY <1>10, <1>11 DEF Framed
  <1> QED
    BY <1>1, <1>6, <1>12, Zenon DEF FramesInv

\* Another byte of the frame being sent.
LEMMA WriteMorePreserves ==
    ASSUME FramesInv, writeByte, Len(rest) > 1
    PROVE  FramesInv'
  <1>w. /\ hostEnd = "open" /\ hostEnd' = "open" /\ rest # <<>>
        /\ wire' = Append(wire, Head(rest)) /\ rest' = Tail(rest)
        /\ sending' = sending /\ sent' = sent /\ UNCHANGED readerVars
    BY DEF writeByte
  <1>1. BytesTypeOK
    BY DEF FramesInv
  <1>2. PICK off : \E m \in Sendable, cut \in Nat, d \in 0..8 : Framed(off, m, cut, d)
    BY DEF FramesInv
  <1>3. PICK m \in Sendable, cut \in Nat, d \in 0..8 : Framed(off, m, cut, d)
    BY <1>2
  <1>4. Laid(off) /\ CutOff(off[Len(sent) + 1], m, cut, d)
    BY <1>3 DEF Framed, Written
  <1>e. PICK e : e = off[Len(sent) + 1]
    OBVIOUS
  <1>5. e \in Nat /\ Len(sent) \in Nat /\ Len(wire) \in Nat /\ Len(frame(m)) \in Nat
    BY <1>1, <1>4, <1>e, End, FrameBytes
  <1>6. /\ wire' \in Seq(Byte) /\ Len(wire') = Len(wire) + 1
        /\ wire'[Len(wire) + 1] = rest[1] /\ Grows
        /\ rest' \in Seq(Byte) /\ Len(rest) \in Nat \ {0} /\ Len(rest') = Len(rest) - 1
        /\ \A i \in 1..Len(rest') : rest'[i] = rest[i + 1]
    BY <1>1, <1>w, ByteWritten
  <1>7. BytesTypeOK'
    BY <1>1, <1>6, <1>w DEF BytesTypeOK, readerVars
  <1>8. /\ sending # NoMessage /\ d = 0
        /\ Len(rest) = Len(frame(m)) - cut
        /\ \A j \in 1..Len(rest) : rest[j] = frame(m)[cut + j]
    BY <1>3, <1>w DEF Framed, Written
  <1>9. Laid(off)'
    BY <1>1, <1>4, <1>6, <1>w, LaidGrows
  <1>10. CutOff(e, m, cut + 1, 0)'
    <2>1. cut + 1 < Len(frame(m))
      BY <1>5, <1>8
    <2>2. Len(wire) = e + cut /\ \A j \in 1..cut : wire[e + j] = frame(m)[j]
      BY <1>4, <1>5, <1>8, <1>e DEF CutOff, CutOn
    <2>3. ASSUME NEW j \in 1..(cut + 1) PROVE wire'[e + j] = frame(m)[j]
      <3>1. CASE j = cut + 1
        <4>1. e + j = Len(wire) + 1 /\ 1 \in 1..Len(rest)
          BY <1>5, <1>6, <2>2, <3>1
        <4> QED
          BY <1>6, <1>8, <3>1, <4>1
      <3>2. CASE j # cut + 1
        <4>1. j \in 1..cut /\ e + j \in 1..Len(wire)
          BY <1>5, <2>2, <3>2
        <4> QED
          BY <1>6, <2>2, <4>1 DEF Grows
      <3> QED
        BY <3>1, <3>2
    <2>4. Len(wire') = e + (cut + 1) + 0
      BY <1>5, <1>6, <2>2
    <2> QED
      BY <2>1, <2>3, <2>4 DEF CutOff, CutOn
  <1>11. /\ Len(rest') = Len(frame(m)) - (cut + 1)
         /\ \A j \in 1..Len(rest') : rest'[j] = frame(m)[(cut + 1) + j]
    <2>1. ASSUME NEW j \in 1..Len(rest') PROVE rest'[j] = frame(m)[(cut + 1) + j]
      <3>1. j + 1 \in 1..Len(rest) /\ cut + (j + 1) = (cut + 1) + j
        BY <1>6
      <3> QED
        BY <1>6, <1>8, <3>1
    <2> QED
      BY <1>5, <1>6, <1>8, <2>1
  <1>12. Written(off, m, cut + 1, 0)'
    <2>1. CutOff(off[Len(sent) + 1], m, cut + 1, 0)'
      BY <1>10, <1>e, <1>w
    <2>2. sending' = sending /\ sending = m /\ hostEnd' = "open"
      BY <1>3, <1>8, <1>w DEF Framed, Written
    <2> QED
      BY <1>8, <1>9, <1>11, <2>1, <2>2 DEF Written
  <1>13. ReadingSent(off)'
    <2>1. ReadingSent(off)
      BY <1>3, <1>w DEF Framed, ReadClosing, ReadMixture
    <2> QED
      BY <1>1, <1>4, <1>5, <1>6, <1>w, <2>1, ReadingGrows
  <1>14. cut + 1 \in Nat /\ 0 \in 0..8 /\ Framed(off, m, cut + 1, 0)'
    BY <1>12, <1>13 DEF Framed
  <1> QED
    BY <1>7, <1>14, Zenon DEF FramesInv

\* Its last byte: the frame is one of those sent.
LEMMA WriteLastPreserves ==
    ASSUME FramesInv, writeByte, ~(Len(rest) > 1)
    PROVE  FramesInv'
  <1>w. /\ hostEnd = "open" /\ hostEnd' = "open" /\ rest # <<>>
        /\ wire' = Append(wire, Head(rest)) /\ rest' = Tail(rest)
        /\ sending' = NoMessage /\ sent' = Append(sent, sending)
        /\ UNCHANGED readerVars
    BY DEF writeByte
  <1>1. BytesTypeOK
    BY DEF FramesInv
  <1>2. PICK off : \E m \in Sendable, cut \in Nat, d \in 0..8 : Framed(off, m, cut, d)
    BY DEF FramesInv
  <1>3. PICK m \in Sendable, cut \in Nat, d \in 0..8 : Framed(off, m, cut, d)
    BY <1>2
  <1>4. Laid(off) /\ CutOff(off[Len(sent) + 1], m, cut, d)
    BY <1>3 DEF Framed, Written
  <1> DEFINE f == Len(frame(m))
  <1>n. PICK n : n = Len(sent)
    OBVIOUS
  <1>e. PICK e : e = off[n + 1]
    OBVIOUS
  <1>5. e \in Nat /\ n \in Nat /\ Len(wire) \in Nat /\ f \in Nat
    BY <1>1, <1>4, <1>n, <1>e, End, FrameBytes
  <1>6. /\ wire' \in Seq(Byte) /\ Len(wire') = Len(wire) + 1
        /\ wire'[Len(wire) + 1] = rest[1] /\ Grows
        /\ rest' \in Seq(Byte) /\ Len(rest) \in Nat \ {0} /\ Len(rest') = Len(rest) - 1
    BY <1>1, <1>w, ByteWritten
  <1>7. /\ sending # NoMessage /\ d = 0 /\ m = sending
        /\ Len(rest) = f - cut
        /\ \A j \in 1..Len(rest) : rest[j] = frame(m)[cut + j]
    BY <1>3, <1>w DEF Framed, Written
  <1>8. Len(rest) = 1 /\ rest' = <<>>
    BY <1>6, EmptySeq
  <1>9. /\ sent' \in Seq(Sendable) /\ Len(sent') = n + 1
        /\ \A i \in 1..n : sent'[i] = sent[i]
        /\ sent'[n + 1] = m
    <2>1. sent' = Append(sent, m) /\ sent \in Seq(Sendable)
      BY <1>1, <1>7, <1>w DEF BytesTypeOK
    <2> QED
      BY <1>n, <2>1, AppendProperties
  <1>10. BytesTypeOK'
    BY <1>1, <1>6, <1>9, <1>w DEF BytesTypeOK, readerVars
  <1> HIDE DEF f
  <1>11. cut + 1 = f /\ Len(wire') = e + f
    <2>1. Len(wire) = e + cut + d
      BY <1>4, <1>n, <1>e DEF CutOff, CutOn
    <2> QED
      BY <1>5, <1>6, <1>7, <1>8, <2>1
  <1>12. ASSUME NEW j \in 1..f PROVE wire'[e + j] = frame(m)[j]
    <2>1. Len(wire) = e + cut /\ \A i \in 1..cut : wire[e + i] = frame(m)[i]
      BY <1>4, <1>5, <1>7, <1>n, <1>e DEF CutOff, CutOn
    <2>2. CASE j = cut + 1
      <3>1. e + j = Len(wire) + 1 /\ 1 \in 1..Len(rest)
        BY <1>5, <1>8, <2>1, <2>2
      <3> QED
        BY <1>6, <1>7, <2>2, <3>1
    <2>3. CASE j # cut + 1
      <3>1. j \in 1..cut /\ e + j \in 1..Len(wire)
        BY <1>5, <1>11, <2>1, <2>3
      <3> QED
        BY <1>6, <2>1, <3>1 DEF Grows
    <2> QED
      BY <2>2, <2>3
  <1>o. PICK off2 : off2 = [i \in 1..(n + 2) |-> IF i <= n + 1 THEN off[i] ELSE e + f]
    OBVIOUS
  <1>13. /\ off2 \in [1..(n + 2) -> Nat] /\ off2[n + 2] = e + f /\ off2[n + 1] = e
         /\ \A i \in 1..(n + 1) : off2[i] = off[i]
    <2>1. off \in [1..(n + 1) -> Nat] /\ off[n + 1] = e
      BY <1>4, <1>n, <1>e DEF Laid, LaidOn
    <2>2. /\ n + 2 \in 1..(n + 2) /\ ~(n + 2 <= n + 1)
          /\ n + 1 \in 1..(n + 2) /\ n + 1 <= n + 1
          /\ \A i \in 1..(n + 1) : i \in 1..(n + 2) /\ i <= n + 1
          /\ \A i \in 1..(n + 2) : i <= n + 1 => i \in 1..(n + 1)
      BY <1>5
    <2>3. \A i \in 1..(n + 1) : off2[i] = off[i]
      BY <1>o, <2>2
    <2>4. off2[n + 2] = e + f /\ e + f \in Nat
      BY <1>5, <1>o, <2>2
    <2>5. off2 \in [1..(n + 2) -> Nat]
      BY <1>o, <2>1, <2>2, <2>4
    <2> QED
      BY <2>1, <2>2, <2>3, <2>4, <2>5
  <1>14. ASSUME NEW i \in 1..(n + 1)
         PROVE  /\ off2[i + 1] = off2[i] + Len(frame(sent'[i]))
                /\ off2[i + 1] <= Len(wire')
                /\ \A j \in 1..Len(frame(sent'[i])) :
                      wire'[off2[i] + j] = frame(sent'[i])[j]
    <2>1. CASE i = n + 1
      <3>1. sent'[i] = m /\ off2[i] = e /\ off2[i + 1] = e + f
        BY <1>5, <1>9, <1>13, <2>1
      <3> QED
        <4>1. e + f <= Len(wire')
          BY <1>5, <1>11
        <4> QED
          BY <1>12, <3>1, <4>1, Zenon DEF f
    <2>2. CASE i # n + 1
      <3>1. i \in 1..n /\ i \in 1..(n + 1) /\ i + 1 \in 1..(n + 1)
        BY <1>5, <2>2
      <3>2. sent'[i] = sent[i] /\ off2[i] = off[i] /\ off2[i + 1] = off[i + 1]
        BY <1>9, <1>13, <3>1
      <3>3. /\ off[i + 1] = off[i] + Len(frame(sent[i])) /\ off[i + 1] <= Len(wire)
            /\ \A j \in 1..Len(frame(sent[i])) : wire[off[i] + j] = frame(sent[i])[j]
            /\ off[i] \in Nat /\ off[i + 1] \in Nat
        BY <1>4, <1>n, <3>1 DEF Laid, LaidOn
      <3>4. sent[i] \in Sendable
        BY <1>1, <1>n, <3>1, ElementOfSeq DEF BytesTypeOK
      <3>5. Len(frame(sent[i])) \in Nat
        BY <3>4, FrameBytes
      <3>6. ASSUME NEW j \in 1..Len(frame(sent[i]))
            PROVE  wire'[off[i] + j] = frame(sent[i])[j]
        <4>1. off[i] + j \in 1..Len(wire)
          BY <1>5, <3>3, <3>5
        <4> QED
          BY <1>6, <3>3, <4>1 DEF Grows
      <3> QED
        BY <1>5, <1>6, <3>2, <3>3, <3>6
    <2> QED
      BY <2>1, <2>2
  <1>15. Laid(off2)'
    <2>1. off2[1] = 0
      <3>1. 1 \in 1..(n + 1)
        BY <1>5
      <3> QED
        BY <1>4, <1>13, <3>1 DEF Laid, LaidOn
    <2>2. Len(sent') = n + 1 /\ Len(sent') + 1 = n + 2
      BY <1>5, <1>9
    <2> QED
      BY <1>13, <1>14, <2>1, <2>2 DEF Laid, LaidOn
  <1>16. CutOff(e + f, m, 0, 0)'
    BY <1>5, <1>11 DEF CutOff, CutOn, f
  <1>17. Written(off2, m, 0, 0)'
    <2>1. off2[Len(sent') + 1] = e + f
      BY <1>5, <1>9, <1>13
    <2>2. sending' = NoMessage /\ hostEnd' = "open"
      BY <1>w
    <2> QED
      BY <1>8, <1>15, <1>16, <2>1, <2>2 DEF Written
  <1>18. ReadingSent(off2)'
    <2>1. ReadingSent(off)
      BY <1>3, <1>w DEF Framed, ReadClosing, ReadMixture
    <2>2. Len(sent') \in Nat /\ Len(sent) <= Len(sent')
      BY <1>5, <1>9, <1>n
    <2>3. /\ \A i \in 1..(Len(sent) + 1) : off2[i] = off[i]
          /\ \A i \in 1..Len(sent) : sent'[i] = sent[i]
      BY <1>9, <1>13, <1>n
    <2> QED
      BY <1>1, <1>4, <1>6, <1>w, <2>2, <2>3, <2>1, ReadingGrows
  <1>19. 0 \in Nat /\ 0 \in 0..8 /\ Framed(off2, m, 0, 0)'
    BY <1>17, <1>18 DEF Framed
  <1> QED
    BY <1>10, <1>19, Zenon DEF FramesInv

\* The send is cut where it is.
LEMMA DropHostPreserves ==
    ASSUME FramesInv, dropHost
    PROVE  FramesInv'
  <1> USE DEF dropHost
  <1>1. BytesTypeOK /\ BytesTypeOK'
    BY EmptySeq DEF FramesInv, BytesTypeOK, readerVars
  <1>2. PICK off : \E m \in Sendable, cut \in Nat, d \in 0..8 : Framed(off, m, cut, d)
    BY DEF FramesInv
  <1>3. PICK m \in Sendable, cut \in Nat, d \in 0..8 : Framed(off, m, cut, d)
    BY <1>2
  <1>4. Laid(off) /\ CutOff(off[Len(sent) + 1], m, cut, d)
    BY <1>3 DEF Framed, Written
  <1>5. Written(off, m, cut, d)'
    <2>1. Laid(off)' /\ CutOff(off[Len(sent) + 1], m, cut, d)'
      BY <1>1, <1>4, WireKept
    <2>2. /\ ~(d > 0)
          /\ sending # NoMessage => sending = m
          /\ sending = NoMessage => cut = 0
      BY <1>3 DEF Framed, Written
    <2> QED
      BY <2>1, <2>2 DEF Written
  <1>6. ReadingSent(off)'
    <2>1. ReadingSent(off)
      BY <1>3 DEF Framed, ReadClosing, ReadMixture
    <2> QED
      BY <1>1, <1>4, <2>1, WireKept
  <1> QED
    BY <1>1, <1>5, <1>6 DEF FramesInv, Framed

\* The task of Drop has a CloseSession to write behind it.
LEMMA BeginClosePreserves ==
    ASSUME FramesInv, beginClose
    PROVE  FramesInv'
  <1> USE DEF beginClose
  <1>1. BytesTypeOK
    BY DEF FramesInv
  <1>2. rest' = CloseBytes /\ rest' \in Seq(Byte) /\ Len(CloseBytes) = 8
    <2>1. frame(CloseSession) \in Seq(Byte)
      BY FrameBytes
    <2> QED
      BY <2>1, CloseFrame DEF CloseBytes
  <1>3. BytesTypeOK'
    BY <1>1, <1>2 DEF BytesTypeOK, readerVars
  <1>4. PICK off : \E m \in Sendable, cut \in Nat, d \in 0..8 : Framed(off, m, cut, d)
    BY DEF FramesInv
  <1>5. PICK m \in Sendable, cut \in Nat, d \in 0..8 : Framed(off, m, cut, d)
    BY <1>4
  <1>6. Laid(off) /\ CutOff(off[Len(sent) + 1], m, cut, d)
    BY <1>5 DEF Framed, Written
  <1>7. Written(off, m, cut, d)'
    <2>1. Laid(off)' /\ CutOff(off[Len(sent) + 1], m, cut, d)'
      BY <1>1, <1>6, WireKept
    <2>2. /\ ~(d > 0) /\ d = 0
          /\ sending # NoMessage => sending = m
          /\ sending = NoMessage => cut = 0
      BY <1>5 DEF Framed, Written
    <2>3. /\ Len(rest') = 8 - d /\ d < 8
          /\ \A j \in 1..Len(rest') : rest'[j] = CloseBytes[d + j]
      BY <1>2, <2>2
    <2> QED
      BY <2>1, <2>2, <2>3 DEF Written
  <1>8. ReadingSent(off)'
    <2>1. ReadingSent(off)
      BY <1>5 DEF Framed, ReadClosing, ReadMixture
    <2> QED
      BY <1>1, <1>6, <2>1, WireKept
  <1> QED
    BY <1>3, <1>7, <1>8 DEF FramesInv, Framed

\* Behind what is on the wire is one byte more of the CloseSession.
LEMMA CloseByteWritten ==
    ASSUME BytesTypeOK, NEW off, NEW m \in Sendable, NEW cut \in Nat, NEW d \in 0..8,
           Written(off, m, cut, d), closeByte
    PROVE  /\ d \in 0..7 /\ Len(rest) = 8 - d
           /\ Laid(off)' /\ CutOff(off[Len(sent) + 1], m, cut, d + 1)'
  <1>4. Laid(off) /\ CutOff(off[Len(sent) + 1], m, cut, d)
    BY DEF Written
  <1>5. /\ Len(rest) = 8 - d /\ d \in 0..7
        /\ \A j \in 1..Len(rest) : rest[j] = CloseBytes[d + j]
    BY DEF Written, closeByte
  <1>6. rest # <<>>
    BY <1>5
  <1>w. /\ wire' = Append(wire, Head(rest)) /\ rest' = Tail(rest)
        /\ sent' = sent /\ UNCHANGED readerVars
    BY DEF closeByte
  <1>7. /\ wire' \in Seq(Byte) /\ Len(wire') = Len(wire) + 1
        /\ wire'[Len(wire) + 1] = rest[1] /\ Grows
    BY <1>6, <1>w, ByteWritten
  <1>e. PICK e : e = off[Len(sent) + 1]
    OBVIOUS
  <1>9. e \in Nat /\ Len(sent) \in Nat /\ Len(wire) \in Nat
    BY <1>4, <1>e, End
  <1>10. Laid(off)'
    BY <1>4, <1>7, <1>w, LaidGrows
  <1>11. CutOff(e, m, cut, d + 1)'
    <2>1. /\ cut < Len(frame(m)) /\ Len(wire) = e + cut + d
          /\ \A j \in 1..cut : wire[e + j] = frame(m)[j]
          /\ \A j \in 1..d : wire[e + cut + j] = CloseBytes[j]
      BY <1>4, <1>e DEF CutOff, CutOn
    <2>2. ASSUME NEW j \in 1..cut PROVE wire'[e + j] = frame(m)[j]
      <3>1. e + j \in 1..Len(wire)
        BY <1>9, <2>1
      <3> QED
        BY <1>7, <2>1, <3>1 DEF Grows
    <2>3. ASSUME NEW j \in 1..(d + 1) PROVE wire'[e + cut + j] = CloseBytes[j]
      <3>1. CASE j = d + 1
        <4>1. e + cut + j = Len(wire) + 1 /\ 1 \in 1..Len(rest)
          BY <1>5, <1>9, <2>1, <3>1
        <4> QED
          BY <1>5, <1>7, <3>1, <4>1
      <3>2. CASE j # d + 1
        <4>1. j \in 1..d /\ e + cut + j \in 1..Len(wire)
          BY <1>5, <1>9, <2>1, <3>2
        <4> QED
          BY <1>7, <2>1, <4>1 DEF Grows
      <3> QED
        BY <3>1, <3>2
    <2>4. Len(wire') = e + cut + (d + 1)
      BY <1>7, <1>9, <2>1
    <2> QED
      BY <2>1, <2>2, <2>3, <2>4 DEF CutOff, CutOn
  <1>12. CutOff(off[Len(sent) + 1], m, cut, d + 1)'
    BY <1>11, <1>e, <1>w
  <1> QED
    BY <1>5, <1>10, <1>12

\* Another byte of the CloseSession, or its last.
LEMMA CloseBytePreserves ==
    ASSUME FramesInv, closeByte
    PROVE  FramesInv'
  <1>1. BytesTypeOK
    BY DEF FramesInv
  <1>2. PICK off : \E m \in Sendable, cut \in Nat, d \in 0..8 : Framed(off, m, cut, d)
    BY DEF FramesInv
  <1>3. PICK m \in Sendable, cut \in Nat, d \in 0..8 : Framed(off, m, cut, d)
    BY <1>2
  <1>4. Laid(off) /\ CutOff(off[Len(sent) + 1], m, cut, d)
    BY <1>3 DEF Framed, Written
  <1>5. /\ Len(rest) = 8 - d /\ d \in 0..7
        /\ \A j \in 1..Len(rest) : rest[j] = CloseBytes[d + j]
        /\ sending # NoMessage => sending = m
        /\ sending = NoMessage => cut = 0
    BY <1>3 DEF Framed, Written, closeByte
  <1>6. rest # <<>>
    BY <1>5
  <1>w. /\ wire' = Append(wire, Head(rest)) /\ rest' = Tail(rest)
        /\ sent' = sent /\ UNCHANGED readerVars
        /\ \/ Len(rest) > 1 /\ hostEnd' = "closing" /\ sending' = sending
           \/ ~(Len(rest) > 1) /\ hostEnd' = "closed" /\ sending' = NoMessage
    BY DEF closeByte
  <1>7. /\ wire' \in Seq(Byte) /\ Len(wire') = Len(wire) + 1
        /\ wire'[Len(wire) + 1] = rest[1] /\ Grows
        /\ rest' \in Seq(Byte) /\ Len(rest') = Len(rest) - 1
        /\ \A i \in 1..Len(rest') : rest'[i] = rest[i + 1]
    BY <1>1, <1>6, <1>w, ByteWritten
  <1>8. BytesTypeOK'
    BY <1>1, <1>7, <1>w DEF BytesTypeOK, readerVars
  <1>9. Len(sent) \in Nat /\ Len(wire) \in Nat
    BY <1>1, LenProperties DEF BytesTypeOK
  <1>10. Laid(off)' /\ CutOff(off[Len(sent) + 1], m, cut, d + 1)'
    BY <1>1, <1>3, CloseByteWritten DEF Framed
  <1>12. /\ Len(rest') = 8 - (d + 1)
         /\ \A j \in 1..Len(rest') : rest'[j] = CloseBytes[(d + 1) + j]
    <2>1. ASSUME NEW j \in 1..Len(rest') PROVE rest'[j] = CloseBytes[(d + 1) + j]
      <3>1. j + 1 \in 1..Len(rest) /\ d + (j + 1) = (d + 1) + j
        BY <1>5, <1>7
      <3> QED
        BY <1>5, <1>7, <3>1
    <2> QED
      BY <1>5, <1>7, <2>1
  <1>13. Written(off, m, cut, d + 1)'
    <2>1. Len(rest) > 1 => d + 1 < 8
      BY <1>5
    <2> QED
      BY <1>5, <1>10, <1>12, <1>w, <2>1 DEF Written
  <1>14. ReadingSent(off) => ReadingSent(off)'
    <2>1. /\ Len(sent') \in Nat /\ Len(sent) <= Len(sent')
          /\ \A i \in 1..Len(sent) : sent'[i] = sent[i]
      BY <1>9, <1>w
    <2> QED
      BY <1>1, <1>4, <1>7, <1>w, <2>1, ReadingGrows
  <1>15. ReadClosing => ReadClosing'
    BY <1>w DEF ReadClosing, readerVars
  <1>16. ReadMixture(off, m, cut, d) => ReadMixture(off, m, cut, d + 1)'
    <2> SUFFICES ASSUME ReadMixture(off, m, cut, d)
                 PROVE  ReadMixture(off, m, cut, d + 1)'
      OBVIOUS
    <2>1. Len(frame(m)) \in Nat
      BY FrameBytes
    <2>2. Len(frame(m)) <= cut + (d + 1)
      BY <1>5, <2>1 DEF ReadMixture
    <2>3. reader = "body" => taken <= Len(wire')
      BY <1>1, <1>7, <1>9 DEF ReadMixture, BytesTypeOK
    <2> QED
      BY <1>w, <2>2, <2>3 DEF ReadMixture, Mixture, readerVars
  <1>17. d + 1 \in 0..8 /\ Framed(off, m, cut, d + 1)'
    BY <1>3, <1>5, <1>13, <1>14, <1>15, <1>16 DEF Framed
  <1> QED
    BY <1>8, <1>17, Zenon DEF FramesInv

\* The socket closes behind whatever byte.
LEMMA ExitPreserves ==
    ASSUME FramesInv, exit
    PROVE  FramesInv'
  <1> USE DEF exit
  <1>1. BytesTypeOK /\ BytesTypeOK'
    BY EmptySeq DEF FramesInv, BytesTypeOK, readerVars
  <1>2. PICK off : \E m \in Sendable, cut \in Nat, d \in 0..8 : Framed(off, m, cut, d)
    BY DEF FramesInv
  <1>3. PICK m \in Sendable, cut \in Nat, d \in 0..8 : Framed(off, m, cut, d)
    BY <1>2
  <1>4. Laid(off) /\ CutOff(off[Len(sent) + 1], m, cut, d)
    BY <1>3 DEF Framed, Written
  <1>5. Written(off, m, cut, d)'
    <2>1. Laid(off)' /\ CutOff(off[Len(sent) + 1], m, cut, d)'
      BY <1>1, <1>4, WireKept
    <2> QED
      BY <2>1 DEF Written
  <1>6. (ReadingSent(off) \/ ReadClosing \/ ReadMixture(off, m, cut, d))'
    BY <1>1, <1>3, <1>4, WireKept DEF Framed
  <1> QED
    BY <1>1, <1>5, <1>6 DEF FramesInv, Framed

-----------------------------------------------------------------------------
\* The reader's steps.

\* The length that is read where a mixture was: bytes of the CloseSession.
LEMMA MixtureLength ==
    ASSUME NEW w \in Seq(Byte), NEW e \in Nat, NEW m \in Sendable, NEW cut \in Nat,
           NEW d \in 0..8,
           CutOn(w, e, m, cut, d), e + Len(frame(m)) + 4 <= Len(w)
    PROVE  LET a == e + Len(frame(m))
               n == fromBytes(SubSeq(w, a + 1, a + 4))
           IN  n \in Nat /\ 256 <= n /\ n <= Longest
  <1> DEFINE f == Len(frame(m))
             a == e + f
             n == fromBytes(SubSeq(w, a + 1, a + 4))
             c == f - cut
  <1>1. w \in Seq(Byte) /\ f \in Nat
    BY FrameBytes
  <1>2. /\ cut < f /\ Len(w) = e + cut + d
        /\ \A j \in 1..d : w[e + cut + j] = CloseBytes[j]
    BY DEF CutOn
  <1> HIDE DEF f
  <1>3. c \in 1..4 /\ c + 4 <= d
    <2>1. e + f + 4 <= e + cut + d
      BY <1>2 DEF f
    <2>2. cut < f
      BY <1>2
    <2> QED
      BY <1>1, <2>1, <2>2
  <1>4. ASSUME NEW i \in 1..4 PROVE w[a + i] = CloseBytes[c + i]
    <2>1. c + i \in 1..d /\ a + i = e + cut + (c + i)
      BY <1>1, <1>3
    <2> QED
      BY <1>2, <2>1
  <1>5. a \in Nat /\ a + 4 <= Len(w)
    BY <1>1, <1>2 DEF f
  <1> HIDE DEF a, c
  <1>6. /\ n = Base256(w[a + 1], w[a + 2], w[a + 3], w[a + 4])
        /\ n \in Nat
    BY <1>1, <1>5, Word
  <1>7. /\ w[a + 1] = CloseBytes[c + 1] /\ w[a + 2] = CloseBytes[c + 2]
        /\ w[a + 3] = CloseBytes[c + 3] /\ w[a + 4] = CloseBytes[c + 4]
    BY <1>4
  <1> HIDE DEF n
  <1>8. 256 <= n /\ n <= Longest
    <2>1. CASE c = 1
      <3>1. /\ w[a + 1] = 0 /\ w[a + 2] = 0
            /\ w[a + 3] = 4 /\ w[a + 4] = 6
        BY <1>7, <2>1 DEF CloseBytes
      <3> QED
        BY <1>6, <3>1, SMT DEF Longest, Base256
    <2>2. CASE c = 2
      <3>1. /\ w[a + 1] = 0 /\ w[a + 2] = 4
            /\ w[a + 3] = 6 /\ w[a + 4] = 0
        BY <1>7, <2>2 DEF CloseBytes
      <3> QED
        BY <1>6, <3>1, SMT DEF Longest, Base256
    <2>3. CASE c = 3
      <3>1. /\ w[a + 1] = 4 /\ w[a + 2] = 6
            /\ w[a + 3] = 0 /\ w[a + 4] = 0
        BY <1>7, <2>3 DEF CloseBytes
      <3> QED
        BY <1>6, <3>1, SMT DEF Longest, Base256
    <2>4. CASE c = 4
      <3>1. /\ w[a + 1] = 6 /\ w[a + 2] = 0
            /\ w[a + 3] = 0 /\ w[a + 4] = 0
        BY <1>7, <2>4 DEF CloseBytes
      <3> QED
        BY <1>6, <3>1, SMT DEF Longest, Base256
    <2> QED
      BY <1>3, <2>1, <2>2, <2>3, <2>4 DEF c
  <1> QED
    BY <1>6, <1>8 DEF n, a, f

\* A reader at a frame reads its length; behind a mixture, bytes of the CloseSession.
LEMMA ReadLengthPreserves ==
    ASSUME FramesInv, readLength
    PROVE  FramesInv'
  <1>1. BytesTypeOK
    BY DEF FramesInv
  <1>2. PICK off : \E m \in Sendable, cut \in Nat, d \in 0..8 : Framed(off, m, cut, d)
    BY DEF FramesInv
  <1>3. PICK m \in Sendable, cut \in Nat, d \in 0..8 : Framed(off, m, cut, d)
    BY <1>2
  <1>4. Laid(off) /\ CutOff(off[Len(sent) + 1], m, cut, d)
    BY <1>3 DEF Framed, Written
  <1>5. /\ wire \in Seq(Byte) /\ taken \in Nat /\ Len(wire) \in Nat /\ Len(read) \in Nat
        /\ off[Len(sent) + 1] \in Nat
    BY <1>1, <1>4, End DEF BytesTypeOK
  <1>w. /\ reader = "length" /\ reader' = "body" /\ taken' = taken + 4
        /\ taken + 4 <= Len(wire)
        /\ need' = fromBytes(SubSeq(wire, taken + 1, taken + 4))
        /\ UNCHANGED <<writerVars, read>>
    BY <1>5 DEF readLength, available
  <1>6. BytesTypeOK'
    <2>1. need' \in Nat
      BY <1>5, <1>w, Word
    <2> QED
      BY <1>1, <1>5, <1>w, <2>1 DEF BytesTypeOK, writerVars
  <1>7. Written(off, m, cut, d)'
    BY <1>3, <1>w DEF Framed, Written, Laid, LaidOn, CutOff, CutOn, writerVars
  <1>8. ReadingSent(off) => ReadingSent(off)'
    BY <1>5, <1>w DEF ReadingSent, writerVars
  <1>9. ~ReadClosing
    BY <1>w DEF ReadClosing
  <1>10. ReadMixture(off, m, cut, d) => ReadMixture(off, m, cut, d)'
    <2> SUFFICES ASSUME ReadMixture(off, m, cut, d)
                 PROVE  ReadMixture(off, m, cut, d)'
      OBVIOUS
    <2>1. taken = off[Len(sent) + 1] + Len(frame(m))
      BY <1>w DEF ReadMixture
    <2>2. 256 <= need' /\ need' <= Longest
      <3>1. CutOn(wire, off[Len(sent) + 1], m, cut, d)
        BY <1>4 DEF CutOff
      <3> QED
        BY <1>1, <1>5, <1>w, <2>1, <3>1, MixtureLength
    <2> QED
      BY <1>w, <2>1, <2>2 DEF ReadMixture, Mixture, writerVars
  <1>11. Framed(off, m, cut, d)'
    BY <1>3, <1>7, <1>8, <1>9, <1>10 DEF Framed
  <1> QED
    BY <1>6, <1>11 DEF FramesInv

\* The error of read_exact is unwrapped.
LEMMA ReadEofPreserves ==
    ASSUME FramesInv, readEof
    PROVE  FramesInv'
  <1> USE DEF readEof
  <1>1. BytesTypeOK /\ BytesTypeOK'
    BY DEF FramesInv, BytesTypeOK, writerVars
  <1>2. PICK off : \E m \in Sendable, cut \in Nat, d \in 0..8 : Framed(off, m, cut, d)
    BY DEF FramesInv
  <1>3. PICK m \in Sendable, cut \in Nat, d \in 0..8 : Framed(off, m, cut, d)
    BY <1>2
  <1>4. Written(off, m, cut, d)'
    BY <1>3 DEF Framed, Written, Laid, LaidOn, CutOff, CutOn, writerVars
  <1>5. ReadingSent(off) => ReadingSent(off)'
    BY DEF ReadingSent, writerVars
  <1>6. ~ReadClosing
    BY DEF ReadClosing
  <1>7. ReadMixture(off, m, cut, d) => ReadMixture(off, m, cut, d)'
    BY DEF ReadMixture, Mixture, writerVars
  <1>8. Framed(off, m, cut, d)'
    BY <1>3, <1>4, <1>5, <1>6, <1>7 DEF Framed
  <1> QED
    BY <1>1, <1>8 DEF FramesInv

\* The body of a message that was sent.
LEMMA BodyOfSent ==
    ASSUME BytesTypeOK, NEW off, Laid(off), ReadingSent(off), reader = "body",
           Len(read) < Len(sent)
    PROVE  /\ deserialize(SubSeq(wire, taken + 1, taken + need)) = sent[Len(read) + 1]
           /\ taken + need = off[Len(read) + 2]
           /\ need = Len(serialize(sent[Len(read) + 1]))
           /\ Len(read) + 1 \in 1..Len(sent) /\ sent[Len(read) + 1] \in Sendable
  <1>n. PICK n : n = Len(read) + 1
    OBVIOUS
  <1>1. /\ n \in 1..Len(sent) /\ Len(read) + 2 = n + 1 /\ Len(read) \in Nat
        /\ Len(sent) \in Nat /\ Len(wire) \in Nat
    BY <1>n, End
  <1>a. PICK a : a = off[n]
    OBVIOUS
  <1>m. PICK m : m = sent[n]
    OBVIOUS
  <1>2. m \in Sendable
    BY <1>1, <1>m, ElementOfSeq DEF BytesTypeOK
  <1>3. n \in 1..(Len(sent) + 1)
    BY <1>1
  <1>4. /\ a \in Nat /\ off[n + 1] = a + Len(frame(m)) /\ off[n + 1] <= Len(wire)
        /\ \A j \in 1..Len(frame(m)) : wire[a + j] = frame(m)[j]
    BY <1>1, <1>3, <1>a, <1>m DEF Laid, LaidOn
  <1>5. /\ wire \in Seq(Byte) /\ taken = a + 4
        /\ need = fromBytes(SubSeq(wire, a + 1, a + 4))
    BY <1>n, <1>a DEF BytesTypeOK, ReadingSent
  <1>6. Len(serialize(m)) \in Nat /\ Len(frame(m)) = 4 + Len(serialize(m))
    BY <1>2, FrameBytes
  <1>7. need = Len(serialize(m))
    <2>1. /\ a + 4 <= Len(wire)
          /\ \A j \in 1..4 : wire[a + j] = frame(m)[j]
      BY <1>1, <1>4, <1>6
    <2> QED
      BY <1>2, <1>4, <1>5, <2>1, FrameLength
  <1>8. deserialize(SubSeq(wire, taken + 1, taken + need)) = m
    <2>1. a + Len(frame(m)) <= Len(wire)
      BY <1>4
    <2>2. deserialize(SubSeq(wire, a + 4 + 1, a + 4 + Len(serialize(m)))) = m
      BY <1>2, <1>4, <1>5, <2>1, FrameBody
    <2> QED
      BY <1>5, <1>7, <2>2
  <1>9. taken + need = off[n + 1]
    <2>1. off[n + 1] = a + Len(frame(m))
      BY <1>4
    <2>2. taken = a + 4 /\ a \in Nat
      BY <1>4, <1>5
    <2>3. need \in Nat /\ Len(frame(m)) = 4 + need
      BY <1>6, <1>7
    <2>4. (a + 4) + need = a + (4 + need)
      BY <2>2, <2>3
    <2> QED
      BY <2>1, <2>2, <2>3, <2>4
  <1> QED
    BY <1>1, <1>2, <1>7, <1>8, <1>9, <1>n, <1>m

\* A frame of 4 + n bytes behind the first e of e + cut + d, the last c of which
\* are not its own; what its body has of each.
Straddles(e, n, cut, d, c) ==
    c = (4 + n) - cut /\ 4 <= cut /\ cut < 4 + n /\ (e + 4) + n <= e + cut + d

Own(e, n, cut, c) ==
    \A i \in 1..(n - c) : i \in 1..n /\ 4 + i \in 1..cut /\ (e + 4) + i = e + (4 + i)

Others(e, n, cut, d, c) ==
    \A i \in 1..c : /\ n - c + i \in 1..n /\ i \in 1..d
                   /\ (e + 4) + (n - c + i) = e + cut + i

\* The places of both are in the body, and on the wire.
LEMMA Overwriting ==
    \A e, n, cut \in Nat, d \in 0..8 : \A c :
        Straddles(e, n, cut, d, c) =>
            /\ c \in 1..8 /\ c <= n /\ c <= d /\ 4 + n <= cut + d
            /\ Own(e, n, cut, c) /\ Others(e, n, cut, d, c)
  BY DEF Straddles, Own, Others

\* Behind the first e bytes of w is a length, size, and as many bytes behind at.
Whole(w, e, at, size) ==
    /\ at = e + 4 /\ at <= Len(w) /\ at + size <= Len(w)
    /\ size = fromBytes(SubSeq(w, e + 1, e + 4))

\* What follows the frames sent: a CloseSession, or what a frame that was cut makes
\* with it.
LEMMA BodyBehindSent ==
    ASSUME NEW w \in Seq(Byte), NEW e \in Nat, NEW m \in Sendable, NEW cut \in Nat,
           NEW d \in 0..8, CutOn(w, e, m, cut, d),
           NEW at \in Nat, NEW size \in Nat, Whole(w, e, at, size)
    PROVE  LET x == deserialize(SubSeq(w, at + 1, at + size)) IN
           \/ x = Malformed
           \/ x = CloseSession /\ d > 0
           \/ /\ 0 < cut /\ d > 0 /\ Len(frame(m)) <= cut + d
              /\ x # CloseSession /\ Mixture(m, x)
              /\ at + size = e + Len(frame(m))
  <1>f. PICK f : f = Len(frame(m))
    OBVIOUS
  <1>b. PICK body : body = SubSeq(w, at + 1, at + size)
    OBVIOUS
  <1>0. at = e + 4 /\ at <= Len(w) /\ at + size <= Len(w)
    BY DEF Whole
  <1>l. size = fromBytes(SubSeq(w, e + 1, e + 4))
    BY DEF Whole
  <1>1. /\ w \in Seq(Byte) /\ size \in Nat /\ at \in Nat /\ Len(w) \in Nat
    BY LenProperties
  <1>2. /\ cut < f /\ Len(w) = e + cut + d
        /\ \A j \in 1..cut : w[e + j] = frame(m)[j]
        /\ \A j \in 1..d : w[e + cut + j] = CloseBytes[j]
    BY <1>f DEF CutOn
  <1>3. /\ Len(serialize(m)) \in Nat /\ Len(serialize(m)) >= 4
        /\ f = 4 + Len(serialize(m))
        /\ \A i \in 1..Len(serialize(m)) : frame(m)[4 + i] = serialize(m)[i]
    BY <1>f, FrameBytes
  <1>4. /\ body \in Seq(Byte) /\ Len(body) = size
        /\ \A i \in 1..size : body[i] = w[at + i]
    <2>1. at + size <= Len(w)
      BY <1>0
    <2>2. /\ SubSeq(w, at + 1, at + size) \in Seq(Byte)
          /\ Len(SubSeq(w, at + 1, at + size)) = size
          /\ \A i \in 1..size :
                SubSeq(w, at + 1, at + size)[i] = w[at + i]
      BY <1>1, <2>1, Slice
    <2> QED
      BY <1>b, <2>2, Zenon
  <1>5. cut + d >= 4 /\ e + 4 <= Len(w)
    <2>1. Len(w) = e + cut + d /\ at = e + 4 /\ at <= Len(w)
      BY <1>0, <1>2
    <2> QED
      BY <2>1
  <1>6. CASE cut = 0
    <2>1. frame(CloseSession) = CloseBytes /\ Len(CloseBytes) = 8
      BY CloseFrame DEF CloseBytes
    <2>2. \A j \in 1..d : w[e + j] = frame(CloseSession)[j]
      BY <1>2, <1>6, <2>1
    <2>3. Len(serialize(CloseSession)) = 4
      BY PlainMessages DEF CloseSession, PlainType
    <2>4. size = 4
      <3>1. \A j \in 1..4 : w[e + j] = frame(CloseSession)[j]
        BY <1>5, <1>6, <2>2
      <3> QED
        BY <1>1, <1>5, <1>l, <2>3, <3>1, FrameLength
    <2>5. d = 8
      <3>1. Len(w) = e + cut + d /\ at = e + 4 /\ at + size <= Len(w)
        BY <1>0, <1>2
      <3> QED
        BY <1>6, <2>4, <3>1
    <2>6. deserialize(SubSeq(w, e + 4 + 1, e + 4 + Len(serialize(CloseSession))))
             = CloseSession
      <3>1. /\ e + Len(frame(CloseSession)) <= Len(w)
            /\ \A j \in 1..Len(frame(CloseSession)) : w[e + j] = frame(CloseSession)[j]
        BY <1>2, <1>6, <2>1, <2>2, <2>5
      <3> QED
        BY <1>1, <3>1, FrameBody
    <2> QED
      BY <1>0, <2>3, <2>4, <2>5, <2>6
  <1>7. CASE cut \in 1..3
    <2>1. \A j \in 1..(4 - cut) : w[e + cut + j] = CloseBytes[j]
      <3>1. \A j \in 1..(4 - cut) : j \in 1..d
        BY <1>5, <1>7
      <3> QED
        BY <1>2, <3>1, Zenon
    <2>2. size = 0 \/ size >= 256
      <3>1. /\ w \in Seq(Byte) /\ e + 4 <= Len(w)
            /\ \A j \in 1..cut : w[e + j] = frame(m)[j]
        BY <1>1, <1>2, <1>5
      <3> QED
        BY <1>7, <1>l, <2>1, <3>1, FrameLengthCut
    <2>3. size < 256
      <3>1. Len(w) = e + cut + d /\ at = e + 4 /\ at + size <= Len(w)
        BY <1>0, <1>2
      <3>2. size \in Nat /\ cut \in 1..3 /\ d \in 0..8
        BY <1>1, <1>7
      <3> QED
        BY <3>1, <3>2
    <2>4. Len(body) = 0
      BY <1>1, <1>4, <2>2, <2>3
    <2>5. Len(body) < 12 /\ ~(Len(body) >= 4)
      BY <2>4
    <2>6. deserialize(body) = Malformed
      BY <1>4, <2>5, Garbled
    <2> QED
      BY <1>b, <2>6
  <1>8. CASE cut >= 4
    <2>1. size = Len(serialize(m))
      <3>1. \A j \in 1..4 : w[e + j] = frame(m)[j]
        BY <1>2, <1>8
      <3> QED
        BY <1>1, <1>5, <1>l, <3>1, FrameLength
    <2>c. PICK c : c = f - cut
      OBVIOUS
    <2>n. /\ f = 4 + size /\ at = e + 4 /\ Len(body) = size
          /\ cut < f /\ Len(w) = e + cut + d /\ at + size <= Len(w)
      BY <1>0, <1>2, <1>3, <1>4, <2>1
    <2>o. Straddles(e, size, cut, d, c)
      <3>1. c = (4 + size) - cut
        BY <2>n, <2>c
      <3>2. 4 <= cut
        BY <1>8
      <3>3. cut < 4 + size
        BY <2>n
      <3>4. (e + 4) + size <= e + cut + d
        BY <2>n
      <3> QED
        BY <3>1, <3>2, <3>3, <3>4 DEF Straddles
    <2>p. /\ c \in 1..8 /\ c <= size /\ c <= d /\ 4 + size <= cut + d
          /\ Own(e, size, cut, c) /\ Others(e, size, cut, d, c)
      BY <1>1, <2>o, Overwriting, Zenon
    <2>2. c \in 1..8 /\ c <= size /\ c <= d /\ f <= cut + d
      BY <2>n, <2>p
    <2>a. /\ \A i \in 1..(Len(body) - c) : /\ i \in 1..size /\ 4 + i \in 1..cut
                                          /\ at + i = e + (4 + i)
          /\ \A i \in 1..c : /\ Len(body) - c + i \in 1..size /\ i \in 1..d
                            /\ at + (Len(body) - c + i) = e + cut + i
      BY <2>n, <2>p, Zenon DEF Own, Others
    <2>3. ASSUME NEW i \in 1..(Len(body) - c) PROVE body[i] = serialize(m)[i]
      <3>1. /\ i \in 1..size /\ 4 + i \in 1..cut /\ at + i = e + (4 + i)
        BY <2>a
      <3>2. body[i] = frame(m)[4 + i]
        BY <1>2, <1>4, <3>1
      <3> QED
        BY <1>3, <2>1, <3>1, <3>2
    <2>4. ASSUME NEW i \in 1..c PROVE body[Len(body) - c + i] = CloseBytes[i]
      <3>1. /\ Len(body) - c + i \in 1..size /\ i \in 1..d
            /\ at + (Len(body) - c + i) = e + cut + i
        BY <2>a
      <3> QED
        BY <1>2, <1>4, <3>1
    <2>5. m \in Message
      BY DEF Sendable
    <2>6. \/ deserialize(body) = Malformed
          \/ /\ deserialize(body) # CloseSession
             /\ Mixture(m, deserialize(body))
      BY <1>4, <2>1, <2>2, <2>3, <2>4, <2>5, MixedBody
    <2>7. at + size = e + f
      BY <1>0, <1>3, <2>1
    <2> QED
      BY <1>8, <1>b, <1>f, <2>2, <2>6, <2>7
  <1> QED
    BY <1>6, <1>7, <1>8

\* A body that is whole is that of the next message sent, of the CloseSession, or of the
\* one mixture; behind that there is none.
LEMMA ReadBodyPreserves ==
    ASSUME FramesInv, readBody
    PROVE  FramesInv'
  <1>1. BytesTypeOK
    BY DEF FramesInv
  <1>2. PICK off : \E m \in Sendable, cut \in Nat, d \in 0..8 : Framed(off, m, cut, d)
    BY DEF FramesInv
  <1>3. PICK m \in Sendable, cut \in Nat, d \in 0..8 : Framed(off, m, cut, d)
    BY <1>2
  <1>4. Laid(off) /\ CutOff(off[Len(sent) + 1], m, cut, d)
    BY <1>3 DEF Framed, Written
  <1>e. PICK e : e = off[Len(sent) + 1]
    OBVIOUS
  <1>5. /\ wire \in Seq(Byte) /\ taken \in Nat /\ need \in Nat /\ Len(wire) \in Nat
        /\ Len(read) \in Nat /\ Len(sent) \in Nat /\ e \in Nat
    BY <1>1, <1>4, <1>e, End DEF BytesTypeOK
  <1>x. PICK x : x = deserialize(SubSeq(wire, taken + 1, taken + need))
    OBVIOUS
  <1>w. /\ reader = "body" /\ taken + need <= Len(wire)
        /\ taken' = taken + need /\ need' = 0 /\ UNCHANGED writerVars
        /\ \/ x = Malformed /\ reader' = "panicked" /\ read' = read
           \/ /\ x # Malformed /\ read' = Append(read, x)
              /\ reader' = IF x = CloseSession THEN "ended" ELSE "length"
    BY <1>5, <1>x DEF readBody, available
  <1>6. x \in Readable \cup {Malformed}
    <2>1. SubSeq(wire, taken + 1, taken + need) \in Seq(Byte)
      BY <1>5, <1>w, Slice
    <2> QED
      BY <1>x, <2>1, Deserialized
  <1>7. BytesTypeOK'
    <2>1. read \in Seq(Readable)
      BY <1>1 DEF BytesTypeOK
    <2>2. read' \in Seq(Readable)
      BY <1>6, <1>w, <2>1, AppendProperties
    <2>3. taken' \in Nat /\ need' \in Nat
      BY <1>5, <1>w
    <2>4. reader' \in {"length", "body", "ended", "panicked"}
      BY <1>w
    <2> QED
      BY <1>1, <1>w, <2>2, <2>3, <2>4 DEF BytesTypeOK, writerVars
  <1>8. Written(off, m, cut, d)'
    BY <1>3, <1>w DEF Framed, Written, Laid, LaidOn, CutOff, CutOn, writerVars
  <1>9. ASSUME read' = Append(read, x)
        PROVE  /\ Len(read') = Len(read) + 1 /\ read'[Len(read) + 1] = x
               /\ \A i \in 1..Len(read) : read'[i] = read[i]
    <2>1. read \in Seq(Readable \cup {Malformed})
      BY <1>1 DEF BytesTypeOK
    <2> QED
      BY <1>6, <1>9, <2>1, AppendProperties
  <1>10. ASSUME ReadingSent(off), Len(read) < Len(sent) PROVE ReadingSent(off)'
    <2>1. /\ x = sent[Len(read) + 1] /\ taken + need = off[Len(read) + 2]
          /\ x \in Sendable
      BY <1>1, <1>4, <1>w, <1>x, <1>10, BodyOfSent
    <2>2. x # Malformed /\ x # CloseSession
      BY <2>1, NotClosing DEF Sendable
    <2>3. read' = Append(read, x) /\ reader' = "length"
      BY <1>w, <2>2
    <2>4. Len(read') = Len(read) + 1 /\ Len(read') <= Len(sent)
      BY <1>5, <1>9, <1>10, <2>3
    <2>5. ASSUME NEW i \in 1..Len(read') PROVE read'[i] = sent[i]
      <3>1. CASE i \in 1..Len(read)
        BY <1>9, <1>10, <2>3, <3>1 DEF ReadingSent
      <3>2. CASE i = Len(read) + 1
        BY <1>9, <2>1, <2>3, <3>2
      <3> QED
        BY <1>5, <2>4, <3>1, <3>2
    <2>6. Len(read') + 1 = Len(read) + 2
      BY <1>5, <2>4
    <2>7. taken' = off[Len(read') + 1]
      BY <1>w, <2>1, <2>6
    <2> QED
      BY <1>w, <2>3, <2>4, <2>5, <2>7 DEF ReadingSent, writerVars
  <1>11. ASSUME ReadingSent(off), Len(read) = Len(sent)
         PROVE  (ReadingSent(off) \/ ReadClosing \/ ReadMixture(off, m, cut, d))'
    <2>1. /\ taken = e + 4 /\ taken <= Len(wire)
          /\ need = fromBytes(SubSeq(wire, e + 1, e + 4))
      BY <1>e, <1>w, <1>11 DEF ReadingSent
    <2>2. \/ x = Malformed
          \/ x = CloseSession /\ d > 0
          \/ /\ 0 < cut /\ d > 0 /\ Len(frame(m)) <= cut + d
             /\ x # CloseSession /\ Mixture(m, x)
             /\ taken + need = e + Len(frame(m))
      <3>1. CutOn(wire, e, m, cut, d)
        BY <1>4, <1>e DEF CutOff
      <3>2. Whole(wire, e, taken, need)
        BY <1>w, <2>1 DEF Whole
      <3>3. LET y == deserialize(SubSeq(wire, taken + 1, taken + need)) IN
            \/ y = Malformed
            \/ y = CloseSession /\ d > 0
            \/ /\ 0 < cut /\ d > 0 /\ Len(frame(m)) <= cut + d
               /\ y # CloseSession /\ Mixture(m, y)
               /\ taken + need = e + Len(frame(m))
        BY <1>5, <3>1, <3>2, BodyBehindSent
      <3> QED
        BY <1>x, <3>3, Zenon
    <2>3. d > 0 => hostEnd' \in {"closing", "closed"}
      BY <1>3, <1>w DEF Framed, Written, writerVars
    <2>4. sent' = sent /\ wire' = wire
      BY <1>w DEF writerVars
    <2>5. CASE x = Malformed
      BY <1>w, <1>11, <2>4, <2>5 DEF ReadingSent
    <2>6. CASE x = CloseSession /\ d > 0
      <3>1. x # Malformed
        BY <2>6 DEF CloseSession, Malformed, Plain
      <3>2. read = sent
        <4>1. \A i \in 1..Len(read) : read[i] = sent[i]
          BY <1>11 DEF ReadingSent
        <4>2. read \in Seq(Readable) /\ sent \in Seq(Sendable)
          BY <1>1 DEF BytesTypeOK
        <4>3. Seq(Readable) \subseteq Seq(Readable \cup Sendable)
              /\ Seq(Sendable) \subseteq Seq(Readable \cup Sendable)
          OBVIOUS
        <4> QED
          BY <1>11, <4>1, <4>2, <4>3, SeqEqual
      <3> QED
        BY <1>w, <2>3, <2>4, <2>6, <3>1, <3>2 DEF ReadClosing
    <2>7. CASE /\ 0 < cut /\ d > 0 /\ Len(frame(m)) <= cut + d
               /\ x # CloseSession /\ x # Malformed /\ Mixture(m, x)
               /\ taken + need = e + Len(frame(m))
      <3>1. read' = Append(read, x) /\ reader' = "length"
        BY <1>w, <2>7
      <3>2. Len(read') = Len(sent') + 1 /\ read'[Len(read')] = x
        BY <1>9, <1>11, <2>4, <3>1
      <3>3. \A i \in 1..Len(sent') : read'[i] = sent'[i]
        BY <1>9, <1>11, <2>4, <3>1 DEF ReadingSent
      <3>4. Mixture(m, read'[Len(read')])
        BY <2>7, <3>2
      <3>5. taken' = off[Len(sent') + 1] + Len(frame(m))
        BY <1>e, <1>w, <2>4, <2>7
      <3> QED
        BY <1>w, <2>3, <2>7, <3>1, <3>2, <3>3, <3>4, <3>5 DEF ReadMixture, Mixture
    <2> QED
      BY <2>2, <2>5, <2>6, <2>7
  <1>12. ~ReadClosing
    BY <1>w DEF ReadClosing
  <1>13. ASSUME ReadMixture(off, m, cut, d) PROVE FALSE
    <2>f. PICK f : f = Len(frame(m))
      OBVIOUS
    <2>1. taken = e + f + 4 /\ 256 <= need
      BY <1>13, <1>e, <1>w, <2>f DEF ReadMixture
    <2>2. cut < f /\ Len(wire) = e + cut + d
      BY <1>4, <1>e, <2>f DEF CutOff, CutOn
    <2>3. f \in Nat
      BY <2>f, FrameBytes
    <2>4. e + f + 4 + need <= e + cut + d
      BY <1>w, <2>1, <2>2
    <2> QED
      BY <1>5, <2>1, <2>2, <2>3, <2>4
  <1>14. Framed(off, m, cut, d)'
    <2>1. Len(read) < Len(sent) \/ Len(read) = Len(sent) \/ ~ReadingSent(off)
      BY <1>5 DEF ReadingSent
    <2> QED
      BY <1>3, <1>8, <1>10, <1>11, <1>12, <1>13, <2>1 DEF Framed
  <1> QED
    BY <1>7, <1>14 DEF FramesInv

\* Nothing happens.
LEMMA StutterPreserves ==
    ASSUME FramesInv, UNCHANGED frameVars
    PROVE  FramesInv'
  <1>1. /\ UNCHANGED <<wire, sent, readerVars>>
        /\ UNCHANGED <<hostEnd, rest, sending>>
    BY DEF frameVars, writerVars
  <1>2. BytesTypeOK /\ BytesTypeOK'
    BY <1>1 DEF FramesInv, BytesTypeOK, readerVars
  <1>3. PICK off : \E m \in Sendable, cut \in Nat, d \in 0..8 : Framed(off, m, cut, d)
    BY DEF FramesInv
  <1>4. PICK m \in Sendable, cut \in Nat, d \in 0..8 : Framed(off, m, cut, d)
    BY <1>3
  <1>5. Laid(off) /\ Written(off, m, cut, d)
    BY <1>4 DEF Framed, Written
  <1>6. Written(off, m, cut, d)'
    BY <1>1, <1>5 DEF Written, Laid, LaidOn, CutOff, CutOn
  <1>7. (ReadingSent(off) \/ ReadClosing \/ ReadMixture(off, m, cut, d))'
    BY <1>1, <1>2, <1>4, <1>5, WireKept DEF Framed, ReadClosing, ReadMixture
  <1> QED
    BY <1>2, <1>6, <1>7 DEF FramesInv, Framed

\* Every byte on the wire and every message read is accounted for: the frames sent, one
\* that was cut, the CloseSession behind it (communication.rs, stream.rs).
THEOREM FramesInvariant == FramesSpec => []FramesInv
  <1>1. FramesInv /\ [FramesNext]_frameVars => FramesInv'
    <2> SUFFICES ASSUME FramesInv, [FramesNext]_frameVars PROVE FramesInv'
      OBVIOUS
    <2>1. CASE open
      BY <2>1, OpenPreserves
    <2>2. CASE \E m \in Message : beginFrame(m)
      BY <2>2, BeginFramePreserves
    <2>3. CASE writeByte
      BY <2>3, WriteMorePreserves, WriteLastPreserves
    <2>4. CASE dropHost
      BY <2>4, DropHostPreserves
    <2>5. CASE beginClose
      BY <2>5, BeginClosePreserves
    <2>6. CASE closeByte
      BY <2>6, CloseBytePreserves
    <2>7. CASE exit
      BY <2>7, ExitPreserves
    <2>8. CASE readLength
      BY <2>8, ReadLengthPreserves
    <2>9. CASE readBody
      BY <2>9, ReadBodyPreserves
    <2>10. CASE readEof
      BY <2>10, ReadEofPreserves
    <2>11. CASE UNCHANGED frameVars
      BY <2>11, StutterPreserves
    <2> QED
      BY <2>1, <2>2, <2>3, <2>4, <2>5, <2>6, <2>7, <2>8, <2>9, <2>10, <2>11 DEF FramesNext
  <1> QED
    BY <1>1, InitEstablishes, PTL DEF FramesSpec

-----------------------------------------------------------------------------

\* A prefix, element by element.
LEMMA Prefix ==
    ASSUME NEW S, NEW s \in Seq(S), NEW t \in Seq(S), Len(s) <= Len(t),
           \A i \in 1..Len(s) : s[i] = t[i]
    PROVE  IsPrefix(s, t)
  <1> DEFINE n == Len(s)
             a == SubSeq(s, 1, n)
             b == SubSeq(t, 1, n)
  <1>1. n \in Nat /\ Len(t) \in Nat
    BY LenProperties
  <1>2. \A i \in 1..n : s[i] \in S /\ t[i] \in S
    BY <1>1, ElementOfSeq
  <1>3. /\ a \in Seq(S) /\ Len(a) = n /\ \A i \in 1..n : a[i] = s[i]
        /\ b \in Seq(S) /\ Len(b) = n /\ \A i \in 1..n : b[i] = t[i]
    BY <1>1, <1>2, SubSeqProperties
  <1> HIDE DEF a, b
  <1>4. a = b
    BY <1>3, SeqEqual
  <1> QED
    BY <1>4 DEF IsPrefix, a, b

\* One element behind a sequence.
LEMMA Appended ==
    ASSUME NEW S, NEW a \in Seq(S), NEW x \in S
    PROVE  /\ a \o <<x>> \in Seq(S) /\ Len(a \o <<x>>) = Len(a) + 1
           /\ \A i \in 1..Len(a) : (a \o <<x>>)[i] = a[i]
           /\ (a \o <<x>>)[Len(a) + 1] = x
  <1>b. PICK b : b = <<x>>
    OBVIOUS
  <1>1. b \in Seq(S) /\ Len(b) = 1 /\ b[1] = x
    BY <1>b
  <1>2. /\ a \o b \in Seq(S) /\ Len(a \o b) = Len(a) + Len(b)
        /\ \A i \in 1..Len(a) : (a \o b)[i] = a[i]
        /\ \A i \in 1..Len(b) : (a \o b)[Len(a) + i] = b[i]
    BY <1>1, Joined
  <1>3. 1 \in 1..Len(b)
    BY <1>1
  <1> QED
    BY <1>b, <1>1, <1>2, <1>3

\* One element more than a sequence.
LEMMA OneMore ==
    ASSUME NEW S, NEW s \in Seq(S), NEW t \in Seq(S), NEW x \in S,
           Len(t) = Len(s) + 1, t[Len(t)] = x, \A i \in 1..Len(s) : t[i] = s[i]
    PROVE  t = s \o <<x>>
  <1>n. PICK n : n = Len(s)
    OBVIOUS
  <1>a. PICK a : a = s \o <<x>>
    OBVIOUS
  <1>1. n \in Nat /\ Len(t) = n + 1
    BY <1>n, LenProperties
  <1>2. /\ a \in Seq(S) /\ Len(a) = n + 1 /\ a[n + 1] = x
        /\ \A i \in 1..n : a[i] = s[i]
    BY <1>n, <1>a, Appended
  <1>3. ASSUME NEW i \in 1..(n + 1) PROVE t[i] = a[i]
    <2>1. CASE i \in 1..n
      BY <1>n, <1>2, <2>1
    <2>2. CASE i = n + 1
      BY <1>1, <1>2, <2>2
    <2>3. i \in 1..n \/ i = n + 1
      BY <1>1
    <2> QED
      BY <2>1, <2>2, <2>3
  <1>4. t = a
    BY <1>1, <1>2, <1>3, SeqEqual
  <1> QED
    BY <1>4, <1>a

\* recv returns the messages that were sent, in order, and behind them, only when a send
\* was cut, one that VsockStream!Cut has.
THEOREM ReadsInOrder == FramesSpec => []ReadsWhatWasSent
  <1>1. FramesInv => ReadsWhatWasSent
    <2> SUFFICES ASSUME FramesInv PROVE ReadsWhatWasSent
      OBVIOUS
    <2>1. BytesTypeOK
      BY DEF FramesInv
    <2>2. PICK off : \E m \in Sendable, cut \in Nat, d \in 0..8 : Framed(off, m, cut, d)
      BY DEF FramesInv
    <2>3. PICK m \in Sendable, cut \in Nat, d \in 0..8 : Framed(off, m, cut, d)
      BY <2>2
    <2> DEFINE S == Readable \cup Sendable \cup {CloseSession}
               all == Append(sent, CloseSession)
    <2>4. read \in Seq(S) /\ sent \in Seq(S)
      BY <2>1 DEF BytesTypeOK
    <2>5. /\ Len(read) \in Nat /\ Len(sent) \in Nat
          /\ all \in Seq(S) /\ Len(all) = Len(sent) + 1
          /\ \A i \in 1..Len(sent) : all[i] = sent[i]
      BY <2>4, LenProperties, AppendProperties
    <2>6. CASE ReadingSent(off)
      <3>1. Len(read) <= Len(sent) /\ \A i \in 1..Len(read) : read[i] = sent[i]
        BY <2>6 DEF ReadingSent
      <3> HIDE DEF S, all
      <3>2. Len(read) <= Len(all) /\ \A i \in 1..Len(read) : read[i] = all[i]
        BY <2>5, <3>1
      <3>3. IsPrefix(read, all)
        BY <2>4, <2>5, <3>2, Prefix
      <3> QED
        BY <3>3 DEF ReadsWhatWasSent, all
    <2>7. CASE ReadClosing
      <3>1. read = all
        BY <2>7 DEF ReadClosing
      <3> QED
        BY <3>1 DEF ReadsWhatWasSent, IsPrefix
    <2>8. CASE ReadMixture(off, m, cut, d)
      <3>1. sending # NoMessage \/ hostEnd = "closed"
        BY <2>3, <2>8 DEF Framed, Written, ReadMixture
      <3>x. PICK x : x = read[Len(read)]
        OBVIOUS
      <3>2. /\ Len(read) = Len(sent) + 1 /\ \A i \in 1..Len(sent) : read[i] = sent[i]
            /\ <<x>> \in Stream!Cut(m)
        BY <2>8, <3>x DEF ReadMixture, Mixture
      <3> HIDE DEF S, all
      <3>3. read = sent \o <<x>>
        <4>1. Len(read) \in 1..Len(read)
          BY <2>5, <3>2
        <4>2. x \in S
          BY <2>4, <3>x, <4>1, ElementOfSeq
        <4> QED
          BY <2>4, <3>2, <3>x, <4>2, OneMore
      <3>4. IsPrefix(read, sent \o <<x>>)
        BY <3>3 DEF IsPrefix
      <3>5. m \in Message
        BY DEF Sendable
      <3> QED
        BY <3>1, <3>2, <3>4, <3>5 DEF ReadsWhatWasSent
    <2> QED
      BY <2>3, <2>6, <2>7, <2>8 DEF Framed
  <1> QED
    BY <1>1, FramesInvariant, PTL

\* A length read behind the messages sent is no longer than the message cut there.
LEMMA LengthBehindSent ==
    ASSUME BytesTypeOK, NEW e \in Nat, NEW m \in Sendable, NEW cut \in Nat, NEW d \in 0..8,
           CutOff(e, m, cut, d), e + 4 <= Len(wire),
           need = fromBytes(SubSeq(wire, e + 1, e + 4))
    PROVE  need <= Len(serialize(m))
  <1>1. wire \in Seq(Byte) /\ need \in Nat
    BY DEF BytesTypeOK
  <1>2. /\ Len(wire) = e + cut + d /\ cut < Len(frame(m))
        /\ \A j \in 1..cut : wire[e + j] = frame(m)[j]
        /\ \A j \in 1..d : wire[e + cut + j] = CloseBytes[j]
    BY DEF CutOff, CutOn
  <1>3. Len(serialize(m)) \in Nat /\ Len(serialize(m)) >= 4
    BY FrameBytes
  <1>4. cut + d >= 4
    BY <1>2
  <1>5. CASE cut = 0
    <2>1. \A j \in 1..4 : wire[e + j] = frame(CloseSession)[j]
      BY <1>2, <1>4, <1>5, CloseFrame
    <2>2. Len(serialize(CloseSession)) = 4
      BY PlainMessages DEF CloseSession, PlainType
    <2>3. need = 4
      BY <1>1, <2>1, <2>2, FrameLength
    <2> QED
      BY <1>3, <2>3
  <1>6. CASE cut \in 1..3
    <2>1. \A j \in 1..(4 - cut) : wire[e + cut + j] = CloseBytes[j]
      BY <1>2, <1>4, <1>6
    <2> QED
      BY <1>1, <1>2, <1>6, <2>1, FrameLengthCut
  <1>7. CASE cut >= 4
    <2>1. \A j \in 1..4 : wire[e + j] = frame(m)[j]
      BY <1>2, <1>7
    <2> QED
      BY <1>1, <1>3, <2>1, FrameLength
  <1> QED
    BY <1>5, <1>6, <1>7

\* The buffer that recv allocates before it has a body is never larger than the longest
\* message, or than what the last bytes of a CloseSession make of a length.
THEOREM BoundedAllocation == FramesSpec => []AllocationBounded
  <1>1. FramesInv => AllocationBounded
    <2> SUFFICES ASSUME FramesInv PROVE AllocationBounded
      OBVIOUS
    <2>1. BytesTypeOK
      BY DEF FramesInv
    <2>2. PICK off : \E m \in Sendable, cut \in Nat, d \in 0..8 : Framed(off, m, cut, d)
      BY DEF FramesInv
    <2>3. PICK m \in Sendable, cut \in Nat, d \in 0..8 : Framed(off, m, cut, d)
      BY <2>2
    <2>4. Laid(off) /\ CutOff(off[Len(sent) + 1], m, cut, d)
      BY <2>3 DEF Framed, Written
    <2>5. Len(sent) \in Nat /\ Len(read) \in Nat /\ off[Len(sent) + 1] \in Nat
      BY <2>1, <2>4, End
    <2>6. CASE need = 0
      BY <2>6 DEF AllocationBounded
    <2>7. ASSUME ReadingSent(off), reader = "body", Len(read) < Len(sent)
          PROVE  \E n \in Message : need <= Len(serialize(n))
      <3>1. /\ need = Len(serialize(sent[Len(read) + 1]))
            /\ sent[Len(read) + 1] \in Sendable
        BY <2>1, <2>4, <2>7, BodyOfSent
      <3>2. need \in Nat
        BY <2>1 DEF BytesTypeOK
      <3> QED
        BY <3>1, <3>2 DEF Sendable
    <2>8. ASSUME ReadingSent(off), reader = "body", Len(read) = Len(sent)
          PROVE  \E n \in Message : need <= Len(serialize(n))
      <3>e. PICK e : e = off[Len(sent) + 1]
        OBVIOUS
      <3>1. /\ e + 4 <= Len(wire)
            /\ need = fromBytes(SubSeq(wire, e + 1, e + 4))
        BY <2>8, <3>e DEF ReadingSent
      <3>2. need <= Len(serialize(m))
        BY <2>1, <2>4, <2>5, <3>e, <3>1, LengthBehindSent
      <3> QED
        BY <3>2 DEF Sendable
    <2>9. CASE ReadMixture(off, m, cut, d)
      <3>1. need = 0 \/ need <= Longest
        BY <2>9 DEF ReadMixture
      <3> QED
        BY <2>6, <3>1, SMT DEF AllocationBounded, Longest
    <2>10. CASE ReadingSent(off)
      <3>1. need = 0 \/ reader = "body"
        BY <2>10 DEF ReadingSent
      <3>2. Len(read) < Len(sent) \/ Len(read) = Len(sent)
        BY <2>5, <2>10 DEF ReadingSent
      <3> QED
        BY <2>6, <2>7, <2>8, <2>10, <3>1, <3>2 DEF AllocationBounded
    <2>11. CASE ReadClosing
      BY <2>6, <2>11 DEF ReadClosing
    <2> QED
      BY <2>3, <2>9, <2>10, <2>11 DEF Framed
  <1> QED
    BY <1>1, FramesInvariant, PTL

-----------------------------------------------------------------------------
\* What framesOf makes of bytes.  It is a recursive function, and the steps of its
\* recursion lead to the end of the bytes: that there is such a function is an
\* induction, here by the least number of which it fails.

\* Every set of numbers has a least.
LEMMA Least ==
    ASSUME NEW T, T \subseteq Nat, T # {}
    PROVE  \E x \in T : \A y \in T : x <= y
  <1>R. PICK R : R = OpToRel(<, Nat)
    OBVIOUS
  <1>1. IsWellFoundedOn(R, Nat)
    BY <1>R, NatLessThanWellFounded, Zenon
  <1>2. PICK x \in T : \A y \in T : ~ (<<y, x>> \in R)
    BY <1>1, WFMin, Zenon
  <1>3. ASSUME NEW y \in Nat, NEW z \in Nat, y < z PROVE <<y, z>> \in R
    BY <1>R, <1>3 DEF OpToRel
  <1>4. ASSUME NEW y \in T PROVE x <= y
    <2>1. x \in Nat /\ y \in Nat /\ ~ (<<y, x>> \in R)
      BY <1>2
    <2>2. ~(y < x)
      BY <1>3, <2>1
    <2> QED
      BY <2>1, <2>2
  <1> QED
    BY <1>4, Zenon

\* Induction up to n.
LEMMA Counting ==
    ASSUME NEW n \in Nat, NEW T, 0 \in T, \A k \in 1..n : k - 1 \in T => k \in T
    PROVE  n \in T
  <1> SUFFICES ASSUME n \notin T PROVE FALSE
    OBVIOUS
  <1>F. PICK F : F = {k \in 0..n : k \notin T}
    OBVIOUS
  <1>1. F \subseteq Nat /\ n \in F
    BY <1>F
  <1>2. PICK k \in F : \A j \in F : k <= j
    BY <1>1, Least
  <1>3. k \in 1..n /\ k \notin T
    <2>1. k \in 0..n /\ k \notin T /\ k # 0
      BY <1>F
    <2> QED
      BY <2>1
  <1>4. k - 1 \in 0..n /\ ~(k <= k - 1)
    BY <1>3
  <1>5. k - 1 \in T
    BY <1>2, <1>4, <1>F
  <1> QED
    BY <1>3, <1>5

\* What a function that is defined by its values further on has to be at i.
Onward(ends, base, item, nxt, f, i) ==
    f[i] = IF i \in ends THEN base[i] ELSE item[i] \o f[nxt[i]]

\* A function that is so defined everywhere.
OnwardFunction(last, ends, base, item, nxt, f) ==
    f = [i \in 1..last |-> IF i \in ends THEN base[i] ELSE item[i] \o f[nxt[i]]]

\* There is one, when further on is never beyond the last.
LEMMA Descending ==
    ASSUME NEW last \in Nat, 0 < last, NEW ends, NEW base, NEW item, NEW nxt,
           \A i \in 1..last : i \in ends \/ (nxt[i] \in 1..last /\ i < nxt[i])
    PROVE  \E f : OnwardFunction(last, ends, base, item, nxt, f)
  <1> DEFINE From(k) ==
                 \E f : \A i \in (last - k)..last : Onward(ends, base, item, nxt, f, i)
             T == {k \in 0..(last - 1) : From(k)}
  <1>1. From(0)
    <2> DEFINE f == [i \in {last} |-> base[i]]
    <2>1. last \in ends
      OBVIOUS
    <2>2. f[last] = base[last]
      OBVIOUS
    <2> HIDE DEF f
    <2>3. Onward(ends, base, item, nxt, f, last)
      BY <2>1, <2>2 DEF Onward
    <2>4. \A i \in (last - 0)..last : i = last
      OBVIOUS
    <2> QED
      BY <2>3, <2>4
  <1>2. ASSUME NEW k \in 1..(last - 1), From(k - 1) PROVE From(k)
    <2>p. PICK p : p = last - k
      OBVIOUS
    <2>1. p \in 1..last /\ p < last /\ last - (k - 1) = p + 1
      BY <2>p
    <2>2. PICK f : \A i \in (last - (k - 1))..last : Onward(ends, base, item, nxt, f, i)
      BY <1>2
    <2> DEFINE g == [i \in p..last |->
                        IF i # p THEN f[i]
                        ELSE IF p \in ends THEN base[p] ELSE item[p] \o f[nxt[p]]]
    <2>3. /\ \A i \in (p + 1)..last : g[i] = f[i]
          /\ g[p] = IF p \in ends THEN base[p] ELSE item[p] \o f[nxt[p]]
      <3>1. ASSUME NEW i \in (p + 1)..last PROVE g[i] = f[i]
        <4>1. i \in p..last /\ i # p
          BY <2>1
        <4> QED
          BY <4>1
      <3>2. p \in p..last
        BY <2>1
      <3>3. g[p] = IF p \in ends THEN base[p] ELSE item[p] \o f[nxt[p]]
        BY <3>2
      <3> QED
        BY <3>1, <3>3
    <2> HIDE DEF g
    <2>4. ASSUME NEW i \in p..last PROVE Onward(ends, base, item, nxt, g, i)
      <3>1. i \in ends \/ (nxt[i] \in (p + 1)..last /\ g[nxt[i]] = f[nxt[i]])
        <4>1. i \in 1..last
          BY <2>1
        <4>2. CASE i \notin ends
          <5>1. nxt[i] \in 1..last /\ i < nxt[i]
            BY <4>1, <4>2
          <5>2. nxt[i] \in (p + 1)..last
            BY <2>1, <5>1
          <5> QED
            BY <2>3, <5>2
        <4> QED
          BY <4>2
      <3>2. CASE i = p
        BY <2>3, <3>1, <3>2, Zenon DEF Onward
      <3>3. CASE i # p
        <4>1. i \in (p + 1)..last /\ i \in (last - (k - 1))..last
          BY <2>1, <3>3
        <4>2. g[i] = f[i] /\ Onward(ends, base, item, nxt, f, i)
          BY <2>2, <2>3, <4>1, Zenon
        <4> QED
          BY <3>1, <4>2, Zenon DEF Onward
      <3> QED
        BY <3>2, <3>3
    <2> QED
      BY <2>4, <2>p
  <1>3. From(last - 1)
    <2> HIDE DEF From
    <2>1. last - 1 \in Nat /\ 0 \in T
      BY <1>1
    <2>2. ASSUME NEW k \in 1..(last - 1), k - 1 \in T PROVE k \in T
      BY <1>2, <2>2
    <2>3. last - 1 \in T
      <3> HIDE DEF T
      <3> QED
        BY <2>1, <2>2, Counting
    <2> QED
      BY <2>3
  <1>4. PICK f : \A i \in 1..last : Onward(ends, base, item, nxt, f, i)
    <2>1. last - (last - 1) = 1
      OBVIOUS
    <2> QED
      BY <1>3, <2>1
  <1> DEFINE h == [i \in 1..last |-> f[i]]
             r == [i \in 1..last |->
                      IF i \in ends THEN base[i] ELSE item[i] \o h[nxt[i]]]
  <1>5. ASSUME NEW i \in 1..last PROVE h[i] = r[i]
    <2>1. h[i] = IF i \in ends THEN base[i] ELSE item[i] \o f[nxt[i]]
      BY <1>4, Zenon DEF Onward
    <2>2. r[i] = IF i \in ends THEN base[i] ELSE item[i] \o h[nxt[i]]
      OBVIOUS
    <2>3. i \in ends \/ h[nxt[i]] = f[nxt[i]]
      OBVIOUS
    <2> HIDE DEF h, r
    <2> QED
      BY <2>1, <2>2, <2>3, Zenon
  <1>6. h = r
    BY <1>5
  <1>7. OnwardFunction(last, ends, base, item, nxt, h)
    <2> HIDE DEF h
    <2> QED
      BY <1>6 DEF OnwardFunction
  <1> QED
    BY <1>7

\* The body of framesOf's recursion.
framesFrom(w, f, i) ==
    IF i + 3 > Len(w) THEN <<>>
    ELSE LET n == fromBytes(SubSeq(w, i, i + 3))
             m == deserialize(SubSeq(w, i + 4, i + 3 + n))
         IN  IF i + 3 + n > Len(w) \/ m = Malformed THEN <<>>
             ELSE IF m = CloseSession THEN <<m>>
             ELSE <<m>> \o f[i + 4 + n]

\* f is what it makes of w.
FramesIn(w, f) == \A i \in 1..(Len(w) + 1) : f[i] = framesFrom(w, f, i)

\* framesOf is such a function's value at the start.
LEMMA FramesOf ==
    ASSUME NEW w \in Seq(Byte)
    PROVE  \E f : framesOf(w) = f[1] /\ FramesIn(w, f)
  <1>L. PICK last : last = Len(w) + 1
    OBVIOUS
  <1>1. last \in Nat /\ 0 < last
    BY <1>L, LenProperties
  <1>n. PICK n : n = [i \in 1..last |-> fromBytes(SubSeq(w, i, i + 3))]
    OBVIOUS
  <1>m. PICK m : m = [i \in 1..last |-> deserialize(SubSeq(w, i + 4, i + 3 + n[i]))]
    OBVIOUS
  <1> DEFINE short == {i \in 1..last : \/ i + 3 > Len(w) \/ i + 3 + n[i] > Len(w)
                                       \/ m[i] = Malformed}
             ends == short \cup {i \in 1..last : m[i] = CloseSession}
             base == [i \in 1..last |-> IF i \in short THEN <<>> ELSE <<m[i]>>]
             item == [i \in 1..last |-> <<m[i]>>]
             nxt == [i \in 1..last |-> i + 4 + n[i]]
  <1>2. ASSUME NEW i \in 1..last PROVE i \in ends \/ (nxt[i] \in 1..last /\ i < nxt[i])
    <2> SUFFICES ASSUME i \notin ends
                 PROVE  nxt[i] \in 1..last /\ i < nxt[i]
      OBVIOUS
    <2>1. ~(i + 3 > Len(w)) /\ ~(i + 3 + n[i] > Len(w)) /\ nxt[i] = i + 4 + n[i]
      OBVIOUS
    <2>2. Len(w) \in Nat /\ i \in Nat /\ 1 <= i
      BY <1>1, LenProperties
    <2> HIDE DEF ends, nxt
    <2>3. n[i] \in Nat
      <3>a. PICK a : a = i - 1
        OBVIOUS
      <3>1. a \in Nat /\ i = a + 1 /\ i + 3 = a + 4 /\ a + 4 <= Len(w)
        BY <2>1, <2>2, <3>a
      <3>2. fromBytes(SubSeq(w, a + 1, a + 4)) \in Nat
        BY <3>1, Word
      <3>3. n[i] = fromBytes(SubSeq(w, i, i + 3))
        BY <1>n
      <3> QED
        BY <3>1, <3>2, <3>3, Zenon
    <2> QED
      BY <1>L, <2>1, <2>2, <2>3
  <1>3. PICK g : OnwardFunction(last, ends, base, item, nxt, g)
    <2> HIDE DEF ends, base, item, nxt
    <2> QED
      BY <1>1, <1>2, Descending
  <1>4. ASSUME NEW i \in 1..last
        PROVE  framesFrom(w, g, i) = IF i \in ends THEN base[i] ELSE item[i] \o g[nxt[i]]
    <2>1. /\ n[i] = fromBytes(SubSeq(w, i, i + 3))
          /\ m[i] = deserialize(SubSeq(w, i + 4, i + 3 + n[i]))
      BY <1>n, <1>m
    <2>2. framesFrom(w, g, i) = IF i \in short THEN <<>>
                                ELSE IF m[i] = CloseSession THEN <<m[i]>>
                                ELSE <<m[i]>> \o g[i + 4 + n[i]]
      BY <2>1 DEF framesFrom
    <2>3. /\ base[i] = IF i \in short THEN <<>> ELSE <<m[i]>>
          /\ item[i] = <<m[i]>> /\ nxt[i] = i + 4 + n[i]
          /\ i \in ends <=> i \in short \/ m[i] = CloseSession
      OBVIOUS
    <2> HIDE DEF short, ends, base, item, nxt
    <2> QED
      BY <2>2, <2>3, Zenon
  <1>5. g = [i \in 1..last |-> framesFrom(w, g, i)]
    <2> HIDE DEF ends, base, item, nxt
    <2> QED
      BY <1>3, <1>4 DEF OnwardFunction
  <1>6. PICK f : f = CHOOSE x : x = [i \in 1..(Len(w) + 1) |-> framesFrom(w, x, i)]
    OBVIOUS
  <1>7. framesOf(w) = f[1]
    BY <1>6 DEF framesOf, framesFrom
  <1>8. f = [i \in 1..(Len(w) + 1) |-> framesFrom(w, f, i)]
    BY <1>5, <1>6, <1>L
  <1>9. FramesIn(w, f)
    BY <1>8 DEF FramesIn
  <1> QED
    BY <1>7, <1>9

\* No whole message is behind the first a bytes of w.
HoldsNone(w, a) ==
    \/ a + 4 > Len(w)
    \/ \E size \in Nat : /\ a + 4 <= Len(w)
                         /\ size = fromBytes(SubSeq(w, a + 1, a + 4))
                         /\ a + 4 + size > Len(w)
    \/ \E size \in Nat : /\ Whole(w, a, a + 4, size)
                         /\ deserialize(SubSeq(w, a + 4 + 1, a + 4 + size)) = Malformed

\* Then nothing is read there.
LEMMA ReadNothing ==
    ASSUME NEW w \in Seq(Byte), NEW f, FramesIn(w, f), NEW a \in Nat, a <= Len(w),
           HoldsNone(w, a)
    PROVE  f[a + 1] = <<>>
  <1>i. PICK i : i = a + 1
    OBVIOUS
  <1>1. i \in 1..(Len(w) + 1) /\ i + 3 = a + 4 /\ i + 4 = a + 4 + 1
    BY <1>i, LenProperties
  <1>2. f[i] = framesFrom(w, f, i)
    BY <1>1 DEF FramesIn
  <1>3. CASE a + 4 > Len(w)
    BY <1>1, <1>2, <1>3, <1>i DEF framesFrom
  <1>4. ASSUME NEW size \in Nat, a + 4 <= Len(w),
               size = fromBytes(SubSeq(w, a + 1, a + 4)), a + 4 + size > Len(w)
        PROVE  f[a + 1] = <<>>
    <2>1. i + 3 + size > Len(w) /\ size = fromBytes(SubSeq(w, i, i + 3))
      BY <1>1, <1>4, <1>i
    <2> QED
      BY <1>2, <1>i, <2>1 DEF framesFrom
  <1>5. ASSUME NEW size \in Nat, Whole(w, a, a + 4, size),
               deserialize(SubSeq(w, a + 4 + 1, a + 4 + size)) = Malformed
        PROVE  f[a + 1] = <<>>
    <2>1. /\ size = fromBytes(SubSeq(w, i, i + 3)) /\ i + 3 + size = a + 4 + size
          /\ deserialize(SubSeq(w, i + 4, i + 3 + size)) = Malformed
      BY <1>1, <1>5, <1>i DEF Whole
    <2> QED
      BY <1>2, <1>i, <2>1 DEF framesFrom
  <1> QED
    BY <1>3, <1>4, <1>5 DEF HoldsNone

\* Behind the first a bytes of w is m, in a body of size bytes.
Holds(w, a, size, m) ==
    /\ Whole(w, a, a + 4, size)
    /\ m = deserialize(SubSeq(w, a + 4 + 1, a + 4 + size))

\* What f reads there, if that is a message.
OneRead(f, a, size, m) ==
    f[a + 1] = IF m = CloseSession THEN <<m>> ELSE <<m>> \o f[a + 4 + size + 1]

\* That message is read, and then what is behind it.
LEMMA ReadOne ==
    ASSUME NEW w \in Seq(Byte), NEW f, FramesIn(w, f), NEW a \in Nat, NEW size \in Nat,
           NEW m, Holds(w, a, size, m), m # Malformed
    PROVE  OneRead(f, a, size, m)
  <1>w. Whole(w, a, a + 4, size) /\ m = deserialize(SubSeq(w, a + 4 + 1, a + 4 + size))
    BY DEF Holds
  <1> SUFFICES f[a + 1] = IF m = CloseSession THEN <<m>>
                          ELSE <<m>> \o f[a + 4 + size + 1]
    BY Zenon DEF OneRead
  <1>i. PICK i : i = a + 1
    OBVIOUS
  <1>0. /\ a + 4 <= Len(w) /\ a + 4 + size <= Len(w)
        /\ size = fromBytes(SubSeq(w, a + 1, a + 4))
    BY <1>w DEF Whole
  <1>1. /\ i \in 1..(Len(w) + 1) /\ i + 3 = a + 4 /\ i + 4 = a + 4 + 1
        /\ i + 3 + size = a + 4 + size /\ i + 4 + size = a + 4 + size + 1
        /\ ~(i + 3 > Len(w)) /\ ~(i + 3 + size > Len(w))
    BY <1>0, <1>i, LenProperties
  <1>2. f[i] = framesFrom(w, f, i)
    BY <1>1 DEF FramesIn
  <1>3. /\ size = fromBytes(SubSeq(w, i, i + 3))
        /\ m = deserialize(SubSeq(w, i + 4, i + 3 + size))
    BY <1>w, <1>0, <1>1, <1>i
  <1>4. framesFrom(w, f, i) = IF m = CloseSession THEN <<m>>
                              ELSE <<m>> \o f[i + 4 + size]
    BY <1>1, <1>3, Zenon DEF framesFrom
  <1> QED
    BY <1>1, <1>2, <1>4, <1>i

\* Nothing is read behind a mixture.
LEMMA ReadMixed ==
    ASSUME NEW w \in Seq(Byte), NEW e \in Nat, NEW m \in Sendable, NEW cut \in Nat,
           NEW d \in 0..8, CutOn(w, e, m, cut, d), Len(frame(m)) <= cut + d,
           NEW f, FramesIn(w, f)
    PROVE  f[e + Len(frame(m)) + 1] = <<>>
  <1>a. PICK a : a = e + Len(frame(m))
    OBVIOUS
  <1>1. Len(frame(m)) \in Nat
    BY FrameBytes
  <1>2. cut < Len(frame(m)) /\ Len(w) = e + cut + d
    BY DEF CutOn
  <1>3. a \in Nat /\ a <= Len(w) /\ Len(w) < a + 8
    BY <1>1, <1>2, <1>a
  <1>4. CASE a + 4 > Len(w)
    <2>1. HoldsNone(w, a)
      BY <1>4 DEF HoldsNone
    <2> QED
      BY <1>3, <1>a, <2>1, ReadNothing
  <1>5. CASE a + 4 <= Len(w)
    <2>s. PICK size : size = fromBytes(SubSeq(w, a + 1, a + 4))
      OBVIOUS
    <2>1. size \in Nat /\ 256 <= size
      BY <1>5, <1>a, <2>s, MixtureLength
    <2>2. a + 4 + size > Len(w)
      BY <1>2, <1>3, <2>1
    <2>3. f[a + 1] = <<>>
      <3>1. HoldsNone(w, a)
        BY <1>5, <2>1, <2>2, <2>s DEF HoldsNone
      <3> QED
        BY <1>3, <3>1, ReadNothing
    <2> QED
      BY <1>a, <2>3
  <1> QED
    BY <1>2, <1>3, <1>4, <1>5

\* The first d bytes of the frame of a CloseSession, behind the first e bytes of w.
ClosingOn(w, e, d) == Len(w) = e + d /\ \A j \in 1..d : w[e + j] = CloseBytes[j]

\* A CloseSession behind whole frames is read when it is whole.
LEMMA ReadClosingFrame ==
    ASSUME NEW w \in Seq(Byte), NEW e \in Nat, NEW d \in 0..8, ClosingOn(w, e, d),
           NEW f, FramesIn(w, f)
    PROVE  f[e + 1] = IF d = 8 THEN <<CloseSession>> ELSE <<>>
  <1>0. Len(w) = e + d /\ \A j \in 1..d : w[e + j] = CloseBytes[j]
    BY DEF ClosingOn
  <1>1. e <= Len(w)
    BY <1>0
  <1>2. CASE d < 4
    <2>1. e + 4 > Len(w) /\ d # 8
      BY <1>0, <1>2
    <2>2. f[e + 1] = <<>>
      <3>1. HoldsNone(w, e)
        BY <2>1 DEF HoldsNone
      <3> QED
        BY <1>1, <3>1, ReadNothing
    <2> QED
      BY <2>1, <2>2
  <1>3. CASE d >= 4
    <2>1. frame(CloseSession) = CloseBytes /\ Len(CloseBytes) = 8
      BY CloseFrame DEF CloseBytes
    <2>2. Len(serialize(CloseSession)) = 4
      BY PlainMessages DEF CloseSession, PlainType
    <2>3. fromBytes(SubSeq(w, e + 1, e + 4)) = 4
      <3>1. e + 4 <= Len(w) /\ \A j \in 1..4 : w[e + j] = frame(CloseSession)[j]
        BY <1>0, <1>3, <2>1
      <3> QED
        BY <2>2, <3>1, FrameLength
    <2>4. CASE d < 8
      <3>1. e + 4 <= Len(w) /\ e + 4 + 4 > Len(w)
        BY <1>0, <1>3, <2>4
      <3>2. f[e + 1] = <<>>
        <4>1. HoldsNone(w, e)
          BY <2>3, <3>1 DEF HoldsNone
        <4> QED
          BY <1>1, <4>1, ReadNothing
      <3> QED
        BY <2>4, <3>2
    <2>5. CASE d = 8
      <3>1. e + 4 <= Len(w) /\ e + 4 + 4 <= Len(w) /\ e + 8 <= Len(w)
        BY <1>0, <2>5
      <3>2. Whole(w, e, e + 4, 4)
        BY <2>3, <3>1 DEF Whole
      <3>3. deserialize(SubSeq(w, e + 4 + 1, e + 4 + 4)) = CloseSession
        <4>1. /\ e + Len(frame(CloseSession)) <= Len(w)
              /\ \A j \in 1..Len(frame(CloseSession)) : w[e + j] = frame(CloseSession)[j]
          BY <1>0, <2>1, <2>5, <3>1
        <4>2. deserialize(SubSeq(w, e + 4 + 1, e + 4 + Len(serialize(CloseSession))))
                = CloseSession
          BY <4>1, FrameBody
        <4> QED
          BY <2>2, <4>2
      <3>4. CloseSession # Malformed
        BY DEF CloseSession, Malformed, Plain
      <3>5. f[e + 1] = <<CloseSession>>
        <4>m. PICK m : m = CloseSession
          OBVIOUS
        <4>1. m = deserialize(SubSeq(w, e + 4 + 1, e + 4 + 4)) /\ m # Malformed
          BY <3>3, <3>4, <4>m
        <4>2. Holds(w, e, 4, m)
          BY <3>2, <4>1, Zenon DEF Holds
        <4>3. OneRead(f, e, 4, m)
          BY <4>1, <4>2, ReadOne
        <4> QED
          BY <4>3, <4>m, Zenon DEF OneRead
      <3> QED
        BY <2>5, <3>5
    <2> QED
      BY <2>4, <2>5
  <1> QED
    BY <1>2, <1>3

\* What is read behind the frames sent: nothing, the CloseSession, or a mixture.
ReadIs(t, m, cut, d) ==
    /\ cut = 0 => t = IF d = 8 THEN <<CloseSession>> ELSE <<>>
    /\ d = 0 => t = <<>>
    /\ \/ t \in {<<>>, <<CloseSession>>}
       \/ \E x \in Readable : t = <<x>> /\ Mixture(m, x)

\* It is one of these, whatever of a frame and of the CloseSession is there.
LEMMA ReadBehind ==
    ASSUME NEW w \in Seq(Byte), NEW e \in Nat, NEW m \in Sendable, NEW cut \in Nat,
           NEW d \in 0..8, CutOn(w, e, m, cut, d), NEW f, FramesIn(w, f)
    PROVE  ReadIs(f[e + 1], m, cut, d)
  <1> SUFFICES /\ cut = 0 => f[e + 1] = IF d = 8 THEN <<CloseSession>> ELSE <<>>
               /\ d = 0 => f[e + 1] = <<>>
               /\ \/ f[e + 1] \in {<<>>, <<CloseSession>>}
                  \/ \E x \in Readable : f[e + 1] = <<x>> /\ Mixture(m, x)
    BY Zenon DEF ReadIs
  <1>1. /\ cut < Len(frame(m)) /\ Len(w) = e + cut + d /\ e <= Len(w)
        /\ \A j \in 1..cut : w[e + j] = frame(m)[j]
        /\ \A j \in 1..d : w[e + cut + j] = CloseBytes[j]
    BY DEF CutOn
  <1>2. CASE cut = 0
    <2>1. Len(w) = e + d
      BY <1>1, <1>2
    <2>2. \A j \in 1..d : w[e + j] = CloseBytes[j]
      <3>1. e + cut = e
        BY <1>2
      <3> QED
        BY <1>1, <3>1
    <2>3. f[e + 1] = IF d = 8 THEN <<CloseSession>> ELSE <<>>
      <3>1. ClosingOn(w, e, d)
        BY <2>1, <2>2 DEF ClosingOn
      <3> QED
        BY <3>1, ReadClosingFrame
    <2> QED
      BY <1>2, <2>3
  <1>3. CASE cut > 0
    <2>1. CASE cut + d < 4
      <3>1. e + 4 > Len(w)
        BY <1>1, <2>1
      <3>2. f[e + 1] = <<>>
        <4>1. HoldsNone(w, e)
          BY <3>1 DEF HoldsNone
        <4> QED
          BY <1>1, <4>1, ReadNothing
      <3> QED
        BY <1>3, <3>2
    <2>2. CASE cut + d >= 4
      <3>s. PICK size : size = fromBytes(SubSeq(w, e + 1, e + 4))
        OBVIOUS
      <3>x. PICK x : x = deserialize(SubSeq(w, e + 4 + 1, e + 4 + size))
        OBVIOUS
      <3>1. e + 4 <= Len(w) /\ e + 4 \in Nat
        BY <1>1, <2>2
      <3>2. size \in Nat
        BY <3>1, <3>s, Word
      <3>3. CASE e + 4 + size > Len(w)
        <4>1. f[e + 1] = <<>>
          <5>1. HoldsNone(w, e)
            BY <3>1, <3>2, <3>3, <3>s DEF HoldsNone
          <5> QED
            BY <1>1, <5>1, ReadNothing
        <4> QED
          BY <1>3, <4>1
      <3>4. CASE e + 4 + size <= Len(w)
        <4>1. Whole(w, e, e + 4, size)
          BY <3>1, <3>4, <3>s DEF Whole
        <4>2. \/ x = Malformed
              \/ x = CloseSession /\ d > 0
              \/ /\ 0 < cut /\ d > 0 /\ Len(frame(m)) <= cut + d
                 /\ x # CloseSession /\ Mixture(m, x)
                 /\ e + 4 + size = e + Len(frame(m))
          <5>1. LET y == deserialize(SubSeq(w, e + 4 + 1, e + 4 + size)) IN
                \/ y = Malformed
                \/ y = CloseSession /\ d > 0
                \/ /\ 0 < cut /\ d > 0 /\ Len(frame(m)) <= cut + d
                   /\ y # CloseSession /\ Mixture(m, y)
                   /\ e + 4 + size = e + Len(frame(m))
            BY <3>1, <3>2, <4>1, BodyBehindSent
          <5> QED
            BY <3>x, <5>1, Zenon
        <4>3. CASE x = Malformed
          <5>1. f[e + 1] = <<>>
            <6>1. deserialize(SubSeq(w, e + 4 + 1, e + 4 + size)) = Malformed
              BY <3>x, <4>3
            <6>2. HoldsNone(w, e)
              BY <3>2, <4>1, <6>1 DEF HoldsNone
            <6> QED
              BY <1>1, <6>2, ReadNothing
          <5> QED
            BY <1>3, <5>1
        <4>4. ASSUME x # Malformed
              PROVE  f[e + 1] = IF x = CloseSession THEN <<x>>
                                ELSE <<x>> \o f[e + 4 + size + 1]
          <5>1. Holds(w, e, size, x)
            BY <3>x, <4>1, Zenon DEF Holds
          <5>2. OneRead(f, e, size, x)
            BY <3>2, <4>4, <5>1, ReadOne
          <5> QED
            BY <5>2, Zenon DEF OneRead
        <4>5. CASE x # Malformed /\ x = CloseSession /\ d > 0
          <5>1. f[e + 1] = <<CloseSession>>
            BY <4>4, <4>5
          <5> QED
            BY <1>3, <4>5, <5>1
        <4>6. CASE /\ x # Malformed /\ x # CloseSession
                   /\ d > 0 /\ Len(frame(m)) <= cut + d /\ Mixture(m, x)
                   /\ e + 4 + size = e + Len(frame(m))
          <5>1. f[e + 4 + size + 1] = <<>>
            <6>1. f[e + Len(frame(m)) + 1] = <<>>
              BY <4>6, ReadMixed
            <6> QED
              BY <4>6, <6>1
          <5>2. x \in Readable
            <6>1. SubSeq(w, e + 4 + 1, e + 4 + size) \in Seq(Byte)
              BY <3>1, <3>2, <3>4, Slice
            <6> QED
              BY <3>x, <4>6, <6>1, Deserialized
          <5>3. <<x>> \o <<>> = <<x>>
            <6>1. <<x>> \in Seq(Readable)
              BY <5>2
            <6> QED
              BY <6>1, ConcatEmptySeq
          <5>4. f[e + 1] = <<x>>
            BY <4>4, <4>6, <5>1, <5>3
          <5> QED
            BY <1>3, <4>6, <5>2, <5>4
        <4> QED
          BY <4>2, <4>3, <4>5, <4>6
      <3> QED
        BY <1>1, <3>1, <3>2, <3>3, <3>4
    <2> QED
      BY <2>1, <2>2
  <1> QED
    BY <1>2, <1>3

\* What f reads before the last k frames of seq are these, and t behind them.
ReadsOn(f, seq, off, S, t, k) ==
    LET p == Len(seq) - k
        g == f[off[p + 1] + 1]
    IN  /\ g \in Seq(S) /\ Len(g) = k + Len(t)
        /\ \A i \in 1..k : g[i] = seq[p + i]
        /\ \A i \in 1..Len(t) : g[k + i] = t[i]

\* One element in front of a sequence.
LEMMA InFront ==
    ASSUME NEW S, NEW x \in S, NEW g \in Seq(S)
    PROVE  /\ <<x>> \o g \in Seq(S) /\ Len(<<x>> \o g) = 1 + Len(g)
           /\ (<<x>> \o g)[1] = x
           /\ \A i \in 1..Len(g) : (<<x>> \o g)[1 + i] = g[i]
  <1>b. PICK b : b = <<x>>
    OBVIOUS
  <1>1. b \in Seq(S) /\ Len(b) = 1 /\ b[1] = x
    BY <1>b
  <1>2. b \o g \in Seq(S) /\ Len(b \o g) = Len(b) + Len(g)
    BY <1>1, Joined
  <1>3. (b \o g)[1] = x
    <2>1. b \in Seq(S)
      BY <1>1
    <2>2. \A i \in 1..Len(b) : (b \o g)[i] = b[i]
      BY <2>1, Joined, Zenon
    <2> QED
      BY <1>1, <2>2
  <1>4. \A i \in 1..Len(g) : (b \o g)[1 + i] = g[i]
    <2>1. b \in Seq(S)
      BY <1>1
    <2>2. \A i \in 1..Len(g) : (b \o g)[Len(b) + i] = g[i]
      BY <2>1, Joined
    <2> QED
      BY <1>1, <2>2
  <1>5. Len(b \o g) = 1 + Len(g)
    BY <1>1, <1>2
  <1> QED
    BY <1>2, <1>3, <1>4, <1>5, <1>b

\* One frame before them, it is one more.
LEMMA ReadAhead ==
    ASSUME NEW w \in Seq(Byte), NEW seq \in Seq(Sendable), NEW off, LaidOn(w, seq, off),
           NEW f, FramesIn(w, f), NEW S, Sendable \subseteq S, NEW t \in Seq(S),
           NEW k \in 1..Len(seq), ReadsOn(f, seq, off, S, t, k - 1)
    PROVE  ReadsOn(f, seq, off, S, t, k)
  <1>N. PICK N : N = Len(seq)
    OBVIOUS
  <1>p. PICK p : p = N - k
    OBVIOUS
  <1>x. PICK x : x = seq[p + 1]
    OBVIOUS
  <1>a. PICK a : a = off[p + 1]
    OBVIOUS
  <1>g. PICK g : g = f[off[p + 2] + 1]
    OBVIOUS
  <1>1. N \in Nat /\ k \in 1..N /\ Len(t) \in Nat
    BY <1>N, LenProperties
  <1>2. p \in Nat /\ p + 1 \in 1..N /\ p + 1 \in 1..(N + 1) /\ N - (k - 1) = p + 1
    BY <1>1, <1>p
  <1>3. x \in Sendable /\ x \in S
    BY <1>2, <1>N, <1>x, ElementOfSeq
  <1>4. /\ a \in Nat /\ off[p + 2] = a + Len(frame(x)) /\ a + Len(frame(x)) <= Len(w)
        /\ \A j \in 1..Len(frame(x)) : w[a + j] = frame(x)[j]
    <2>1. p + 1 + 1 = p + 2
      BY <1>2
    <2>2. /\ off[p + 1] \in Nat /\ off[p + 1 + 1] = off[p + 1] + Len(frame(seq[p + 1]))
          /\ off[p + 1 + 1] <= Len(w)
          /\ \A j \in 1..Len(frame(seq[p + 1])) :
                w[off[p + 1] + j] = frame(seq[p + 1])[j]
      BY <1>2, <1>N DEF LaidOn
    <2> QED
      BY <1>a, <1>x, <2>1, <2>2
  <1>5. /\ g \in Seq(S) /\ Len(g) = (k - 1) + Len(t)
        /\ \A i \in 1..(k - 1) : g[i] = seq[(p + 1) + i]
        /\ \A i \in 1..Len(t) : g[(k - 1) + i] = t[i]
    <2>1. (p + 1) + 1 = p + 2
      BY <1>2
    <2> QED
      BY <1>2, <1>N, <1>g, <2>1 DEF ReadsOn
  <1>s. PICK size : size = Len(serialize(x))
    OBVIOUS
  <1>6. size \in Nat /\ Len(frame(x)) = 4 + size
    BY <1>3, <1>s, FrameBytes
  <1>7. Whole(w, a, a + 4, size)
    <2>1. a + 4 <= Len(w) /\ a + 4 + size <= Len(w)
      BY <1>4, <1>6, LenProperties
    <2>2. \A j \in 1..4 : w[a + j] = frame(x)[j]
      BY <1>4, <1>6
    <2>3. fromBytes(SubSeq(w, a + 1, a + 4)) = size
      BY <1>3, <1>4, <1>s, <2>1, <2>2, FrameLength
    <2> QED
      BY <2>1, <2>3 DEF Whole
  <1>8. x = deserialize(SubSeq(w, a + 4 + 1, a + 4 + size))
    BY <1>3, <1>4, <1>s, FrameBody
  <1>9. x # Malformed /\ x # CloseSession
    BY <1>3, NotClosing DEF Sendable
  <1>10. f[a + 1] = <<x>> \o g
    <2>1. f[a + 1] = <<x>> \o f[a + 4 + size + 1]
      <3>1. a \in Nat /\ size \in Nat /\ x # Malformed
        BY <1>4, <1>6, <1>9
      <3>2. f[a + 1] = IF x = CloseSession THEN <<x>> ELSE <<x>> \o f[a + 4 + size + 1]
        <4>1. Holds(w, a, size, x)
          BY <1>7, <1>8, Zenon DEF Holds
        <4>2. OneRead(f, a, size, x)
          BY <3>1, <4>1, ReadOne
        <4> QED
          BY <4>2, Zenon DEF OneRead
      <3> QED
        BY <1>9, <3>2, Zenon
    <2>2. off[p + 2] = a + 4 + size
      BY <1>4, <1>6
    <2> QED
      BY <1>g, <2>1, <2>2
  <1>h. PICK h : h = <<x>> \o g
    OBVIOUS
  <1>12. /\ h \in Seq(S) /\ Len(h) = k + Len(t)
         /\ h[1] = x /\ \A i \in 1..Len(g) : h[1 + i] = g[i]
    <2>1. /\ h \in Seq(S) /\ Len(h) = 1 + Len(g)
          /\ h[1] = x /\ \A i \in 1..Len(g) : h[1 + i] = g[i]
      <3>1. x \in S /\ g \in Seq(S)
        BY <1>3, <1>5
      <3> QED
        BY <1>h, <3>1, InFront
    <2>2. Len(h) = k + Len(t)
      <3>1. Len(g) = (k - 1) + Len(t) /\ Len(h) = 1 + Len(g)
        BY <1>5, <2>1
      <3> QED
        BY <1>1, <3>1
    <2> QED
      BY <2>1, <2>2
  <1>13. ASSUME NEW i \in 1..k PROVE h[i] = seq[p + i]
    <2>1. CASE i = 1
      BY <1>12, <1>x, <2>1
    <2>2. CASE i # 1
      <3>1. i - 1 \in 1..(k - 1) /\ 1 + (i - 1) = i /\ (p + 1) + (i - 1) = p + i
        BY <1>1, <1>2, <2>2
      <3>2. i - 1 \in 1..Len(g)
        BY <1>1, <1>5, <3>1
      <3>3. h[1 + (i - 1)] = g[i - 1] /\ g[i - 1] = seq[(p + 1) + (i - 1)]
        BY <1>5, <1>12, <3>1, <3>2
      <3> QED
        BY <3>1, <3>3
    <2> QED
      BY <2>1, <2>2
  <1>14. ASSUME NEW i \in 1..Len(t) PROVE h[k + i] = t[i]
    <2>1. (k - 1) + i \in 1..Len(g) /\ 1 + ((k - 1) + i) = k + i
      BY <1>1, <1>5
    <2>2. h[1 + ((k - 1) + i)] = g[(k - 1) + i] /\ g[(k - 1) + i] = t[i]
      BY <1>5, <1>12, <2>1
    <2> QED
      BY <2>1, <2>2
  <1>15. f[off[p + 1] + 1] = h
    BY <1>10, <1>a, <1>h
  <1> QED
    BY <1>12, <1>13, <1>14, <1>15, <1>N, <1>p, Zenon DEF ReadsOn

\* From the start it is all of them.
LEMMA ReadAll ==
    ASSUME NEW w \in Seq(Byte), NEW seq \in Seq(Sendable), NEW off, LaidOn(w, seq, off),
           NEW f, FramesIn(w, f), NEW S, Sendable \subseteq S,
           NEW t \in Seq(S), t = f[off[Len(seq) + 1] + 1]
    PROVE  ReadsOn(f, seq, off, S, t, Len(seq))
  <1>N. PICK N : N = Len(seq)
    OBVIOUS
  <1>1. N \in Nat /\ Len(t) \in Nat
    BY <1>N, LenProperties
  <1>T. PICK T : T = {k \in 0..N : ReadsOn(f, seq, off, S, t, k)}
    OBVIOUS
  <1>2. ReadsOn(f, seq, off, S, t, 0)
    <2>1. Len(seq) - 0 = Len(seq) /\ 0 + Len(t) = Len(t)
      BY <1>1, <1>N
    <2>2. \A i \in 1..Len(t) : 0 + i = i
      OBVIOUS
    <2> QED
      BY <2>1, <2>2 DEF ReadsOn
  <1>3. ASSUME NEW k \in 1..N, k - 1 \in T PROVE k \in T
    <2>1. ReadsOn(f, seq, off, S, t, k - 1)
      BY <1>3, <1>T
    <2>2. ReadsOn(f, seq, off, S, t, k)
      BY <1>N, <2>1, ReadAhead
    <2> QED
      BY <1>1, <1>T, <2>2
  <1>4. N \in T
    <2>1. 0 \in T
      BY <1>1, <1>2, <1>T
    <2> QED
      BY <1>1, <1>3, <2>1, Counting
  <1>5. ReadsOn(f, seq, off, S, t, N)
    BY <1>4, <1>T
  <1> QED
    BY <1>5, <1>N

\* What is there of any frame that was cut.
LEMMA Closing ==
    /\ CloseSession = Stream!CloseSession
    /\ \A r : <<>> \in Stream!Cut(r) /\ <<Stream!CloseSession>> \in Stream!Cut(r)
  <1>1. CloseSession = Stream!CloseSession
    BY DEF CloseSession, Plain, Stream!CloseSession, Stream!Plain
  <1>2. \A r : <<>> \in Stream!Cut(r) /\ <<Stream!CloseSession>> \in Stream!Cut(r)
    BY DEF Stream!Cut
  <1> QED
    BY <1>1, <1>2

\* What is read from the start: the messages sent, and one of Cut behind them.
LEMMA WireFrames ==
    ASSUME NEW w \in Seq(Byte), NEW seq \in Seq(Sendable), NEW off, LaidOn(w, seq, off),
           NEW m \in Sendable, NEW cut \in Nat, NEW d \in 0..8,
           CutOn(w, off[Len(seq) + 1], m, cut, d)
    PROVE  /\ \E tail \in Stream!Cut(m) : framesOf(w) = seq \o tail
           /\ d = 0 \/ (cut = 0 /\ d < 8) => framesOf(w) = seq
           /\ cut = 0 /\ d = 8 => framesOf(w) = seq \o <<Stream!CloseSession>>
  <1>f. PICK f : framesOf(w) = f[1] /\ FramesIn(w, f)
    BY FramesOf
  <1>e. PICK e : e = off[Len(seq) + 1]
    OBVIOUS
  <1>t. PICK t : t = f[e + 1]
    OBVIOUS
  <1>g. PICK g : g = f[1]
    OBVIOUS
  <1>n. PICK n : n = Len(seq)
    OBVIOUS
  <1>1. n \in Nat /\ e \in Nat
    <2>1. n \in Nat
      BY <1>n, LenProperties
    <2>2. off \in [1..(n + 1) -> Nat] /\ e = off[n + 1]
      BY <1>n, <1>e DEF LaidOn
    <2> QED
      BY <2>1, <2>2
  <1>2. /\ cut = 0 => t = IF d = 8 THEN <<CloseSession>> ELSE <<>>
        /\ d = 0 => t = <<>>
        /\ \/ t \in {<<>>, <<CloseSession>>}
           \/ \E x \in Readable : t = <<x>> /\ Mixture(m, x)
    <2>1. CutOn(w, e, m, cut, d)
      BY <1>e
    <2>2. FramesIn(w, f)
      BY <1>f
    <2>3. ReadIs(f[e + 1], m, cut, d)
      BY <1>1, <2>1, <2>2, ReadBehind
    <2> QED
      BY <1>t, <2>3, Zenon DEF ReadIs
  <1>3. Sendable \subseteq Readable /\ CloseSession \in Readable
    <2>1. CloseSession \in Readable
      BY DEF Readable, PlainType, CloseSession
    <2>2. ASSUME NEW x \in Sendable PROVE x \in Readable
      <3>1. x \in Message
        BY DEF Sendable
      <3>2. CASE x \in {Plain("GetPublicKey"), Plain("AttestSigningKey")}
        BY <3>2 DEF Readable, PlainType
      <3>3. CASE \E p \in Program, l \in Limit : x = Execute(p, l)
        BY <3>3, FrameAssumption DEF Readable
      <3> QED
        BY <3>1, <3>2, <3>3 DEF Message
    <2> QED
      BY <2>1, <2>2
  <1>4. t \in Seq(Readable)
    <2>1. CASE t = <<>>
      BY <2>1, EmptySeq
    <2>2. ASSUME NEW x \in Readable, t = <<x>> PROVE t \in Seq(Readable)
      BY <2>2
    <2> QED
      BY <1>2, <1>3, <2>1, <2>2, Zenon
  <1>5. /\ g \in Seq(Readable) /\ Len(g) = n + Len(t)
        /\ \A i \in 1..n : g[i] = seq[i]
        /\ \A i \in 1..Len(t) : g[n + i] = t[i]
    <2>1. Sendable \subseteq Readable /\ FramesIn(w, f)
      BY <1>3, <1>f
    <2>2. t = f[off[Len(seq) + 1] + 1]
      BY <1>e, <1>t
    <2>3. ReadsOn(f, seq, off, Readable, t, Len(seq))
      BY <1>4, <2>1, <2>2, ReadAll
    <2>4. n - n = 0 /\ 0 + 1 = 1 /\ off[1] = 0 /\ \A i \in 1..n : 0 + i = i
      BY <1>1 DEF LaidOn
    <2>5. /\ f[off[(n - n) + 1] + 1] \in Seq(Readable)
          /\ Len(f[off[(n - n) + 1] + 1]) = n + Len(t)
          /\ \A i \in 1..n : f[off[(n - n) + 1] + 1][i] = seq[(n - n) + i]
          /\ \A i \in 1..Len(t) : f[off[(n - n) + 1] + 1][n + i] = t[i]
      BY <1>n, <2>3, Zenon DEF ReadsOn
    <2>6. f[off[(n - n) + 1] + 1] = g
      BY <1>g, <2>4
    <2>7. /\ g \in Seq(Readable) /\ Len(g) = n + Len(t)
          /\ \A i \in 1..Len(t) : g[n + i] = t[i]
      BY <2>5, <2>6, Zenon
    <2>8. \A i \in 1..n : g[i] = seq[i]
      BY <2>4, <2>5, <2>6
    <2> QED
      BY <2>7, <2>8
  <1>6. framesOf(w) = seq \o t
    <2>h. PICK h : h = seq \o t
      OBVIOUS
    <2>1. seq \in Seq(Readable)
      <3>1. \A i \in 1..n : seq[i] \in Readable
        BY <1>3, <1>n, ElementOfSeq
      <3>2. seq = [i \in 1..n |-> seq[i]]
        BY <1>n, SeqDef
      <3> QED
        BY <1>1, <3>1, <3>2
    <2>2. /\ h \in Seq(Readable) /\ Len(t) \in Nat /\ Len(h) = n + Len(t)
          /\ \A i \in 1..n : h[i] = seq[i]
          /\ \A i \in 1..Len(t) : h[n + i] = t[i]
      BY <1>4, <1>n, <2>h, <2>1, Joined
    <2>3. ASSUME NEW i \in 1..Len(g) PROVE g[i] = h[i]
      <3>1. CASE i \in 1..n
        BY <1>5, <2>2, <3>1
      <3>2. CASE ~(i \in 1..n)
        <4>1. i - n \in 1..Len(t) /\ n + (i - n) = i
          BY <1>1, <1>5, <2>2, <3>2
        <4> QED
          BY <1>5, <2>2, <4>1
      <3> QED
        BY <3>1, <3>2
    <2>4. g = h
      BY <1>5, <2>2, <2>3, SeqEqual
    <2> QED
      BY <1>f, <1>g, <2>h, <2>4
  <1>7. t = <<>> => framesOf(w) = seq
    BY <1>6, ConcatEmptySeq
  <1>8. t \in Stream!Cut(m)
    <2>1. CASE t \in {<<>>, <<CloseSession>>}
      BY <2>1, Closing
    <2>2. CASE \E x \in Readable : t = <<x>> /\ Mixture(m, x)
      BY <2>2 DEF Mixture
    <2> QED
      BY <1>2, <2>1, <2>2
  <1>9. d = 0 \/ (cut = 0 /\ d < 8) => t = <<>>
    BY <1>2
  <1>10. cut = 0 /\ d = 8 => t = <<CloseSession>>
    BY <1>2
  <1> QED
    BY <1>6, <1>7, <1>8, <1>9, <1>10, Closing

-----------------------------------------------------------------------------
\* The host's side of VsockStream.

\* What VsockStream has of the connection: its end, what was sent, and what is
\* being sent.
end == IF hostEnd = "closing" THEN "dropped" ELSE hostEnd
requests == IF hostEnd = "closed" THEN framesOf(wire) ELSE sent
part == sending

\* The steps it has, of these three.
HostStep(e, u, p, e2, u2, p2) ==
    \/ e = "none" /\ e2 = "open" /\ u2 = u /\ p2 = p
    \/ e = "open" /\ p = NoMessage /\ p2 \in Stream!Request /\ e2 = e /\ u2 = u
    \/ e = "open" /\ p # NoMessage /\ p2 = NoMessage /\ e2 = e /\ u2 = Append(u, p)
    \/ e = "open" /\ e2 = "dropped" /\ u2 = u /\ p2 = p
    \/ /\ e = "dropped" /\ e2 = "closed" /\ p2 = NoMessage
       /\ \E tail \in IF p = NoMessage THEN {<<Stream!CloseSession>>} ELSE Stream!Cut(p) :
             u2 = u \o tail
    \/ e \in {"open", "dropped"} /\ e2 = "closed" /\ p2 = NoMessage /\ u2 = u
    \/ e2 = e /\ u2 = u /\ p2 = p

\* Each is a step of HostNext, or none.
LEMMA HostSteps ==
    ASSUME HostStep(end, requests, part, end', requests', part')
    PROVE  [Stream!HostNext]_Stream!streamVars
  <1>e. PICK e : e = [c \in {"c"} |-> end]
    OBVIOUS
  <1>u. PICK u : u = [c \in {"c"} |-> requests]
    OBVIOUS
  <1>p. PICK p : p = [c \in {"c"} |-> part]
    OBVIOUS
  <1>f. PICK f : f = [c \in {"c"} |-> end']
    OBVIOUS
  <1>v. PICK v : v = [c \in {"c"} |-> requests']
    OBVIOUS
  <1>q. PICK q : q = [c \in {"c"} |-> part']
    OBVIOUS
  <1>1. e["c"] = end /\ u["c"] = requests /\ p["c"] = part
    BY <1>e, <1>u, <1>p
  <1>2. /\ f = [e EXCEPT !["c"] = end'] /\ v = [u EXCEPT !["c"] = requests']
        /\ q = [p EXCEPT !["c"] = part']
    BY <1>e, <1>u, <1>p, <1>f, <1>v, <1>q
  <1>3. /\ end' = end => f = e
        /\ requests' = requests => v = u
        /\ part' = part => q = p
    BY <1>e, <1>u, <1>p, <1>f, <1>v, <1>q
  <1>d. [c \in {"c"} |-> <<>>]' = [c \in {"c"} |-> <<>>]
    OBVIOUS
  <1>4. ASSUME end = "none", end' = "open", requests' = requests, part' = part
        PROVE  Stream!HostNext
    <2>1. e["c"] = "none" /\ f = [e EXCEPT !["c"] = "open"] /\ v = u /\ q = p
      BY <1>1, <1>2, <1>3, <1>4
    <2>2. Stream!connect("c")
      BY <2>1, <1>d, <1>e, <1>u, <1>p, <1>f, <1>v, <1>q DEF Stream!connect, end, requests, part
    <2> QED
      BY <2>2 DEF Stream!HostNext
  <1>5. ASSUME end = "open", part = NoMessage, part' \in Stream!Request,
               end' = end, requests' = requests
        PROVE  Stream!HostNext
    <2>1. /\ e["c"] = "open" /\ p["c"] = NoMessage
          /\ f = e /\ v = u /\ q = [p EXCEPT !["c"] = part']
      BY <1>1, <1>2, <1>3, <1>5
    <2>2. Stream!beginSend("c", part')
      BY <2>1, <1>d, <1>e, <1>u, <1>p, <1>f, <1>v, <1>q
         DEF Stream!beginSend, end, requests, part
    <2> QED
      BY <1>5, <2>2 DEF Stream!HostNext
  <1>6. ASSUME end = "open", part # NoMessage, part' = NoMessage,
               end' = end, requests' = Append(requests, part)
        PROVE  Stream!HostNext
    <2>1. /\ e["c"] = "open" /\ p["c"] # NoMessage
          /\ f = e /\ q = [p EXCEPT !["c"] = NoMessage]
      BY <1>1, <1>2, <1>3, <1>6
    <2>2. v = [u EXCEPT !["c"] = Append(u["c"], p["c"])]
      BY <1>1, <1>2, <1>6
    <2>3. Stream!endSend("c")
      BY <2>1, <2>2, <1>d, <1>e, <1>u, <1>p, <1>f, <1>v, <1>q
         DEF Stream!endSend, end, requests, part
    <2> QED
      BY <2>3 DEF Stream!HostNext
  <1>7. ASSUME end = "open", end' = "dropped", requests' = requests, part' = part
        PROVE  Stream!HostNext
    <2>1. e["c"] = "open" /\ f = [e EXCEPT !["c"] = "dropped"] /\ v = u /\ q = p
      BY <1>1, <1>2, <1>3, <1>7
    <2> QED
      BY <2>1, <1>d, <1>e, <1>u, <1>p, <1>f, <1>v, <1>q
         DEF Stream!HostNext, Stream!dropStream, end, requests, part
  <1>8. ASSUME end = "dropped", end' = "closed", part' = NoMessage,
               NEW tail \in IF part = NoMessage THEN {<<Stream!CloseSession>>}
                            ELSE Stream!Cut(part),
               requests' = requests \o tail
        PROVE  Stream!HostNext
    <2>1. /\ e["c"] = "dropped" /\ f = [e EXCEPT !["c"] = "closed"]
          /\ q = [p EXCEPT !["c"] = NoMessage]
      BY <1>1, <1>2, <1>8
    <2>2. v = [u EXCEPT !["c"] = u["c"] \o tail]
      BY <1>1, <1>2, <1>8
    <2>3. tail \in IF p["c"] = NoMessage THEN {<<Stream!CloseSession>>}
                   ELSE Stream!Cut(p["c"])
      BY <1>1
    <2>4. Stream!closeTask("c")
      BY <2>1, <2>2, <2>3, <1>d, <1>e, <1>u, <1>p, <1>f, <1>v, <1>q
         DEF Stream!closeTask, end, requests, part
    <2> QED
      BY <2>4 DEF Stream!HostNext
  <1>9. ASSUME end \in {"open", "dropped"}, end' = "closed", part' = NoMessage,
               requests' = requests
        PROVE  Stream!HostNext
    <2>1. /\ e["c"] \in {"open", "dropped"} /\ f = [e EXCEPT !["c"] = "closed"]
          /\ q = [p EXCEPT !["c"] = NoMessage] /\ v = u
      BY <1>1, <1>2, <1>3, <1>9
    <2>2. Stream!reset("c")
      BY <2>1, <1>d, <1>e, <1>u, <1>p, <1>f, <1>v, <1>q
         DEF Stream!reset, end, requests, part
    <2> QED
      BY <2>2 DEF Stream!HostNext
  <1>10. ASSUME end' = end, requests' = requests, part' = part
         PROVE  UNCHANGED Stream!streamVars
    <2>1. f = e /\ v = u /\ q = p
      BY <1>3, <1>10
    <2> QED
      BY <2>1, <1>d, <1>e, <1>u, <1>p, <1>f, <1>v, <1>q
         DEF Stream!streamVars, end, requests, part
  <1> QED
    BY <1>4, <1>5, <1>6, <1>7, <1>8, <1>9, <1>10 DEF HostStep

\* A message is a request of VsockStream.
LEMMA Requests ==
    ASSUME NEW m \in Message
    PROVE  m \in Stream!Request
  <1>1. CASE \E t \in PlainType \ {"CloseSession"} : m = Plain(t)
    <2>1. PICK t \in {"GetPublicKey", "AttestSigningKey"} : m = Plain(t)
      BY <1>1 DEF PlainType
    <2>2. m = Stream!Plain(t)
      BY <2>1 DEF Plain, Stream!Plain
    <2> QED
      BY <2>1, <2>2 DEF Stream!Request
  <1>2. CASE \E p \in Program, l \in Limit : m = Execute(p, l)
    <2>1. PICK p \in Program, l \in Limit : m = Execute(p, l)
      BY <1>2
    <2>2. m = Stream!Execute(p, l)
      BY <2>1 DEF Execute, Stream!Execute
    <2> QED
      BY <2>2 DEF Stream!Request
  <1> QED
    BY <1>1, <1>2, MessageKinds

\* Until its end is closed VsockStream has no more than what was sent.
LEMMA OpenStep ==
    ASSUME open
    PROVE  HostStep(end, requests, part, end', requests', part')
  <1>1. end = "none" /\ end' = "open"
    BY DEF open, end
  <1>2. requests' = requests /\ part' = part
    BY DEF open, requests, part
  <1> QED
    BY <1>1, <1>2 DEF HostStep

\* A send begins only when the one before has returned.
LEMMA BeginFrameStep ==
    ASSUME FramesInv, NEW next \in Message, beginFrame(next)
    PROVE  HostStep(end, requests, part, end', requests', part')
  <1>1. BytesTypeOK
    BY DEF FramesInv
  <1>2. PICK off : \E m \in Sendable, cut \in Nat, d \in 0..8 : Framed(off, m, cut, d)
    BY DEF FramesInv
  <1>3. PICK m \in Sendable, cut \in Nat, d \in 0..8 : Framed(off, m, cut, d)
    BY <1>2
  <1>4. sending = NoMessage
    <2>1. Len(frame(m)) \in Nat
      BY FrameBytes
    <2>2. cut < Len(frame(m)) /\ Len(rest) = 0
      BY <1>3, EmptySeq DEF Framed, Written, CutOff, CutOn, beginFrame
    <2> QED
      BY <1>3, <2>1, <2>2 DEF Framed, Written, beginFrame
  <1>5. end = "open" /\ end' = end /\ requests' = requests
    BY DEF beginFrame, end, requests
  <1>6. part = NoMessage /\ part' \in Stream!Request
    <2>1. sending' = next
      BY DEF beginFrame
    <2> QED
      BY <1>4, <2>1, Requests DEF part
  <1> QED
    BY <1>5, <1>6 DEF HostStep

\* With its last byte a send returns; VsockStream does not see the others.
LEMMA WriteByteStep ==
    ASSUME FramesInv, writeByte
    PROVE  HostStep(end, requests, part, end', requests', part')
  <1>1. BytesTypeOK
    BY DEF FramesInv
  <1>2. hostEnd = "open" /\ hostEnd' = "open"
    BY DEF writeByte
  <1>3. end = "open" /\ end' = end
    BY <1>2 DEF end
  <1>4. requests = sent /\ requests' = sent'
    BY <1>2 DEF requests
  <1>5. CASE Len(rest) > 1
    <2>1. sending' = sending /\ sent' = sent
      BY <1>5 DEF writeByte
    <2>2. requests' = requests /\ part' = part
      BY <1>4, <2>1 DEF part
    <2> QED
      BY <1>3, <2>2 DEF HostStep
  <1>6. CASE ~(Len(rest) > 1)
    <2>1. sending' = NoMessage /\ sent' = Append(sent, sending)
      BY <1>6 DEF writeByte
    <2>2. sending # NoMessage /\ sending \in Sendable
      <3>1. PICK off : \E m \in Sendable, cut \in Nat, d \in 0..8 : Framed(off, m, cut, d)
        BY DEF FramesInv
      <3>2. PICK m \in Sendable, cut \in Nat, d \in 0..8 : Framed(off, m, cut, d)
        BY <3>1
      <3> QED
        BY <1>1, <1>2, <3>2 DEF Framed, Written, writeByte, BytesTypeOK
    <2>3. part # NoMessage /\ part' = NoMessage
      BY <2>1, <2>2 DEF part
    <2>4. requests' = Append(requests, part)
      BY <1>4, <2>1 DEF part
    <2> QED
      BY <1>3, <2>3, <2>4 DEF HostStep
  <1> QED
    BY <1>5, <1>6

\* Where the send was cut is where VsockStream leaves it.
LEMMA DropHostStep ==
    ASSUME dropHost
    PROVE  HostStep(end, requests, part, end', requests', part')
  <1>1. end = "open" /\ end' = "dropped"
    BY DEF dropHost, end
  <1>2. requests' = requests /\ part' = part
    BY DEF dropHost, requests, part
  <1> QED
    BY <1>1, <1>2 DEF HostStep

\* VsockStream has the closing as one step, its last.
LEMMA BeginCloseStep ==
    ASSUME beginClose
    PROVE  HostStep(end, requests, part, end', requests', part')
  <1>1. end' = end /\ requests' = requests /\ part' = part
    BY DEF beginClose, end, requests, part
  <1> QED
    BY <1>1 DEF HostStep

\* With the last byte of the CloseSession what can be read is all there.
LEMMA CloseByteStep ==
    ASSUME FramesInv, FramesInv', closeByte
    PROVE  HostStep(end, requests, part, end', requests', part')
  <1>1. BytesTypeOK /\ BytesTypeOK'
    BY DEF FramesInv
  <1>2. hostEnd = "closing" /\ sent' = sent
    BY DEF closeByte
  <1>3. end = "dropped" /\ requests = sent
    BY <1>2 DEF end, requests
  <1>4. CASE Len(rest) > 1
    <2>1. hostEnd' = "closing" /\ sending' = sending
      BY <1>2, <1>4 DEF closeByte
    <2>2. end' = end /\ requests' = requests /\ part' = part
      BY <1>2, <2>1 DEF end, requests, part
    <2> QED
      BY <2>2 DEF HostStep
  <1>5. CASE ~(Len(rest) > 1)
    <2>1. hostEnd' = "closed" /\ sending' = NoMessage
      BY <1>5 DEF closeByte
    <2>2. end' = "closed" /\ requests' = framesOf(wire') /\ part' = NoMessage
      BY <2>1 DEF end, requests, part
    <2>3. PICK off : \E m \in Sendable, cut \in Nat, d \in 0..8 : Framed(off, m, cut, d)
      BY DEF FramesInv
    <2>4. PICK m \in Sendable, cut \in Nat, d \in 0..8 : Framed(off, m, cut, d)
      BY <2>3
    <2>5. Written(off, m, cut, d)
      BY <2>4 DEF Framed
    <2>6. /\ d \in 0..7 /\ Len(rest) = 8 - d
          /\ Laid(off)' /\ CutOff(off[Len(sent) + 1], m, cut, d + 1)'
      BY <1>1, <2>5, CloseByteWritten
    <2>7. d + 1 = 8
      BY <1>5, <2>6
    <2>8. LaidOn(wire', sent, off) /\ CutOn(wire', off[Len(sent) + 1], m, cut, 8)
      BY <1>2, <2>6, <2>7 DEF Laid, CutOff
    <2>w. PICK w : w = wire'
      OBVIOUS
    <2>9. w \in Seq(Byte) /\ sent \in Seq(Sendable) /\ 8 \in 0..8
      BY <1>1, <2>w DEF BytesTypeOK
    <2>10. /\ \E tail \in Stream!Cut(m) : framesOf(w) = sent \o tail
           /\ cut = 0 => framesOf(w) = sent \o <<Stream!CloseSession>>
      <3>1. LaidOn(w, sent, off) /\ CutOn(w, off[Len(sent) + 1], m, cut, 8)
        BY <2>8, <2>w, Zenon
      <3>2. /\ \E tail \in Stream!Cut(m) : framesOf(w) = sent \o tail
            /\ cut = 0 /\ 8 = 8 => framesOf(w) = sent \o <<Stream!CloseSession>>
        BY <2>9, <3>1, WireFrames, Zenon
      <3> QED
        BY <3>2, Zenon
    <2>11. \E tail \in IF part = NoMessage THEN {<<Stream!CloseSession>>}
                       ELSE Stream!Cut(part) :
              requests' = requests \o tail
      <3>1. CASE sending = NoMessage
        <4>1. cut = 0 /\ part = NoMessage
          BY <1>2, <2>5, <3>1 DEF Written, part
        <4> QED
          BY <1>3, <2>2, <2>10, <2>w, <4>1
      <3>2. CASE sending # NoMessage
        <4>1. part = m /\ part # NoMessage
          BY <2>5, <3>2 DEF Written, part
        <4> QED
          BY <1>3, <2>2, <2>10, <2>w, <4>1
      <3> QED
        BY <3>1, <3>2
    <2> QED
      BY <1>3, <2>2, <2>11 DEF HostStep
  <1> QED
    BY <1>4, <1>5

\* When the process ends it is what there is.
LEMMA ExitStep ==
    ASSUME FramesInv, exit
    PROVE  HostStep(end, requests, part, end', requests', part')
  <1>1. BytesTypeOK
    BY DEF FramesInv
  <1>2. PICK off : \E m \in Sendable, cut \in Nat, d \in 0..8 : Framed(off, m, cut, d)
    BY DEF FramesInv
  <1>3. PICK m \in Sendable, cut \in Nat, d \in 0..8 : Framed(off, m, cut, d)
    BY <1>2
  <1>4. Written(off, m, cut, d)
    BY <1>3 DEF Framed
  <1>5. end \in {"open", "dropped"} /\ requests = sent
    BY DEF exit, end, requests
  <1>6. end' = "closed" /\ part' = NoMessage /\ requests' = framesOf(wire)
    BY DEF exit, end, requests, part
  <1>7. LaidOn(wire, sent, off) /\ CutOn(wire, off[Len(sent) + 1], m, cut, d)
    BY <1>4 DEF Written, Laid, CutOff
  <1>8. wire \in Seq(Byte) /\ sent \in Seq(Sendable)
    BY <1>1 DEF BytesTypeOK
  <1>9. /\ \E tail \in Stream!Cut(m) : framesOf(wire) = sent \o tail
        /\ d = 0 \/ (cut = 0 /\ d < 8) => framesOf(wire) = sent
    BY <1>7, <1>8, WireFrames
  <1>10. CASE d = 0 \/ (cut = 0 /\ d < 8)
    BY <1>5, <1>6, <1>9, <1>10 DEF HostStep
  <1>11. CASE ~(d = 0 \/ (cut = 0 /\ d < 8))
    <2>1. hostEnd = "closing" /\ sending # NoMessage /\ sending = m
      BY <1>4, <1>11 DEF Written, exit
    <2>2. end = "dropped" /\ part = m /\ part # NoMessage
      BY <2>1 DEF end, part
    <2> QED
      BY <1>5, <1>6, <1>9, <2>2 DEF HostStep
  <1> QED
    BY <1>10, <1>11

\* VsockStream does not have the reader.
LEMMA ReaderStep ==
    ASSUME UNCHANGED writerVars
    PROVE  HostStep(end, requests, part, end', requests', part')
  <1>1. end' = end /\ requests' = requests /\ part' = part
    BY DEF writerVars, end, requests, part
  <1> QED
    BY <1>1 DEF HostStep

\* After whatever byte it was cut, what is on the wire is what VsockStream says: the host's
\* side of it is what send, Drop and the end of the process come to, byte for byte
\* (communication.rs, stream.rs).
THEOREM BytesImplementStream == FramesSpec => ImplementsStream
  <1>1. FramesInit => Stream!StreamInit
    <2> SUFFICES ASSUME FramesInit PROVE Stream!StreamInit
      OBVIOUS
    <2>1. hostEnd = "none" /\ sent = <<>> /\ sending = NoMessage
      BY DEF FramesInit
    <2> QED
      BY <2>1 DEF Stream!StreamInit
  <1>2. FramesInv /\ FramesInv' /\ [FramesNext]_frameVars
            => [Stream!HostNext]_Stream!streamVars
    <2> SUFFICES ASSUME FramesInv, FramesInv', [FramesNext]_frameVars
                 PROVE  [Stream!HostNext]_Stream!streamVars
      OBVIOUS
    <2>1. HostStep(end, requests, part, end', requests', part')
      <3>1. CASE open
        BY <3>1, OpenStep
      <3>2. CASE \E m \in Message : beginFrame(m)
        BY <3>2, BeginFrameStep
      <3>3. CASE writeByte
        BY <3>3, WriteByteStep
      <3>4. CASE dropHost
        BY <3>4, DropHostStep
      <3>5. CASE beginClose
        BY <3>5, BeginCloseStep
      <3>6. CASE closeByte
        BY <3>6, CloseByteStep
      <3>7. CASE exit
        BY <3>7, ExitStep
      <3>8. CASE readLength \/ readBody \/ readEof \/ UNCHANGED frameVars
        <4>1. UNCHANGED writerVars
          BY <3>8 DEF readLength, readBody, readEof, frameVars, writerVars
        <4> QED
          BY <4>1, ReaderStep
      <3> QED
        BY <3>1, <3>2, <3>3, <3>4, <3>5, <3>6, <3>7, <3>8 DEF FramesNext
    <2> QED
      BY <2>1, HostSteps
  <1> QED
    BY <1>1, <1>2, FramesInvariant, PTL DEF FramesSpec, ImplementsStream, Stream!HostSpec

=============================================================================

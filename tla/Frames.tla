------------------------------- MODULE Frames -------------------------------
(***************************************************************************)
(* The bytes below VsockStream: send and recv of                           *)
(* common/src/communication.rs between a HostStream and the handler of its *)
(* connection, one byte at a time.  A frame is four bytes of length,       *)
(* big-endian, and a message in bincode: the number of its variant in four *)
(* bytes, little-endian, and its fields.  The writer may be dropped after  *)
(* any byte, and the task that closes the stream then writes its own frame *)
(* behind what is there; or the process ends and the socket closes.        *)
(*                                                                         *)
(* This is where VsockStream!Cut comes from: Frames implements the host's  *)
(* side of VsockStream.                                                    *)
(***************************************************************************)
EXTENDS Integers, Sequences, SequencesExt, FiniteSetsExt

CONSTANTS
    Program,          \* the bytes of a program with its input
    Limit,            \* cycle limits, each of eight bytes, little-endian
    NoMessage,
    MaxSends          \* bound on the sends of a connection

Byte == 0..255

\* bincode writes a program so that its end is told from its own bytes: none is the
\* beginning of another.
ASSUME FrameAssumption ==
    /\ Program \subseteq Seq(Byte) /\ Limit \subseteq [1..8 -> Byte]
    /\ \A p, q \in Program : IsPrefix(p, q) => p = q

Plain(type) == [type |-> type]

Execute(program, limit) ==
    [type |-> "Execute", program |-> program, cycle_limit |-> limit]

CloseSession == Plain("CloseSession")

\* What the host sends.
Message ==
    {Plain("GetPublicKey"), Plain("AttestSigningKey")}
    \cup {Execute(p, l) : p \in Program, l \in Limit}

ASSUME NoMessageAssumption == NoMessage \notin Message

Variant == [GetPublicKey |-> 1, AttestSigningKey |-> 3, Execute |-> 4,
            CloseSession |-> 6]

\* bincode::serialize
serialize(m) ==
    <<Variant[m.type], 0, 0, 0>>
    \o (IF m.type = "Execute" THEN m.program \o m.cycle_limit ELSE <<>>)

\* to_be_bytes and from_be_bytes
toBytes(n) == <<n \div 16777216, (n \div 65536) % 256, (n \div 256) % 256, n % 256>>

\* A plausible bug: the bytes are read in the order of the machine.
fromBytesLittle(b) == ((b[4] * 256 + b[3]) * 256 + b[2]) * 256 + b[1]

fromBytes(b) == ((b[1] * 256 + b[2]) * 256 + b[3]) * 256 + b[4]

\* A plausible bug: the length counts its own four bytes.
frameCountsItself(m) == toBytes(Len(serialize(m)) + 4) \o serialize(m)

frame(m) == toBytes(Len(serialize(m))) \o serialize(m)

\* MessageTooLarge: more than u32::MAX bytes, said without the number itself, which
\* TLC does not have.
tooLarge(m) == Len(serialize(m)) \div 65536 > 65535

Malformed == Plain("Malformed")

\* An Execute of this program begins the body.
holdsExecute(body, program) ==
    /\ Len(body) >= Len(program) + 12
    /\ IsPrefix(<<Variant["Execute"], 0, 0, 0>> \o program, body)

\* bincode::deserialize, of a body as long as its frame says: it reads as far as
\* the message goes, and what is left behind that is no error.
deserialize(body) ==
    LET plain == {Plain(t) : t \in DOMAIN Variant \ {"Execute"}}
    IN  CASE \E m \in plain : IsPrefix(serialize(m), body) ->
                CHOOSE m \in plain : IsPrefix(serialize(m), body)
          [] \E p \in Program : holdsExecute(body, p) ->
                LET p == CHOOSE q \in Program : holdsExecute(body, q)
                IN  Execute(p, SubSeq(body, Len(p) + 5, Len(p) + 12))
          [] OTHER -> Malformed

VARIABLES
    hostEnd,          \* "none", "open", "dropped", "closing", "closed"
    wire,             \* every byte written
    rest,             \* the bytes of the frame being written that are to come
    sending,          \* the message being sent, or cut short, or NoMessage
    sent,             \* the messages whose send returned
    reader,           \* "length", "body", "ended", "panicked"
    taken,            \* how many bytes have been read
    need,             \* the length of the body awaited
    read              \* the messages read

writerVars == <<hostEnd, wire, rest, sending, sent>>
readerVars == <<reader, taken, need, read>>
frameVars == <<writerVars, readerVars>>

FramesInit ==
    /\ hostEnd = "none"
    /\ wire = <<>> /\ rest = <<>> /\ sending = NoMessage /\ sent = <<>>
    /\ reader = "length" /\ taken = 0 /\ need = 0 /\ read = <<>>

-----------------------------------------------------------------------------
\* HostStream, and VsockStream::send

\* Dropped at its await, connecting is this and the end of the process.
open ==
    /\ hostEnd = "none"
    /\ hostEnd' = "open"
    /\ UNCHANGED <<wire, rest, sending, sent, readerVars>>

beginFrame(m) ==
    /\ hostEnd = "open" /\ rest = <<>> /\ Len(sent) < MaxSends
    /\ ~tooLarge(m)
    /\ rest' = frame(m)
    /\ sending' = m
    /\ UNCHANGED <<hostEnd, wire, sent, readerVars>>

\* write_all, one byte of it.  With the last byte the send returns.
writeByte ==
    /\ hostEnd = "open" /\ rest # <<>>
    /\ wire' = Append(wire, Head(rest))
    /\ rest' = Tail(rest)
    /\ IF Len(rest) > 1 THEN UNCHANGED <<sending, sent>>
       ELSE sending' = NoMessage /\ sent' = Append(sent, sending)
    /\ UNCHANGED <<hostEnd, readerVars>>

\* The caller returns, or its future is dropped at an await of send.
dropHost ==
    /\ hostEnd = "open"
    /\ hostEnd' = "dropped"
    /\ rest' = <<>>
    /\ UNCHANGED <<wire, sending, sent, readerVars>>

\* The task that Drop spawned.
beginClose ==
    /\ hostEnd = "dropped"
    /\ hostEnd' = "closing"
    /\ rest' = frame(CloseSession)
    /\ UNCHANGED <<wire, sending, sent, readerVars>>

\* With its last byte the task ends, and drops the socket.
closeByte ==
    /\ hostEnd = "closing"
    /\ wire' = Append(wire, Head(rest))
    /\ rest' = Tail(rest)
    /\ IF Len(rest) > 1 THEN UNCHANGED <<hostEnd, sending>>
       ELSE hostEnd' = "closed" /\ sending' = NoMessage
    /\ UNCHANGED <<sent, readerVars>>

\* The process ends, and its sockets close.
exit ==
    /\ hostEnd \in {"open", "dropped", "closing"}
    /\ hostEnd' = "closed"
    /\ rest' = <<>> /\ sending' = NoMessage
    /\ UNCHANGED <<wire, sent, readerVars>>

-----------------------------------------------------------------------------
\* VsockStream::recv, in the loop of handle_connection

available == Len(wire) - taken

readLength ==
    /\ reader = "length" /\ available >= 4
    /\ need' = fromBytes(SubSeq(wire, taken + 1, taken + 4))
    /\ taken' = taken + 4
    /\ reader' = "body"
    /\ UNCHANGED <<writerVars, read>>

\* A plausible bug: one read instead of read_exact, into a buffer of zeroes.
readBodyOnce ==
    /\ reader = "body" /\ available > 0
    /\ LET n == Min({need, available})
           body == [i \in 1..need |-> IF i <= n THEN wire[taken + i] ELSE 0]
       IN  /\ taken' = taken + n
           /\ IF deserialize(body) = Malformed THEN reader' = "panicked" /\ UNCHANGED read
              ELSE reader' = "length" /\ read' = Append(read, deserialize(body))
    /\ need' = 0
    /\ UNCHANGED writerVars

\* read_exact, and what bincode makes of it: a message, the last one, or an
\* error, which is unwrapped.
readBody ==
    /\ reader = "body" /\ available >= need
    /\ LET m == deserialize(SubSeq(wire, taken + 1, taken + need))
       IN  IF m = Malformed THEN reader' = "panicked" /\ UNCHANGED read
           ELSE /\ read' = Append(read, m)
                /\ reader' = IF m = CloseSession THEN "ended" ELSE "length"
    /\ taken' = taken + need
    /\ need' = 0
    /\ UNCHANGED writerVars

\* read_exact fails: the socket closed before.
readEof ==
    /\ hostEnd = "closed"
    /\ \/ reader = "length" /\ available < 4
       \/ reader = "body" /\ available < need
    /\ reader' = "panicked"
    /\ need' = 0
    /\ UNCHANGED <<writerVars, taken, read>>

FramesNext ==
    \/ open \/ \E m \in Message : beginFrame(m)
    \/ writeByte \/ dropHost \/ beginClose \/ closeByte \/ exit
    \/ readLength \/ readBody \/ readEof

FramesSpec == FramesInit /\ [][FramesNext]_frameVars

-----------------------------------------------------------------------------

\* The messages that a reader of these bytes comes to read.
framesOf(bytes) ==
    LET from[i \in 1..(Len(bytes) + 1)] ==
            IF i + 3 > Len(bytes) THEN <<>>
            ELSE LET n == fromBytes(SubSeq(bytes, i, i + 3))
                     m == deserialize(SubSeq(bytes, i + 4, i + 3 + n))
                 IN  IF i + 3 + n > Len(bytes) \/ m = Malformed THEN <<>>
                     ELSE IF m = CloseSession THEN <<m>>
                     ELSE <<m>> \o from[i + 4 + n]
    IN  from[1]

\* What a limit becomes when its last c bytes are the first of a CloseSession.
overwritten(limit, c) ==
    [i \in 1..8 |-> IF i <= 8 - c THEN limit[i] ELSE frame(CloseSession)[i - (8 - c)]]

\* The one connection of this module in VsockStream, limits being their bytes.
Stream == INSTANCE VsockStream WITH
    Conn <- {"c"}, NoRequest <- NoMessage, CycleLimit <- Limit,
    Mixed <- [limit \in Limit |-> {overwritten(limit, c) : c \in 1..8}],
    hostEnd <- [c \in {"c"} |-> IF hostEnd = "closing" THEN "dropped" ELSE hostEnd],
    up <- [c \in {"c"} |-> IF hostEnd = "closed" THEN framesOf(wire) ELSE sent],
    down <- [c \in {"c"} |-> <<>>],
    partial <- [c \in {"c"} |-> sending]

\* What is on the wire when the host's end is closed, after whatever byte it was
\* cut, is what VsockStream says: the frames sent, and one of Cut behind them.
ImplementsStream == Stream!HostSpec

\* The handler reads the messages that were sent, in order; behind them, and
\* only when a send was cut, one that VsockStream!Cut allows.
ReadsWhatWasSent ==
    \/ IsPrefix(read, Append(sent, CloseSession))
    \/ /\ sending # NoMessage \/ hostEnd = "closed"
       /\ \E m \in Message : \E tail \in Stream!Cut(m) :
             IsPrefix(read, sent \o tail)

\* The length is taken from the wire and a buffer of this length allocated before
\* a byte of the message is there.  Cut at whatever byte, what follows is never
\* taken for a length beyond the longest message sent or 100663296, the bytes of a
\* CloseSession read three bytes off: a fraction of the enclave's memory.
AllocationBounded ==
    \/ need <= 6 * 16777216
    \/ \E m \in Message : need <= Len(serialize(m))
=============================================================================

--------------------------- MODULE ExecutionQueue ---------------------------
(***************************************************************************)
(* What POST /execute promises its callers: first come, first served, one  *)
(* at a time, and whoever is served gets the outcome of its own program or *)
(* an error.  A caller may leave at any time; nobody is answered twice.    *)
(***************************************************************************)
EXTENDS Naturals, Sequences, SequencesExt

CONSTANTS
    Caller,
    Outcomes(_)       \* what the program of a caller can come to

VARIABLES
    line,             \* the callers admitted, the one being served first
    answered,         \* caller -> the sequence of answers it was given
    left              \* the callers that went away

vars == <<line, answered, left>>

Init == line = <<>> /\ answered = [k \in Caller |-> <<>>] /\ left = {}

Unserved(k) == answered[k] = <<>> /\ k \notin left

Give(k, outcome) == answered' = [answered EXCEPT ![k] = Append(@, outcome)]

Enter(k) ==
    /\ Unserved(k) /\ k \notin Range(line)
    /\ line' = Append(line, k)
    /\ UNCHANGED <<answered, left>>

\* Turned away at the door.
Refuse(k) ==
    /\ Unserved(k) /\ k \notin Range(line)
    /\ Give(k, [type |-> "Refused"])
    /\ UNCHANGED <<line, left>>

Serve(k) ==
    /\ line # <<>> /\ Head(line) = k
    /\ \E outcome \in Outcomes(k) : Give(k, outcome)
    /\ line' = Tail(line)
    /\ UNCHANGED left

\* A caller goes away, and out of the line if it was there.
Leave(k) ==
    /\ Unserved(k)
    /\ left' = left \cup {k}
    /\ \/ k \notin Range(line) /\ UNCHANGED line
       \/ \E i \in 1..Len(line) : line[i] = k /\ line' = RemoveAt(line, i)
    /\ UNCHANGED answered

\* The queue closes: whoever was not served goes away.
Close ==
    /\ left' = left \cup {k \in Caller : Unserved(k)}
    /\ line' = <<>>
    /\ UNCHANGED answered

Next ==
    \/ \E k \in Caller : Enter(k) \/ Refuse(k) \/ Serve(k) \/ Leave(k)
    \/ Close

Spec == Init /\ [][Next]_vars
=============================================================================

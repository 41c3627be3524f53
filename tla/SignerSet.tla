----------------------------- MODULE SignerSet -----------------------------
(***************************************************************************)
(* What SignersMap.sol promises its callers: a set of addresses, the same  *)
(* whether it is asked of isSigner() or of getSigners().  Adding a member, *)
(* or removing a stranger, reverts and so is not a step.                   *)
(***************************************************************************)
CONSTANT Address

VARIABLES
    accepted,         \* those isSigner() accepts
    listed            \* those getSigners() lists

setVars == <<accepted, listed>>

Init == accepted = {} /\ listed = {}

Add(a) ==
    /\ a \notin accepted
    /\ accepted' = accepted \cup {a}
    /\ listed' = listed \cup {a}

Remove(a) ==
    /\ a \in accepted
    /\ accepted' = accepted \ {a}
    /\ listed' = listed \ {a}

Next == \E a \in Address : Add(a) \/ Remove(a)

Spec == Init /\ [][Next]_setVars
=============================================================================

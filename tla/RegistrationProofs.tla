------------------------- MODULE RegistrationProofs -------------------------
(***************************************************************************)
(* For any setups, contracts, keys and images: only enclaves that ran an   *)
(* image asked for get registered, and what a setup says it added is there *)
(* while no owner intervenes.                                              *)
(*                                                                         *)
(* Neither is inductive.  Between the check of the measurement and the     *)
(* mining of the transaction lie three awaits, so the invariant follows    *)
(* the signer in hand: measured while it is checked, then on its way or in *)
(* the contract while it is confirmed.  And the contract in hand: it is    *)
(* taken once, is on the chain when a transaction is sent, and has the     *)
(* sender as its owner until that owner intervenes.                        *)
(***************************************************************************)
EXTENDS Registration, RawAttestationsProofs

\* What the proofs need of the types.
Shapes ==
    /\ registers \in SUBSET Setup
    /\ DOMAIN pc = Reader /\ DOMAIN todo = Reader
    /\ deployment \in Contract /\ deployed \in SUBSET Contract
    /\ target \in [Setup -> Contract \cup {Nobody}]
    /\ owner \in [Contract -> Account \cup {Nobody}]
    /\ DOMAIN registered = Contract /\ DOMAIN reported = Setup
    /\ meddled \in SUBSET Contract

Before == {"idle", "deploying", "deployed"}

\* A contract is taken once, and one yet to be deployed is used by none.
TargetInv ==
    /\ \A s \in Setup :
          pc[s] \in Before => target[s] = Nobody /\ reported[s] = {}
    /\ \A s \in Deploys : pc[s] \in {"idle", "deploying"} => s \notin deployed
    /\ \A s \in Setup : pc[s] = "deploying" => s \in Deploys

\* The signer in hand.
InHand ==
    \A s \in Setup :
        /\ pc[s] = "checked" =>
              target[s] \in deployed /\ rightImage(s, Head(todo[s]))
        /\ pc[s] = "confirming" /\ target[s] \notin meddled =>
              \/ <<s, Head(todo[s])>> \in pending
              \/ Head(todo[s]) \in registered[target[s]]
        /\ pc[s] = "confirming" => target[s] \in deployed

\* A transaction that was sent.
Sent(s, k) ==
    /\ s \in registers /\ target[s] \in deployed /\ rightImage(s, k)
    /\ target[s] \notin meddled => owner[target[s]] = AccountOf[s]

PendingInv == \A tx \in pending : tx = <<tx[1], tx[2]>> /\ Sent(tx[1], tx[2])

\* Whatever happened to its transactions: while no owner intervenes, the signers
\* that a setup printed as added are in its contract.
ReportedAreRegistered ==
    \A s \in Setup : target[s] \in Contract \ meddled =>
        reported[s] \subseteq registered[target[s]]

RegInv ==
    /\ Shapes /\ TargetInv /\ InHand /\ PendingInv
    /\ RegisteredRanImage
    /\ ReportedAreRegistered

\* No contract is taken for none.
LEMMA NobodyIsNoContract == Nobody \notin Contract
  BY SetupAssumption, ChainAssumption DEF Contract

\* Before the first setup nothing is deployed but the initial contract.
LEMMA RegInitEstablishes == RegInit => RegInv
  <1> SUFFICES ASSUME RegInit PROVE RegInv
    OBVIOUS
  <1>1. /\ registers \in SUBSET Setup
        /\ pc = [r \in Reader |-> "idle"] /\ todo = [r \in Reader |-> <<>>]
        /\ deployment = Initial /\ deployed = {Initial}
        /\ owner = [c \in Contract |-> IF c = Initial THEN FirstOwner ELSE Nobody]
        /\ registered = [c \in Contract |-> {}]
        /\ target = [s \in Setup |-> Nobody]
        /\ pending = {} /\ meddled = {}
        /\ reported = [s \in Setup |-> {}]
    BY DEF RegInit
  <1>2. Initial \in Contract /\ FirstOwner \in Account /\ Setup \subseteq Reader
        /\ Deploys \subseteq Setup /\ Initial \notin Setup
    BY SetupAssumption, ChainAssumption DEF Contract
  <1>3. Shapes
    BY <1>1, <1>2 DEF Shapes
  <1>4. TargetInv /\ InHand /\ PendingInv
    BY <1>1, <1>2 DEF TargetInv, InHand, PendingInv
  <1>5. RegisteredRanImage /\ ReportedAreRegistered
    BY <1>1 DEF RegisteredRanImage, ReportedAreRegistered
  <1> QED
    BY <1>3, <1>4, <1>5 DEF RegInv

-----------------------------------------------------------------------------
\* A step of one setup leaves the place of the others alone.

Own(s) ==
    /\ DOMAIN pc' = Reader /\ DOMAIN todo' = Reader
    /\ \A r \in Reader \ {s} : pc'[r] = pc[r] /\ todo'[r] = todo[r]

\* A setup that moves on moves alone.
LEMMA GotoIsOwn ==
    ASSUME Shapes, NEW s \in Setup, NEW label, goto(s, label),
           NEW rest, UNCHANGED todo \/ todo' = [todo EXCEPT ![s] = rest]
    PROVE  Own(s) /\ pc'[s] = label
  BY SetupAssumption DEF Shapes, Own, goto

\* So does one that panics.
LEMMA PanicIsOwn ==
    ASSUME Shapes, NEW s \in Setup, panic(s)
    PROVE  Own(s) /\ pc'[s] = "panicked"
  BY GotoIsOwn DEF panic, giveUp

\* And one that goes to its next signer.
LEMMA ContinueIsOwn ==
    ASSUME Shapes, NEW s \in Setup, continue(s)
    PROVE  Own(s) /\ pc'[s] \in {"fetched", "complete"}
  BY SetupAssumption DEF continue, goto, Shapes, Own

\* Where a setup has neither a signer in hand nor a contract still to take.
Elsewhere == {"loaded", "fetching", "fetched", "complete", "failed", "panicked"}

\* Steps that change nothing but where a setup is.
LEMMA MovesPreserve ==
    ASSUME RegInv, NEW s \in Setup, Own(s), pc'[s] \in Elsewhere,
           UNCHANGED <<chainVars, setupVars>>
    PROVE  RegInv'
  <1> USE SetupAssumption
  <1>1. Shapes /\ TargetInv /\ InHand /\ PendingInv /\ RegisteredRanImage
        /\ ReportedAreRegistered
    BY DEF RegInv
  <1>2. Shapes'
    BY <1>1 DEF Shapes, Own, chainVars, setupVars
  <1>3. TargetInv'
    BY <1>1 DEF TargetInv, Before, Own, Elsewhere, chainVars, setupVars
  <1>4. InHand'
    BY <1>1 DEF InHand, Own, Elsewhere, chainVars, setupVars, rightImage
  <1>5. PendingInv'
    BY <1>1 DEF PendingInv, Sent, rightImage, chainVars, setupVars
  <1>6. RegisteredRanImage' /\ ReportedAreRegistered'
    BY <1>1 DEF RegisteredRanImage, ReportedAreRegistered, chainVars, setupVars
  <1> QED
    BY <1>2, <1>3, <1>4, <1>5, <1>6 DEF RegInv

\* Steps of the bucket.
LEMMA BucketPreserves ==
    ASSUME RegInv, bucketStep, UNCHANGED <<chainVars, setupVars>>
    PROVE  RegInv'
  <1>1. UNCHANGED <<pc, todo>>
    BY DEF bucketStep, hostStep, lapse, lapseCopy, readVars
  <1> QED
    BY <1>1 DEF RegInv, Shapes, TargetInv, InHand, PendingInv, Sent, rightImage,
                RegisteredRanImage, ReportedAreRegistered, chainVars, setupVars

-----------------------------------------------------------------------------
\* The deployment.

\* The script writes the address of a contract that is still to be broadcast.
LEMMA SimulatePreserves ==
    ASSUME RegInv, NEW s \in Setup, simulate(s)
    PROVE  RegInv'
  <1>1. Shapes /\ TargetInv /\ InHand /\ PendingInv /\ RegisteredRanImage
        /\ ReportedAreRegistered
    BY DEF RegInv
  <1>2. /\ pc[s] = "idle" /\ s \in Deploys
        /\ deployment' \in {deployment, s}
        /\ UNCHANGED <<chainVars, registers, target, reported>>
    BY DEF simulate
  <1>3. Own(s) /\ pc'[s] \in {"deploying", "panicked"}
    BY <1>1, GotoIsOwn, PanicIsOwn DEF simulate
  <1>4. Shapes'
    BY <1>1, <1>2, <1>3 DEF Shapes, Own, chainVars, Contract
  <1>5. TargetInv'
    BY <1>1, <1>2, <1>3, SetupAssumption DEF TargetInv, Before, Own, chainVars
  <1>6. InHand'
    BY <1>1, <1>2, <1>3, SetupAssumption DEF InHand, Own, chainVars, rightImage
  <1>7. PendingInv' /\ RegisteredRanImage' /\ ReportedAreRegistered'
    BY <1>1, <1>2 DEF PendingInv, Sent, rightImage, chainVars, RegisteredRanImage,
                      ReportedAreRegistered
  <1> QED
    BY <1>4, <1>5, <1>6, <1>7 DEF RegInv

\* What is in use is on the chain already, so its owner does not change.
LEMMA BroadcastPreserves ==
    ASSUME RegInv, NEW s \in Setup, broadcast(s)
    PROVE  RegInv'
  <1>1. Shapes /\ TargetInv /\ InHand /\ PendingInv /\ RegisteredRanImage
        /\ ReportedAreRegistered
    BY DEF RegInv
  <1>2. /\ pc[s] = "deploying"
        /\ UNCHANGED <<registered, pending, meddled, setupVars>>
        /\ \/ UNCHANGED <<deployed, owner>>
           \/ /\ deployed' = deployed \cup {s}
              /\ owner' = [owner EXCEPT ![s] = AccountOf[s]]
    BY DEF broadcast
  <1>3. Own(s) /\ pc'[s] \in {"deployed", "panicked"}
    BY <1>1, GotoIsOwn, PanicIsOwn DEF broadcast
  <1>4. s \in Deploys /\ s \in Contract /\ s \notin deployed
    BY <1>1, <1>2 DEF TargetInv, Contract
  <1>5. \A c \in deployed : c \in deployed' /\ owner'[c] = owner[c]
    BY <1>1, <1>2, <1>4 DEF Shapes
  <1>6. Shapes'
    BY <1>1, <1>2, <1>3, <1>4, ChainAssumption DEF Shapes, Own, setupVars
  <1>7. TargetInv'
    BY <1>1, <1>2, <1>3, SetupAssumption DEF TargetInv, Before, Own, setupVars
  <1>8. InHand'
    BY <1>1, <1>2, <1>3, <1>5, SetupAssumption DEF InHand, Own, setupVars, rightImage
  <1>9. PendingInv'
    BY <1>1, <1>2, <1>5 DEF PendingInv, Sent, setupVars, rightImage
  <1>10. RegisteredRanImage' /\ ReportedAreRegistered'
    BY <1>1, <1>2 DEF RegisteredRanImage, ReportedAreRegistered, setupVars
  <1> QED
    BY <1>6, <1>7, <1>8, <1>9, <1>10 DEF RegInv

\* The setup that takes a contract has used none, and has nothing pending.
LEMMA LoadPreserves ==
    ASSUME RegInv, NEW s \in Setup, loadDeployment(s)
    PROVE  RegInv'
  <1>1. Shapes /\ TargetInv /\ InHand /\ PendingInv /\ RegisteredRanImage
        /\ ReportedAreRegistered
    BY DEF RegInv
  <1>2. /\ pc[s] \in {"idle", "deployed"}
        /\ UNCHANGED <<chainVars, registers, deployment, reported>>
        /\ target' \in {target, [target EXCEPT ![s] = deployment]}
    BY DEF loadDeployment
  <1>3. Own(s) /\ pc'[s] \in {"loaded", "panicked"}
    BY <1>1, GotoIsOwn, PanicIsOwn DEF loadDeployment
  <1>4. target[s] = Nobody /\ reported[s] = {}
    BY <1>1, <1>2 DEF TargetInv, Before
  <1>5. \A t \in Setup \ {s} : target'[t] = target[t]
    BY <1>1, <1>2 DEF Shapes
  <1>6. Shapes'
    BY <1>1, <1>2, <1>3, SetupAssumption DEF Shapes, Own, chainVars
  <1>7. TargetInv'
    BY <1>1, <1>2, <1>3, <1>5, SetupAssumption DEF TargetInv, Before, Own, chainVars
  <1>8. InHand'
    BY <1>1, <1>2, <1>3, <1>5, SetupAssumption DEF InHand, Own, chainVars, rightImage
  <1>9. PendingInv'
    <2>1. ASSUME NEW t \in Setup, NEW k, Sent(t, k) PROVE Sent(t, k)'
      <3>1. t # s
        BY <1>1, <1>4, <2>1, NobodyIsNoContract DEF Sent, Shapes
      <3> QED
        BY <1>2, <1>5, <2>1, <3>1 DEF Sent, rightImage, chainVars
    <2> QED
      BY <1>1, <1>2, <2>1 DEF PendingInv, Sent, Shapes, chainVars
  <1>10. RegisteredRanImage'
    <2>1. \A t \in registers, c \in Contract : target[t] = c => target'[t] = c
      BY <1>1, <1>4, <1>5, NobodyIsNoContract DEF Shapes
    <2> QED
      BY <1>1, <1>2, <2>1 DEF RegisteredRanImage, chainVars
  <1>11. ReportedAreRegistered'
    BY <1>1, <1>2, <1>4, <1>5 DEF ReportedAreRegistered, chainVars
  <1> QED
    BY <1>6, <1>7, <1>8, <1>9, <1>10, <1>11 DEF RegInv

-----------------------------------------------------------------------------
\* The loop.

\* A signer is checked: what was measured is what will be sent.
LEMMA VerifyPreserves ==
    ASSUME RegInv, NEW s \in Setup, verify(s)
    PROVE  RegInv'
  <1>1. Shapes /\ TargetInv /\ InHand /\ PendingInv /\ RegisteredRanImage
        /\ ReportedAreRegistered
    BY DEF RegInv
  <1>2. pc[s] = "fetched" /\ UNCHANGED <<chainVars, setupVars>>
    BY DEF verify
  <1>3. CASE continue(s) \/ panic(s)
    <2>1. Own(s) /\ pc'[s] \in Elsewhere
      BY <1>1, <1>3, ContinueIsOwn, PanicIsOwn DEF Elsewhere
    <2> QED
      BY <1>2, <2>1, MovesPreserve
  <1>4. CASE /\ rightImage(s, Head(todo[s])) /\ target[s] \in deployed
             /\ goto(s, "checked") /\ UNCHANGED todo
    <2>1. Own(s) /\ pc'[s] = "checked"
      BY <1>1, <1>4, GotoIsOwn
    <2>2. Shapes'
      BY <1>1, <1>2, <2>1 DEF Shapes, Own, chainVars, setupVars
    <2>3. TargetInv'
      BY <1>1, <1>2, <2>1, SetupAssumption
      DEF TargetInv, Before, Own, chainVars, setupVars
    <2>4. InHand'
      BY <1>1, <1>2, <1>4, <2>1, SetupAssumption
      DEF InHand, Own, chainVars, setupVars, rightImage
    <2>5. PendingInv' /\ RegisteredRanImage' /\ ReportedAreRegistered'
      BY <1>1, <1>2 DEF PendingInv, Sent, rightImage, chainVars, setupVars,
                        RegisteredRanImage, ReportedAreRegistered
    <2> QED
      BY <2>2, <2>3, <2>4, <2>5 DEF RegInv
  <1> QED
    BY <1>3, <1>4 DEF verify

\* What is sent was measured, and the simulation found the sender to be the owner.
LEMMA SendPreserves ==
    ASSUME RegInv, NEW s \in Setup, send(s)
    PROVE  RegInv'
  <1> DEFINE k == Head(todo[s])
  <1>1. Shapes /\ TargetInv /\ InHand /\ PendingInv /\ RegisteredRanImage
        /\ ReportedAreRegistered
    BY DEF RegInv
  <1>2. /\ pc[s] = "checked" /\ s \in registers
        /\ UNCHANGED <<deployed, owner, registered, meddled, setupVars>>
    BY DEF send
  <1>3. CASE panic(s) /\ UNCHANGED pending
    <2>1. Own(s) /\ pc'[s] \in Elsewhere
      BY <1>1, <1>3, PanicIsOwn DEF Elsewhere
    <2> QED
      BY <1>2, <1>3, <2>1, MovesPreserve DEF chainVars
  <1>4. CASE /\ mayAdd(s, k) /\ pending' = pending \cup {<<s, k>>}
             /\ goto(s, "confirming") /\ UNCHANGED todo
    <2>1. Own(s) /\ pc'[s] = "confirming"
      BY <1>1, <1>4, GotoIsOwn
    <2>2. Sent(s, k)
      BY <1>1, <1>2, <1>4 DEF InHand, Sent, mayAdd
    <2>3. Shapes'
      BY <1>1, <1>2, <2>1 DEF Shapes, Own, setupVars
    <2>4. TargetInv'
      BY <1>1, <1>2, <2>1, SetupAssumption DEF TargetInv, Before, Own, setupVars
    <2>5. InHand'
      BY <1>1, <1>2, <1>4, <2>1, SetupAssumption
      DEF InHand, Own, setupVars, rightImage
    <2>6. PendingInv'
      BY <1>1, <1>2, <1>4, <2>2 DEF PendingInv, Sent, rightImage, setupVars
    <2>7. RegisteredRanImage' /\ ReportedAreRegistered'
      BY <1>1, <1>2 DEF RegisteredRanImage, ReportedAreRegistered, setupVars
    <2> QED
      BY <2>3, <2>4, <2>5, <2>6, <2>7 DEF RegInv
  <1> QED
    BY <1>3, <1>4 DEF send

\* A transaction that is not executed finds the signer there already, or an owner
\* who has intervened.
LEMMA MinePreserves ==
    ASSUME RegInv, NEW s \in Setup, NEW k \in Key, mine(s, k)
    PROVE  RegInv'
  <1>1. Shapes /\ TargetInv /\ InHand /\ PendingInv /\ RegisteredRanImage
        /\ ReportedAreRegistered
    BY DEF RegInv
  <1>2. /\ <<s, k>> \in pending /\ pending' = pending \ {<<s, k>>}
        /\ UNCHANGED <<pc, todo, deployed, owner, meddled, setupVars>>
    BY DEF mine, readVars
  <1>3. Sent(s, k) /\ target[s] \in Contract
    BY <1>1, <1>2 DEF PendingInv, Sent, Shapes
  <1>4. /\ DOMAIN registered' = Contract
        /\ \A c \in Contract : registered[c] \subseteq registered'[c]
        /\ \A c \in Contract : \A a \in registered'[c] :
              a \in registered[c] \/ (a = k /\ c = target[s])
    BY <1>1, <1>3 DEF mine, Shapes
  <1>5. target[s] \notin meddled => k \in registered'[target[s]]
    BY <1>1, <1>3 DEF mine, mayAdd, isSigner, Sent, Shapes
  <1>6. Shapes' /\ TargetInv'
    BY <1>1, <1>2, <1>4 DEF Shapes, TargetInv, setupVars
  <1>7. InHand'
    <2> SUFFICES ASSUME NEW t \in Setup, pc[t] = "confirming", target[t] \notin meddled
                 PROVE  \/ <<t, Head(todo[t])>> \in pending'
                        \/ Head(todo[t]) \in registered'[target[t]]
      BY <1>1, <1>2 DEF InHand, rightImage, setupVars
    <2>1. target[t] \in Contract
      BY <1>1 DEF InHand, Shapes
    <2>2. CASE <<t, Head(todo[t])>> = <<s, k>>
      BY <1>5, <2>2
    <2>3. CASE <<t, Head(todo[t])>> # <<s, k>>
      BY <1>1, <1>2, <1>4, <2>1, <2>3 DEF InHand
    <2> QED
      BY <2>2, <2>3
  <1>8. PendingInv'
    BY <1>1, <1>2 DEF PendingInv, Sent, rightImage, setupVars
  <1>9. RegisteredRanImage'
    BY <1>1, <1>2, <1>3, <1>4 DEF RegisteredRanImage, Sent, rightImage, setupVars
  <1>10. ReportedAreRegistered'
    BY <1>1, <1>2, <1>4 DEF ReportedAreRegistered, setupVars
  <1> QED
    BY <1>6, <1>7, <1>8, <1>9, <1>10 DEF RegInv

\* A setup goes on when its transaction was mined.
LEMMA WatchPreserves ==
    ASSUME RegInv, NEW s \in Setup, watch(s)
    PROVE  RegInv'
  <1> DEFINE k == Head(todo[s])
  <1>1. Shapes /\ TargetInv /\ InHand /\ PendingInv /\ RegisteredRanImage
        /\ ReportedAreRegistered
    BY DEF RegInv
  <1>2. pc[s] = "confirming" /\ UNCHANGED <<chainVars, registers, deployment, target>>
    BY DEF watch
  <1>3. CASE panic(s) /\ UNCHANGED reported
    <2>1. Own(s) /\ pc'[s] \in Elsewhere
      BY <1>1, <1>3, PanicIsOwn DEF Elsewhere
    <2> QED
      BY <1>2, <1>3, <2>1, MovesPreserve DEF setupVars
  <1>4. CASE /\ <<s, k>> \notin pending /\ continue(s)
             /\ reported' = [reported EXCEPT ![s] = @ \cup {k}]
    <2>1. Own(s) /\ pc'[s] \in {"fetched", "complete"}
      BY <1>1, <1>4, ContinueIsOwn
    <2>2. target[s] \notin meddled => k \in registered[target[s]]
      BY <1>1, <1>2, <1>4 DEF InHand
    <2>3. Shapes'
      BY <1>1, <1>2, <1>4, <2>1 DEF Shapes, Own, chainVars
    <2>4. TargetInv'
      BY <1>1, <1>2, <1>4, <2>1, SetupAssumption
      DEF TargetInv, Before, Own, chainVars, Shapes
    <2>5. InHand'
      BY <1>1, <1>2, <2>1, SetupAssumption DEF InHand, Own, chainVars, rightImage
    <2>6. PendingInv' /\ RegisteredRanImage'
      BY <1>1, <1>2 DEF PendingInv, Sent, rightImage, chainVars, RegisteredRanImage
    <2>7. ReportedAreRegistered'
      BY <1>1, <1>2, <1>4, <2>2 DEF ReportedAreRegistered, chainVars, Shapes
    <2> QED
      BY <2>3, <2>4, <2>5, <2>6, <2>7 DEF RegInv
  <1> QED
    BY <1>3, <1>4 DEF watch

-----------------------------------------------------------------------------
\* The owner.  Of a contract meddled with, only the images are promised still.

\* The owner hands a contract over, or removes a signer.
LEMMA OwnerPreserves ==
    ASSUME RegInv, NEW c \in Contract, handOver(c) \/ removeSigner(c)
    PROVE  RegInv'
  <1>1. Shapes /\ TargetInv /\ InHand /\ PendingInv /\ RegisteredRanImage
        /\ ReportedAreRegistered
    BY DEF RegInv
  <1>2. /\ meddled' = meddled \cup {c}
        /\ UNCHANGED <<pc, todo, deployed, pending, setupVars>>
    BY DEF handOver, removeSigner, readVars
  <1>3. /\ owner' \in [Contract -> Account \cup {Nobody}]
        /\ \A d \in Contract \ {c} : owner'[d] = owner[d]
    BY <1>1 DEF handOver, removeSigner, Shapes
  <1>4. /\ DOMAIN registered' = Contract
        /\ registered'[c] \subseteq registered[c]
        /\ \A d \in Contract \ {c} : registered'[d] = registered[d]
    BY <1>1 DEF handOver, removeSigner, Shapes
  <1>5. Shapes' /\ TargetInv'
    BY <1>1, <1>2, <1>3, <1>4 DEF Shapes, TargetInv, setupVars
  <1>6. InHand'
    BY <1>1, <1>2, <1>4 DEF InHand, Shapes, setupVars, rightImage
  <1>7. PendingInv'
    BY <1>1, <1>2, <1>3 DEF PendingInv, Sent, Shapes, setupVars, rightImage
  <1>8. RegisteredRanImage'
    BY <1>1, <1>2, <1>4 DEF RegisteredRanImage, setupVars
  <1>9. ReportedAreRegistered'
    BY <1>1, <1>2, <1>4 DEF ReportedAreRegistered, setupVars
  <1> QED
    BY <1>5, <1>6, <1>7, <1>8, <1>9 DEF RegInv

-----------------------------------------------------------------------------

\* Every step of bucket, chain, owner and setups.
LEMMA RegNextPreserves == RegInv /\ [RegNext]_regVars => RegInv'
  <1> SUFFICES ASSUME RegInv, [RegNext]_regVars PROVE RegInv'
    OBVIOUS
  <1>0. Shapes
    BY DEF RegInv
  <1>1. CASE bucketStep /\ UNCHANGED <<chainVars, setupVars>>
    BY <1>1, BucketPreserves
  <1>2. CASE chainStep
    BY <1>2, MinePreserves, OwnerPreserves DEF chainStep
  <1>3. ASSUME NEW s \in Setup, setupStep(s) PROVE RegInv'
    <2>1. CASE simulate(s) \/ broadcast(s) \/ loadDeployment(s)
      BY <2>1, SimulatePreserves, BroadcastPreserves, LoadPreserves
    <2>2. CASE /\ listObjects(s, "loaded") \/ getObject(s)
               /\ UNCHANGED <<chainVars, setupVars>>
      <3>1. CASE giveUp(s, "failed") \/ giveUp(s, "panicked")
        <4>1. Own(s) /\ pc'[s] \in Elsewhere
          BY <1>0, <3>1, GotoIsOwn DEF giveUp, Elsewhere
        <4> QED
          BY <2>2, <4>1, MovesPreserve
      <3>2. CASE listObjects(s, "loaded") /\ goto(s, "fetching")
        <4>1. Own(s) /\ pc'[s] \in Elsewhere
          BY <1>0, <3>2, GotoIsOwn, SetupAssumption
          DEF listObjects, Elsewhere, goto, giveUp, Shapes, Own
        <4> QED
          BY <2>2, <4>1, MovesPreserve
      <3>3. CASE getObject(s) /\ (UNCHANGED pc \/ goto(s, "fetched"))
        <4>1. Own(s) /\ pc'[s] \in Elsewhere
          BY <1>0, <3>3, SetupAssumption
          DEF getObject, Elsewhere, goto, giveUp, Shapes, Own
        <4> QED
          BY <2>2, <4>1, MovesPreserve
      <3> QED
        BY <2>2, <3>1, <3>2, <3>3 DEF listObjects, getObject
    <2>3. CASE verify(s) \/ send(s) \/ watch(s)
      BY <2>3, VerifyPreserves, SendPreserves, WatchPreserves
    <2>4. CASE printFound(s)
      <3>1. Own(s) /\ pc'[s] \in Elsewhere
        BY <1>0, <2>4, ContinueIsOwn DEF printFound, Elsewhere
      <3> QED
        BY <2>4, <3>1, MovesPreserve DEF printFound
    <2> QED
      BY <1>3, <2>1, <2>2, <2>3, <2>4 DEF setupStep
  <1>4. CASE UNCHANGED regVars
    BY <1>4 DEF regVars, readVars, chainVars, setupVars, RegInv, Shapes, TargetInv,
                InHand, PendingInv, Sent, rightImage, RegisteredRanImage,
                ReportedAreRegistered
  <1> QED
    BY <1>1, <1>2, <1>3, <1>4 DEF RegNext

\* The inductive invariant.
THEOREM RegInvariant == RegSpec => []RegInv
  BY RegInitEstablishes, RegNextPreserves, PTL DEF RegSpec

\* setup.rs:207: whatever setups do side by side, and wherever they panic, every
\* signer of a contract is an enclave that ran an image which some setup of this
\* contract asked for.
THEOREM OnlyRightImagesRegistered == RegSpec => []RegisteredRanImage
  <1>1. RegInv => RegisteredRanImage
    BY DEF RegInv
  <1> QED
    BY <1>1, RegInvariant, PTL

\* setup.rs:255, "Added signer": it is there, unless the owner intervenes, though
\* watch() returns for a transaction that was reverted too.
THEOREM ReportedAlwaysRegistered == RegSpec => []ReportedAreRegistered
  <1>1. RegInv => ReportedAreRegistered
    BY DEF RegInv
  <1> QED
    BY <1>1, RegInvariant, PTL

-----------------------------------------------------------------------------
(***************************************************************************)
(* What a setup that completes says of the signers it went through.  The   *)
(* invariant adds to RegInv what the readers have in hand, and where each  *)
(* steady signer is: still to come, or in the contract.                    *)
(***************************************************************************)

\* Where a setup has nothing to go through, and where it has.
Resting == {"idle", "deploying", "deployed", "loaded", "complete", "failed", "panicked"}
Working == {"fetched", "checked", "confirming"}

TodoInv(s) ==
    /\ pc[s] \in Resting \cup {"fetching"} \cup Working
    /\ pc[s] \in Resting => todo[s] = <<>>
    /\ pc[s] \in Working => todo[s] # <<>>
    /\ pc[s] \in {"checked", "confirming"} => copy[s][Head(todo[s])] # "none"

\* Only keys that were generated get to the chain.
ChainKeysInv ==
    /\ registered \in [Contract -> SUBSET booted]
    /\ pending \subseteq registers \X booted
    /\ reported \in [Setup -> SUBSET booted]

\* From a full listing: a signer that is steady is still to come, or is there.
SteadyInv(s) ==
    /\ s \in registers /\ pc[s] \in Working \cup {"complete"}
    /\ target[s] \in Contract \ meddled
    => \A k \in steady[s] : k \in Range(todo[s]) \/ k \in registered[target[s]]

\* The only setup that deploys uses what it deployed.
OneDeploys == \A s, t \in Deploys : s = t

DeployerInv(s) ==
    /\ pc[s] \in {"deploying", "deployed"} => deployment = s
    /\ pc[s] \in {"loaded", "fetching", "complete"} \cup Working => target[s] = s
    /\ pc[s] \in {"deployed", "loaded", "fetching", "complete"} \cup Working => s \in deployed
    /\ s \in deployed /\ s \notin meddled => owner[s] = AccountOf[s]

TellInv ==
    /\ ReadersInv /\ ChainKeysInv
    /\ \A s \in Setup : TodoInv(s)
    /\ OnePage => \A s \in Setup : SteadyInv(s)
    /\ OneDeploys => \A s \in Deploys : DeployerInv(s)

\* Before the first setup nothing was printed.
LEMMA TellInitEstablishes == RegInit => TellInv
  <1> SUFFICES ASSUME RegInit PROVE TellInv
    OBVIOUS
  <1>1. /\ StoreInit /\ booted = {}
        /\ pc = [r \in Reader |-> "idle"] /\ todo = [r \in Reader |-> <<>>]
        /\ copy = [r \in Reader |-> Nothing] /\ steady = [r \in Reader |-> {}]
        /\ registered = [c \in Contract |-> {}]
        /\ deployed = {Initial} /\ pending = {}
        /\ reported = [s \in Setup |-> {}]
    BY DEF RegInit, StoreInit
  <1>2. Setup \subseteq Reader /\ Deploys \subseteq Setup /\ Initial \notin Setup
    BY SetupAssumption, ChainAssumption
  <1>3. ReadersInv
    BY <1>1, ReadersInit
  <1>4. ChainKeysInv
    BY <1>1 DEF ChainKeysInv
  <1>5. \A s \in Setup : TodoInv(s) /\ SteadyInv(s)
    BY <1>1, <1>2 DEF TodoInv, SteadyInv, Resting, Working
  <1>6. \A s \in Deploys : DeployerInv(s)
    BY <1>1, <1>2 DEF DeployerInv, Working
  <1> QED
    BY <1>3, <1>4, <1>5, <1>6 DEF TellInv

-----------------------------------------------------------------------------
\* What a step of a setup leaves in its hands.

\* Past the fetching a setup that moves on has the same in hand.
LEMMA GotoSettles ==
    ASSUME ReadersInv, NEW s \in Setup, NEW label, goto(s, label),
           UNCHANGED <<storeVars, todo, copy, steady>>,
           pc[s] # "fetching", label # "fetching"
    PROVE  ReadersInv' /\ ReaderStep(s) /\ pc'[s] = label
  <1>1. s \in Reader /\ ReadTypeOK /\ Reading(s)
    BY SetupAssumption DEF ReadersInv
  <1>2. ReadTypeOK' /\ pc'[s] = label
    BY <1>1 DEF ReadTypeOK, goto
  <1>3. ReaderStep(s)
    BY <1>1 DEF ReaderStep, goto, ReadTypeOK
  <1>4. \A k \in Key : copy[s][k] # "none" => k \in Range(todo[s])
    BY <1>1 DEF Reading
  <1> QED
    BY <1>1, <1>2, <1>3, <1>4, SettlePreserves

\* One that goes to its next signer has one less, or is complete.
LEMMA ContinueSettles ==
    ASSUME ReadersInv, NEW s \in Setup, continue(s), UNCHANGED storeVars,
           pc[s] # "fetching", todo[s] # <<>>
    PROVE  /\ ReadersInv' /\ ReaderStep(s)
           /\ \/ pc'[s] = "fetched" /\ todo'[s] # <<>>
              \/ pc'[s] = "complete" /\ todo'[s] = <<>>
           /\ Range(todo[s]) = {Head(todo[s])} \cup Range(todo'[s])
           /\ steady'[s] = steady[s]
  <1> DEFINE h == Head(todo[s])
  <1>1. s \in Reader /\ ReadTypeOK /\ Reading(s)
    BY SetupAssumption DEF ReadersInv
  <1>2. /\ h \in Key /\ Tail(todo[s]) \in Seq(Key)
        /\ Range(todo[s]) = {h} \cup Range(Tail(todo[s]))
        /\ Len(todo[s]) > 1 <=> Tail(todo[s]) # <<>>
    BY <1>1, HeadAndTail DEF ReadTypeOK
  <1>3. /\ pc'[s] = IF Len(todo[s]) > 1 THEN "fetched" ELSE "complete"
        /\ todo'[s] = Tail(todo[s]) /\ steady'[s] = steady[s]
    BY <1>1 DEF continue, goto, ReadTypeOK
  <1>4. copy'[s][h] = "none" /\ \A k \in Key \ {h} : copy'[s][k] = copy[s][k]
    BY <1>1, <1>2 DEF continue, ReadTypeOK
  <1>5. ReadTypeOK'
    <2>1. "none" \in Status
      BY DEF Status
    <2> QED
      BY <1>1, <1>2, <2>1 DEF continue, goto, ReadTypeOK
  <1>6. ReaderStep(s)
    BY <1>1 DEF ReaderStep, continue, goto, ReadTypeOK
  <1>7. \A k \in Key : copy'[s][k] # "none" =>
            copy'[s][k] = copy[s][k] /\ k \in Range(todo'[s])
    BY <1>1, <1>2, <1>3, <1>4 DEF Reading
  <1>8. ReadersInv'
    BY <1>1, <1>2, <1>3, <1>5, <1>6, <1>7, SettlePreserves
  <1> QED
    BY <1>2, <1>3, <1>6, <1>8

\* One that panics has nothing in hand.
LEMMA PanicSettles ==
    ASSUME ReadersInv, NEW s \in Setup, panic(s), UNCHANGED storeVars
    PROVE  ReadersInv' /\ ReaderStep(s) /\ pc'[s] = "panicked" /\ todo'[s] = <<>>
  BY SetupAssumption, GiveUpPreserves DEF panic

\* A step of s that adds to the contracts at most, and leaves every other setup
\* its contract.
LEMMA SetupStepTells ==
    ASSUME TellInv, NEW s \in Setup, ReadersInv', ReaderStep(s),
           ChainKeysInv', UNCHANGED <<registers, meddled, registered>>,
           \A t \in Setup \ {s} : target'[t] = target[t],
           TodoInv(s)', OnePage => SteadyInv(s)',
           OneDeploys => \A d \in Deploys : DeployerInv(d)'
    PROVE  TellInv'
  <1>1. ASSUME NEW t \in Setup \ {s} PROVE TodoInv(t)' /\ (OnePage => SteadyInv(t)')
    BY <1>1, SetupAssumption DEF TellInv, TodoInv, SteadyInv, ReaderStep, OnePage
  <1>2. OnePage' = OnePage /\ OneDeploys' = OneDeploys
    BY DEF OnePage, OneDeploys
  <1> QED
    BY <1>1, <1>2 DEF TellInv

\* Once it has taken its contract, a deployer keeps it.
UnderWay == {"loaded", "fetching", "complete"} \cup Working

\* A step that deploys nothing leaves the deployers their contracts.
LEMMA DeployersKeep ==
    ASSUME TellInv, NEW s \in Setup, ReaderStep(s),
           UNCHANGED <<deployment, target, deployed, owner, meddled>>,
           pc[s] \in UnderWay, pc'[s] \in UnderWay \cup {"failed", "panicked"}
    PROVE  OneDeploys => \A d \in Deploys : DeployerInv(d)'
  <1>1. ASSUME NEW d \in Deploys, DeployerInv(d) PROVE DeployerInv(d)'
    <2>1. CASE d = s
      BY <1>1, <2>1 DEF DeployerInv, UnderWay, Working
    <2>2. CASE d # s
      BY <1>1, <2>2, SetupAssumption DEF DeployerInv, ReaderStep
    <2> QED
      BY <2>1, <2>2
  <1> QED
    BY <1>1 DEF TellInv

\* A panic, wherever it is; the deployment may have begun.
LEMMA PanicTells ==
    ASSUME RegInv, TellInv, NEW s \in Setup, panic(s),
           UNCHANGED <<storeVars, chainVars, setupVars>>
    PROVE  TellInv'
  <1>1. ReadersInv' /\ ReaderStep(s) /\ pc'[s] = "panicked" /\ todo'[s] = <<>>
    BY PanicSettles DEF TellInv
  <1>2. TodoInv(s)' /\ SteadyInv(s)'
    BY <1>1 DEF TodoInv, SteadyInv, Resting, Working
  <1>3. ChainKeysInv'
    BY DEF TellInv, ChainKeysInv, storeVars, chainVars, setupVars
  <1>4. ASSUME NEW d \in Deploys, DeployerInv(d) PROVE DeployerInv(d)'
    <2>1. CASE d = s
      BY <1>1, <1>4, <2>1 DEF DeployerInv, Working, chainVars, setupVars
    <2>2. CASE d # s
      BY <1>1, <1>4, <2>2, SetupAssumption DEF DeployerInv, ReaderStep, chainVars, setupVars
    <2> QED
      BY <2>1, <2>2
  <1> QED
    BY <1>1, <1>2, <1>3, <1>4, SetupStepTells DEF TellInv, chainVars, setupVars

\* A setup that begins to deploy has nothing to tell yet.
LEMMA SimulateTells ==
    ASSUME RegInv, TellInv, NEW s \in Setup, simulate(s)
    PROVE  TellInv'
  <1>1. /\ pc[s] = "idle" /\ s \in Deploys
        /\ UNCHANGED <<storeVars, chainVars, registers, target, reported>>
    BY DEF simulate
  <1>2. CASE panic(s) /\ UNCHANGED deployment
    BY <1>1, <1>2, PanicTells DEF setupVars
  <1>3. CASE /\ deployment' = s /\ goto(s, "deploying")
             /\ UNCHANGED <<todo, copy, steady>>
    <2>1. ReadersInv' /\ ReaderStep(s) /\ pc'[s] = "deploying"
      BY <1>1, <1>3, GotoSettles DEF TellInv
    <2>2. TodoInv(s)' /\ SteadyInv(s)'
      BY <1>1, <1>3, <2>1 DEF TellInv, TodoInv, SteadyInv, Resting, Working
    <2>3. ChainKeysInv'
      BY <1>1 DEF TellInv, ChainKeysInv, storeVars, chainVars
    <2>4. OneDeploys => \A d \in Deploys : DeployerInv(d)'
      BY <1>1, <1>3, <2>1 DEF TellInv, DeployerInv, OneDeploys, Working, chainVars
    <2> QED
      BY <1>1, <2>1, <2>2, <2>3, <2>4, SetupStepTells DEF chainVars
  <1> QED
    BY <1>2, <1>3 DEF simulate

\* The deployment is on the chain before its setup uses it.
LEMMA BroadcastTells ==
    ASSUME RegInv, TellInv, NEW s \in Setup, broadcast(s)
    PROVE  TellInv'
  <1>1. /\ pc[s] = "deploying"
        /\ UNCHANGED <<storeVars, registered, pending, meddled, setupVars>>
    BY DEF broadcast
  <1>2. CASE panic(s) /\ UNCHANGED <<deployed, owner>>
    BY <1>1, <1>2, PanicTells DEF chainVars
  <1>3. CASE /\ deployed' = deployed \cup {s}
             /\ owner' = [owner EXCEPT ![s] = AccountOf[s]]
             /\ \/ panic(s)
                \/ goto(s, "deployed") /\ UNCHANGED <<todo, copy, steady>>
    <2>1. s \in Deploys /\ owner'[s] = AccountOf[s]
      BY <1>1, <1>3 DEF RegInv, TargetInv, Shapes, Contract
    <2>2. /\ ReadersInv' /\ ReaderStep(s)
          /\ pc'[s] \in {"panicked", "deployed"} /\ todo'[s] = <<>>
      BY <1>1, <1>3, GotoSettles, PanicSettles DEF TellInv, TodoInv, Resting
    <2>3. TodoInv(s)' /\ SteadyInv(s)'
      BY <2>2 DEF TodoInv, SteadyInv, Resting, Working
    <2>4. ChainKeysInv'
      BY <1>1 DEF TellInv, ChainKeysInv, storeVars, setupVars
    <2>5. OneDeploys => DeployerInv(s)'
      BY <1>1, <1>3, <2>1, <2>2 DEF TellInv, DeployerInv, Working, setupVars
    <2>6. OneDeploys => \A d \in Deploys : DeployerInv(d)'
      BY <2>1, <2>5 DEF OneDeploys
    <2> QED
      BY <1>1, <2>2, <2>3, <2>4, <2>6, SetupStepTells DEF setupVars
  <1> QED
    BY <1>2, <1>3 DEF broadcast

\* The contract is taken from deployment.json: the deployer's is its own, if it is the only one.
LEMMA LoadTells ==
    ASSUME RegInv, TellInv, NEW s \in Setup, loadDeployment(s)
    PROVE  TellInv'
  <1>1. /\ pc[s] = IF s \in Deploys THEN "deployed" ELSE "idle"
        /\ UNCHANGED <<storeVars, chainVars, registers, deployment, reported>>
    BY DEF loadDeployment
  <1>2. CASE panic(s) /\ UNCHANGED target
    BY <1>1, <1>2, PanicTells DEF setupVars
  <1>3. CASE /\ target' = [target EXCEPT ![s] = deployment]
             /\ goto(s, "loaded") /\ UNCHANGED <<todo, copy, steady>>
    <2>1. ReadersInv' /\ ReaderStep(s) /\ pc'[s] = "loaded"
      BY <1>1, <1>3, GotoSettles DEF TellInv
    <2>2. target'[s] = deployment /\ \A t \in Setup \ {s} : target'[t] = target[t]
      BY <1>3 DEF RegInv, Shapes
    <2>3. TodoInv(s)' /\ SteadyInv(s)'
      BY <1>1, <1>3, <2>1 DEF TellInv, TodoInv, SteadyInv, Resting, Working
    <2>4. ChainKeysInv'
      BY <1>1 DEF TellInv, ChainKeysInv, storeVars, chainVars
    <2>5. ASSUME NEW d \in Deploys, DeployerInv(d) PROVE DeployerInv(d)'
      <3>1. CASE d = s
        BY <1>1, <2>1, <2>2, <2>5, <3>1 DEF DeployerInv, Working, chainVars
      <3>2. CASE d # s
        BY <1>1, <2>1, <2>2, <2>5, <3>2, SetupAssumption
        DEF DeployerInv, ReaderStep, chainVars
      <3> QED
        BY <3>1, <3>2
    <2> QED
      BY <1>1, <2>1, <2>2, <2>3, <2>4, <2>5, SetupStepTells DEF TellInv, chainVars
  <1> QED
    BY <1>2, <1>3 DEF loadDeployment

\* Reading the bucket.  What was steady in a full listing is all still to come.
LEMMA ReadTells ==
    ASSUME RegInv, TellInv, NEW s \in Setup,
           listObjects(s, "loaded") \/ getObject(s), UNCHANGED <<chainVars, setupVars>>
    PROVE  TellInv'
  <1>1. s \in Reader /\ TodoInv(s) /\ UNCHANGED storeVars
    BY SetupAssumption DEF TellInv, listObjects, getObject
  <1>2. /\ ReadersInv' /\ ReaderStep(s) /\ pc[s] \in UnderWay
        /\ \/ pc'[s] = "fetching"
           \/ pc'[s] \in {"failed", "panicked"}
           \/ /\ pc'[s] = "fetched" /\ todo'[s] # <<>>
              /\ OnePage => \A k \in steady'[s] : k \in Range(todo'[s])
    <2>1. CASE listObjects(s, "loaded")
      <3>1. pc[s] = "loaded" /\ todo[s] = <<>>
        BY <1>1, <2>1 DEF listObjects, TodoInv, Resting
      <3> QED
        BY <1>1, <2>1, <3>1, ListPreserves DEF TellInv, UnderWay
    <2>2. CASE getObject(s)
      <3>1. pc[s] = "fetching"
        BY <2>2 DEF getObject
      <3> QED
        BY <1>1, <2>2, <3>1, GetPreserves DEF TellInv, UnderWay
    <2> QED
      BY <2>1, <2>2
  <1>3. pc'[s] \in {"failed", "panicked"} => todo'[s] = <<>>
    <2>1. CASE listObjects(s, "loaded")
      BY <1>1, <2>1, ListPreserves DEF TellInv, listObjects, TodoInv, Resting
    <2>2. CASE getObject(s)
      <3>1. CASE giveUp(s, "failed")
        BY <1>1, <3>1, GiveUpPreserves DEF TellInv
      <3>2. CASE UNCHANGED pc \/ goto(s, "fetched")
        BY <1>1, <2>2, <3>2 DEF getObject, goto, TellInv, ReadersInv, ReadTypeOK
      <3> QED
        BY <2>2, <3>1, <3>2 DEF getObject
    <2> QED
      BY <2>1, <2>2
  <1>4. TodoInv(s)' /\ (OnePage => SteadyInv(s)')
    BY <1>2, <1>3 DEF TodoInv, SteadyInv, Resting, Working
  <1>5. ChainKeysInv'
    BY <1>1 DEF TellInv, ChainKeysInv, storeVars, chainVars, setupVars
  <1>6. pc'[s] \in UnderWay \cup {"failed", "panicked"}
    BY <1>2 DEF UnderWay, Working
  <1>7. OneDeploys => \A d \in Deploys : DeployerInv(d)'
    BY <1>2, <1>6, DeployersKeep DEF chainVars, setupVars
  <1> QED
    BY <1>2, <1>4, <1>5, <1>7, SetupStepTells DEF chainVars, setupVars

-----------------------------------------------------------------------------
\* Going through what was read.

\* On to the next signer: the one in hand was not steady, is in the contract, or
\* this setup does not register.
LEMMA ContinueTells ==
    ASSUME RegInv, TellInv, NEW s \in Setup, continue(s), pc[s] \in Working,
           UNCHANGED <<storeVars, chainVars, registers, deployment, target>>,
           reported' \in [Setup -> SUBSET booted],
           \/ s \notin registers \/ target[s] \in meddled
           \/ Head(todo[s]) \notin steady[s]
           \/ Head(todo[s]) \in registered[target[s]]
    PROVE  TellInv'
  <1>1. todo[s] # <<>> /\ pc[s] # "fetching" /\ pc[s] \in UnderWay
    BY DEF TellInv, TodoInv, Working, UnderWay
  <1>2. /\ ReadersInv' /\ ReaderStep(s)
        /\ \/ pc'[s] = "fetched" /\ todo'[s] # <<>>
           \/ pc'[s] = "complete" /\ todo'[s] = <<>>
        /\ Range(todo[s]) = {Head(todo[s])} \cup Range(todo'[s])
        /\ steady'[s] = steady[s]
    BY <1>1, ContinueSettles DEF TellInv
  <1>3. TodoInv(s)'
    BY <1>2 DEF TodoInv, Resting, Working
  <1>4. OnePage => SteadyInv(s)'
    BY <1>2 DEF TellInv, SteadyInv, chainVars
  <1>5. ChainKeysInv'
    BY DEF TellInv, ChainKeysInv, storeVars, chainVars
  <1>6. pc'[s] \in UnderWay \cup {"failed", "panicked"}
    BY <1>2 DEF UnderWay, Working
  <1>7. OneDeploys => \A d \in Deploys : DeployerInv(d)'
    BY <1>1, <1>2, <1>6, DeployersKeep DEF chainVars
  <1> QED
    BY <1>2, <1>3, <1>4, <1>5, <1>7, SetupStepTells DEF chainVars

\* A signer that stayed attested is verified, so it is not skipped.
LEMMA VerifyTells ==
    ASSUME RegInv, TellInv, NEW s \in Setup, verify(s)
    PROVE  TellInv'
  <1> DEFINE h == Head(todo[s])
  <1>1. /\ pc[s] = "fetched" /\ pc[s] \in Working /\ pc[s] \in UnderWay
        /\ UNCHANGED <<storeVars, chainVars, setupVars>>
    BY DEF verify, Working, UnderWay
  <1>2. /\ s \in Reader /\ todo[s] # <<>> /\ Reading(s)
        /\ reported \in [Setup -> SUBSET booted]
    BY <1>1, SetupAssumption DEF TellInv, TodoInv, Working, ReadersInv, ChainKeysInv
  <1>3. CASE continue(s) /\ (copy[s][h] = "expired" \/ isSigner(s, h))
    <2>1. h \notin steady[s] \/ h \in registered[target[s]]
      BY <1>2, <1>3 DEF Reading, isSigner
    <2> QED
      BY <1>1, <1>2, <1>3, <2>1, ContinueTells DEF setupVars
  <1>4. CASE panic(s)
    BY <1>1, <1>4, PanicTells
  <1>5. CASE /\ copy[s][h] = "valid" /\ goto(s, "checked")
             /\ UNCHANGED <<todo, copy, steady>>
    <2>1. ReadersInv' /\ ReaderStep(s) /\ pc'[s] = "checked"
      BY <1>1, <1>5, GotoSettles DEF TellInv
    <2>2. TodoInv(s)'
      BY <1>2, <1>5, <2>1 DEF TodoInv, Resting, Working
    <2>3. OnePage => SteadyInv(s)'
      BY <1>1, <1>5, <2>1 DEF TellInv, SteadyInv, chainVars, setupVars
    <2>4. ChainKeysInv'
      BY <1>1 DEF TellInv, ChainKeysInv, storeVars, chainVars, setupVars
    <2>5. OneDeploys => \A d \in Deploys : DeployerInv(d)'
      BY <1>1, <2>1, DeployersKeep DEF chainVars, setupVars, UnderWay, Working
    <2> QED
      BY <1>1, <2>1, <2>2, <2>3, <2>4, <2>5, SetupStepTells DEF chainVars, setupVars
  <1> QED
    BY <1>3, <1>4, <1>5 DEF verify

\* A setup that does not register prints and goes on.
LEMMA PrintFoundTells ==
    ASSUME RegInv, TellInv, NEW s \in Setup, printFound(s)
    PROVE  TellInv'
  BY ContinueTells DEF printFound, TellInv, ChainKeysInv, Working, setupVars

\* A signer sent is a signer pending.
LEMMA SendTells ==
    ASSUME RegInv, TellInv, NEW s \in Setup, send(s)
    PROVE  TellInv'
  <1> DEFINE h == Head(todo[s])
  <1>1. /\ pc[s] = "checked" /\ pc[s] \in Working /\ pc[s] \in UnderWay
        /\ s \in registers
        /\ UNCHANGED <<storeVars, deployed, owner, registered, meddled, setupVars>>
    BY DEF send, Working, UnderWay
  <1>2. CASE panic(s) /\ UNCHANGED pending
    BY <1>1, <1>2, PanicTells DEF chainVars
  <1>3. CASE /\ pending' = pending \cup {<<s, h>>} /\ goto(s, "confirming")
             /\ UNCHANGED <<todo, copy, steady>>
    <2>1. ReadersInv' /\ ReaderStep(s) /\ pc'[s] = "confirming"
      BY <1>1, <1>3, GotoSettles DEF TellInv
    <2>2. TodoInv(s)'
      BY <1>1, <1>3, <2>1 DEF TellInv, TodoInv, Resting, Working
    <2>3. OnePage => SteadyInv(s)'
      BY <1>1, <1>3, <2>1 DEF TellInv, SteadyInv, setupVars
    <2>4. h \in booted
      <3>1. todo[s] \in Seq(Key) /\ todo[s] # <<>> /\ copy[s][h] # "none" /\ Reading(s)
        BY <1>1, SetupAssumption DEF TellInv, TodoInv, Working, ReadersInv, ReadTypeOK
      <3>2. h \in Key
        BY <3>1, HeadAndTail
      <3> QED
        BY <3>1, <3>2 DEF Reading
    <2>5. ChainKeysInv'
      BY <1>1, <1>3, <2>4 DEF TellInv, ChainKeysInv, storeVars, setupVars
    <2>6. OneDeploys => \A d \in Deploys : DeployerInv(d)'
      BY <1>1, <2>1, DeployersKeep DEF setupVars, UnderWay, Working
    <2> QED
      BY <1>1, <2>1, <2>2, <2>3, <2>5, <2>6, SetupStepTells DEF setupVars
  <1> QED
    BY <1>2, <1>3 DEF send

\* What is printed as added was mined.
LEMMA WatchTells ==
    ASSUME RegInv, TellInv, NEW s \in Setup, watch(s)
    PROVE  TellInv'
  <1> DEFINE h == Head(todo[s])
  <1>1. /\ pc[s] = "confirming" /\ pc[s] \in Working
        /\ UNCHANGED <<storeVars, chainVars, registers, deployment, target>>
    BY DEF watch, Working
  <1>2. CASE panic(s) /\ UNCHANGED reported
    BY <1>1, <1>2, PanicTells DEF setupVars
  <1>3. CASE /\ <<s, h>> \notin pending /\ continue(s)
             /\ reported' = [reported EXCEPT ![s] = @ \cup {h}]
    <2>1. target[s] \in meddled \/ h \in registered[target[s]]
      BY <1>1, <1>3 DEF RegInv, InHand
    <2>2. h \in booted
      <3>1. todo[s] \in Seq(Key) /\ todo[s] # <<>> /\ copy[s][h] # "none" /\ Reading(s)
        BY <1>1, SetupAssumption DEF TellInv, TodoInv, Working, ReadersInv, ReadTypeOK
      <3>2. h \in Key
        BY <3>1, HeadAndTail
      <3> QED
        BY <3>1, <3>2 DEF Reading
    <2>3. reported' \in [Setup -> SUBSET booted]
      BY <1>3, <2>2 DEF TellInv, ChainKeysInv
    <2> QED
      BY <1>1, <1>3, <2>1, <2>3, ContinueTells
  <1> QED
    BY <1>2, <1>3 DEF watch

-----------------------------------------------------------------------------
\* The chain and the bucket.

\* A transaction that is mined adds its signer, and takes none away.
LEMMA MineTells ==
    ASSUME RegInv, TellInv, NEW s \in Setup, NEW k \in Key, mine(s, k)
    PROVE  TellInv'
  <1>1. /\ <<s, k>> \in pending /\ pending' = pending \ {<<s, k>>}
        /\ UNCHANGED <<storeVars, readVars, deployed, owner, meddled, setupVars>>
    BY DEF mine
  <1>2. k \in booted
    BY <1>1 DEF TellInv, ChainKeysInv
  <1>3. /\ registered' \in [Contract -> SUBSET booted]
        /\ \A c \in Contract : registered[c] \subseteq registered'[c]
    BY <1>2 DEF mine, TellInv, ChainKeysInv
  <1>4. ReadersInv'
    BY <1>1 DEF TellInv, ReadersInv, BucketInv, ReadTypeOK, Reading, unverified, Stored,
                storeVars, readVars, OnePage
  <1>5. ChainKeysInv'
    BY <1>1, <1>3 DEF TellInv, ChainKeysInv, storeVars, setupVars
  <1>6. \A t \in Setup : TodoInv(t)'
    BY <1>1 DEF TellInv, TodoInv, readVars
  <1>7. OnePage => \A t \in Setup : SteadyInv(t)'
    <2> SUFFICES ASSUME NEW t \in Setup, SteadyInv(t) PROVE SteadyInv(t)'
      BY DEF TellInv
    <2> QED
      BY <1>1, <1>3 DEF SteadyInv, readVars, setupVars
  <1>8. OneDeploys => \A d \in Deploys : DeployerInv(d)'
    BY <1>1 DEF TellInv, DeployerInv, readVars, setupVars
  <1> QED
    BY <1>4, <1>5, <1>6, <1>7, <1>8 DEF TellInv, OnePage, OneDeploys

\* Of a contract its owner intervened in nothing is told.
LEMMA OwnerTells ==
    ASSUME RegInv, TellInv, NEW c \in Contract, handOver(c) \/ removeSigner(c)
    PROVE  TellInv'
  <1>1. /\ meddled' = meddled \cup {c}
        /\ UNCHANGED <<storeVars, readVars, deployed, pending, setupVars>>
    BY DEF handOver, removeSigner
  <1>2. \A d \in Contract \ {c} : owner'[d] = owner[d] /\ registered'[d] = registered[d]
    BY DEF handOver, removeSigner, RegInv, Shapes
  <1>3. ReadersInv'
    BY <1>1 DEF TellInv, ReadersInv, BucketInv, ReadTypeOK, Reading, unverified, Stored,
                storeVars, readVars, OnePage
  <1>4. ChainKeysInv'
    <2>1. registered' \in [Contract -> SUBSET booted]
      BY DEF TellInv, ChainKeysInv, handOver, removeSigner
    <2> QED
      BY <1>1, <2>1 DEF TellInv, ChainKeysInv, storeVars, setupVars
  <1>5. \A t \in Setup : TodoInv(t)'
    BY <1>1 DEF TellInv, TodoInv, readVars
  <1>6. OnePage => \A t \in Setup : SteadyInv(t)'
    <2> SUFFICES ASSUME NEW t \in Setup, SteadyInv(t) PROVE SteadyInv(t)'
      BY DEF TellInv
    <2>1. CASE target[t] = c
      BY <1>1, <2>1 DEF SteadyInv, setupVars
    <2>2. CASE target[t] # c
      BY <1>1, <1>2, <2>2 DEF SteadyInv, readVars, setupVars
    <2> QED
      BY <2>1, <2>2
  <1>7. OneDeploys => \A d \in Deploys : DeployerInv(d)'
    BY <1>1, <1>2 DEF TellInv, DeployerInv, readVars, setupVars, Contract
  <1> QED
    BY <1>3, <1>4, <1>5, <1>6, <1>7 DEF TellInv, OnePage, OneDeploys

\* Every step of bucket, chain, owner and setups.
LEMMA TellNextPreserves == RegInv /\ TellInv /\ [RegNext]_regVars => TellInv'
  <1> SUFFICES ASSUME RegInv, TellInv, [RegNext]_regVars PROVE TellInv'
    OBVIOUS
  <1>1. CASE bucketStep /\ UNCHANGED <<chainVars, setupVars>>
    <2>1. /\ ReadersInv' /\ UNCHANGED <<pc, todo>> /\ booted \subseteq booted'
          /\ \A r \in Reader : steady'[r] \subseteq steady[r]
          /\ \A r \in Reader, k \in Key : copy'[r][k] # copy[r][k] => copy'[r][k] = "expired"
      BY <1>1, BucketStepPreserves DEF TellInv
    <2>2. ChainKeysInv'
      BY <1>1, <2>1 DEF TellInv, ChainKeysInv, chainVars, setupVars
    <2>3. ASSUME NEW s \in Setup PROVE TodoInv(s)'
      <3>1. TodoInv(s) /\ s \in Reader /\ todo[s] \in Seq(Key)
        BY SetupAssumption DEF TellInv, ReadersInv, ReadTypeOK
      <3>2. todo[s] # <<>> => Head(todo[s]) \in Key
        BY <3>1, HeadAndTail
      <3> QED
        BY <2>1, <3>1, <3>2 DEF TodoInv, Working
    <2>4. ASSUME NEW s \in Setup, SteadyInv(s) PROVE SteadyInv(s)'
      BY <1>1, <2>1, <2>4, SetupAssumption DEF SteadyInv, chainVars, setupVars
    <2>5. ASSUME NEW d \in Deploys, DeployerInv(d) PROVE DeployerInv(d)'
      BY <1>1, <2>1, <2>5 DEF DeployerInv, chainVars, setupVars
    <2> QED
      BY <2>1, <2>2, <2>3, <2>4, <2>5 DEF TellInv, OnePage, OneDeploys
  <1>2. CASE chainStep
    BY <1>2, MineTells, OwnerTells DEF chainStep
  <1>3. ASSUME NEW s \in Setup, setupStep(s) PROVE TellInv'
    BY <1>3, SimulateTells, BroadcastTells, LoadTells, ReadTells, VerifyTells,
       PrintFoundTells, SendTells, WatchTells
    DEF setupStep
  <1>4. CASE UNCHANGED regVars
    <2>1. UNCHANGED <<storeVars, pc, todo, copy, steady, chainVars, setupVars>>
      BY <1>4 DEF regVars, readVars
    <2>2. ReadersInv'
      BY <2>1 DEF TellInv, ReadersInv, BucketInv, ReadTypeOK, Reading, unverified, Stored,
                  storeVars, OnePage
    <2>3. ChainKeysInv' /\ \A s \in Setup : TodoInv(s)'
      BY <2>1 DEF TellInv, ChainKeysInv, TodoInv, storeVars, chainVars, setupVars
    <2>4. /\ \A s \in Setup : SteadyInv(s) => SteadyInv(s)'
          /\ \A d \in Deploys : DeployerInv(d) => DeployerInv(d)'
      BY <2>1 DEF SteadyInv, DeployerInv, chainVars, setupVars
    <2> QED
      BY <2>2, <2>3, <2>4 DEF TellInv, OnePage, OneDeploys
  <1> QED
    BY <1>1, <1>2, <1>3, <1>4 DEF RegNext

\* The inductive invariant of what setups have in hand.
THEOREM SetupInvariant == RegSpec => [](RegInv /\ TellInv)
  <1>1. RegInit => RegInv /\ TellInv
    BY RegInitEstablishes, TellInitEstablishes
  <1>2. (RegInv /\ TellInv) /\ [RegNext]_regVars => (RegInv /\ TellInv)'
    BY RegNextPreserves, TellNextPreserves
  <1> QED
    BY <1>1, <1>2, PTL DEF RegSpec

\* setup.rs: types, for any setups and contracts; in particular only keys that an
\* enclave generated are ever registered.
THEOREM RegTypeCorrect == RegSpec => []RegTypeOK
  <1>1. RegInv /\ TellInv => RegTypeOK
    <2> SUFFICES ASSUME RegInv, TellInv PROVE RegTypeOK
      OBVIOUS
    <2>1. /\ booted \subseteq Key /\ object \in [Key -> {"none", "valid", "expired"}]
          /\ todo \in [Reader -> Seq(Key)]
          /\ copy \in [Reader -> [Key -> {"none", "valid", "expired"}]]
          /\ steady \in [Reader -> SUBSET Key]
      BY DEF TellInv, ReadersInv, BucketInv, ReadTypeOK, Status
    <2>2. \A s \in Setup :
             pc[s] \in {"idle", "deploying", "deployed", "loaded", "fetching", "fetched",
                        "checked", "confirming", "complete", "failed", "panicked"}
      BY DEF TellInv, TodoInv, Resting, Working
    <2>3. /\ registers \in SUBSET Setup
          /\ deployment \in Contract /\ deployed \subseteq Contract
          /\ target \in [Setup -> Contract \cup {Nobody}]
          /\ owner \in [Contract -> Account \cup {Nobody}]
          /\ meddled \subseteq Contract
      BY DEF RegInv, Shapes
    <2>4. /\ registered \in [Contract -> SUBSET booted]
          /\ pending \subseteq registers \X Key
          /\ reported \in [Setup -> SUBSET Key]
      BY <2>1 DEF TellInv, ChainKeysInv
    <2> QED
      BY <2>1, <2>2, <2>3, <2>4 DEF RegTypeOK
  <1> QED
    BY <1>1, SetupInvariant, PTL

\* setup.rs:262, "Setup complete": while the owner of a contract does not intervene,
\* it holds every signer that a setup printed as added, and when the setup
\* completes every one that was attested when it began; it belongs to the account
\* that deployed it.  The listing is one page of the bucket, so the objects must
\* fit on it; and of several that deploy at a time one reads what the other wrote
\* to the deployment file, so only one does.
THEOREM SetupAlwaysTellsTheTruth ==
    ASSUME OnePage, OneDeploys
    PROVE  RegSpec => []SetupTellsTheTruth
  <1>1. RegInv /\ TellInv => SetupTellsTheTruth
    <2> SUFFICES ASSUME RegInv, TellInv, NEW s \in Setup, target[s] \in Contract \ meddled
                 PROVE  /\ reported[s] \subseteq registered[target[s]]
                        /\ pc[s] = "complete" /\ s \in registers =>
                              steady[s] \subseteq registered[target[s]]
                        /\ pc[s] = "complete" /\ s \in Deploys =>
                              owner[target[s]] = AccountOf[s]
      BY DEF SetupTellsTheTruth
    <2>1. reported[s] \subseteq registered[target[s]]
      BY DEF RegInv, ReportedAreRegistered
    <2>2. ASSUME pc[s] = "complete", s \in registers
          PROVE  steady[s] \subseteq registered[target[s]]
      <3>1. TodoInv(s) /\ SteadyInv(s)
        BY DEF TellInv
      <3>2. Range(todo[s]) = {}
        BY <2>2, <3>1 DEF TodoInv, Resting, Range
      <3> QED
        BY <2>2, <3>1, <3>2 DEF SteadyInv
    <2>3. ASSUME pc[s] = "complete", s \in Deploys
          PROVE  owner[target[s]] = AccountOf[s]
      BY <2>3 DEF TellInv, DeployerInv
    <2> QED
      BY <2>1, <2>2, <2>3
  <1> QED
    BY <1>1, SetupInvariant, PTL
=============================================================================

---------------------- MODULE DeliveryCoordinatorProofs ----------------------
(***************************************************************************)
(* Proofs about DeliveryCoordinator, for any finite set of deliveries, any *)
(* tasks and any mix of modes: types, what was written and at which gate;  *)
(* who waits for whom there; then what a delivery does to the others of    *)
(* its task, the breaker and the idle check under the gate, and the        *)
(* promise of DeliveryPromise.                                             *)
(***************************************************************************)
EXTENDS DeliveryCoordinator, FiniteSetTheorems, TLAPS

USE DEF Mates

-----------------------------------------------------------------------------
(* Type correctness *)

LEMMA ResultTypes ==
  /\ NoResult \in Results
  /\ \A tag \in {"RetryIdle", "RetryActivity", "PendingReconciliation", "Confirmed",
                 "Reconciled", "Unavailable", "Rejected", "Ambiguous"},
        route \in Routes \cup {"none"} : Result(tag, route) \in Results
  /\ None \in Outcomes
  /\ \A route \in Routes, reason \in Reasons : NotSubmitted(route, reason) \in Outcomes
  /\ \A route \in Routes, tag \in {"Confirmed", "Ambiguous", "Rejected"} :
       Answered(tag, route) \in Outcomes
BY DEF Results, Outcomes, Result, NoResult, None, NotSubmitted, Answered

LEMMA RouteResultType ==
  \A o \in Outcomes : RouteResult(o) \in Results
BY DEF RouteResult, Result, Results, Outcomes

LEMMA TypeInit == Init => TypeOK
BY ConstantsAssumption, ResultTypes DEF Init, TypeOK, PCs, AwaitPCs, GatedPCs

\* Every value the fibers' steps write is of its type, one lemma per group.
LEMMA TypeWaiting ==
  ASSUME TypeOK, NEW d \in Deliveries,
         Deliver(d) \/ CheckDeadline(d) \/ ObserveTask(d) \/ AwaitFails(d)
  PROVE  TypeOK'
<1> USE ResultTypes DEF Routes, TypeOK, GoTo, Answer, Finish, gates, task, PCs, AwaitPCs, GatedPCs
<1>1. CASE Deliver(d)       BY <1>1 DEF Deliver
<1>2. CASE CheckDeadline(d)
  <2>1. Result("Unavailable", "none") \in Results OBVIOUS
  <2>2. result' \in [Deliveries -> Results] BY <1>2, <2>1 DEF CheckDeadline
  <2>3. pc' \in [Deliveries -> PCs] BY <1>2 DEF CheckDeadline
  <2>4. saw' \in [Deliveries -> BOOLEAN] BY <1>2 DEF CheckDeadline
  <2> QED BY <1>2, <2>2, <2>3, <2>4 DEF CheckDeadline
<1>3. CASE ObserveTask(d)   BY <1>3 DEF ObserveTask
<1>4. CASE AwaitFails(d)    BY <1>4 DEF AwaitFails
<1> QED BY <1>1, <1>2, <1>3, <1>4

LEMMA TypeGate ==
  ASSUME TypeOK, NEW d \in Deliveries,
         JoinGate(d) \/ TakePermit(d) \/ ReleasePermit(d) \/ LeaveGate(d)
  PROVE  TypeOK'
<1> USE ResultTypes, ConstantsAssumption
    DEF TypeOK, GoTo, Answer, task, PCs, AwaitPCs, GatedPCs
<1>1. CASE JoinGate(d)      BY <1>1 DEF JoinGate
<1>2. CASE TakePermit(d)    BY <1>2 DEF TakePermit
<1>3. CASE ReleasePermit(d) BY <1>3 DEF ReleasePermit
<1>4. CASE LeaveGate(d)
  <2>1. users' \in [Deliveries -> Int]
    <3>1. users' = [users EXCEPT ![gate[d]] = @ - 1] BY <1>4 DEF LeaveGate
    <3>2. \A e \in Deliveries : users[e] - 1 \in Int OBVIOUS
    <3> QED BY <3>1, <3>2
  <2>2. gateOf' \in [Threads -> Deliveries \cup {NoOne}] BY <1>4 DEF LeaveGate
  <2>3. AfterGate(result[d]) \in PCs BY DEF AfterGate
  <2>30. pc' \in [Deliveries -> PCs] BY <1>4, <2>3 DEF LeaveGate
  <2>4. result' \in [Deliveries -> Results] BY <1>4 DEF LeaveGate
  <2>5. gate' \in [Deliveries -> Deliveries \cup {NoOne}] BY <1>4 DEF LeaveGate
  <2> QED BY <1>4, <2>1, <2>2, <2>30, <2>4, <2>5 DEF LeaveGate
<1> QED BY <1>1, <1>2, <1>3, <1>4

LEMMA TypeRouting ==
  ASSUME TypeOK, NEW d \in Deliveries,
         \/ InspectIdle(d) \/ CheckBreaker(d) \/ DesktopReady(d) \/ DesktopNotReady(d)
         \/ DesktopFollowed(d) \/ DesktopReply(d) \/ Decide(d) \/ LocalCheck(d)
         \/ LocalReply(d) \/ ReconcileMatched(d) \/ ReconcileFails(d)
  PROVE  TypeOK'
<1> USE ResultTypes, RouteResultType, ConstantsAssumption
    DEF TypeOK, GoTo, Answer, Classify, Release, Finish, gates, task,
        PCs, AwaitPCs, GatedPCs, Routes, Reasons
<1>1. CASE InspectIdle(d)      BY <1>1 DEF InspectIdle
<1>2. CASE CheckBreaker(d)     BY <1>2 DEF CheckBreaker
<1>3. CASE DesktopReady(d)     BY <1>3 DEF DesktopReady
<1>4. CASE DesktopNotReady(d)  BY <1>4 DEF DesktopNotReady
<1>5. CASE DesktopFollowed(d)  BY <1>5 DEF DesktopFollowed
<1>6. CASE DesktopReply(d)     BY <1>6 DEF DesktopReply, Reply
<1>7. CASE Decide(d)           BY <1>7 DEF Decide
<1>8. CASE LocalCheck(d)       BY <1>8 DEF LocalCheck
<1>9. CASE LocalReply(d)       BY <1>9 DEF LocalReply
<1>10. CASE ReconcileMatched(d)
  <2>1. result[d].route \in Routes \cup {"none"} BY DEF Results
  <2> QED BY <1>10, <2>1 DEF ReconcileMatched, ReconciledRoute
<1>11. CASE ReconcileFails(d)
  <2>1. result[d].route \in Routes \cup {"none"} BY DEF Results
  <2> QED BY <1>11, <2>1 DEF ReconcileFails
<1> QED BY <1>1, <1>2, <1>3, <1>4, <1>5, <1>6, <1>7, <1>8, <1>9, <1>10, <1>11

LEMMA TypeEnvironment ==
  ASSUME TypeOK, NEW d \in Deliveries,
         Expire(d) \/ Transmit(d) \/ Land(d) \/ Refuse(d) \/ Publish(d) \/ EndTurn(d)
  PROVE  TypeOK'
<1> USE DEF TypeOK, GoTo, gates, fiber, PCs, AwaitPCs, GatedPCs, Routes
<1>1. CASE Expire(d)   BY <1>1, Zenon DEF Expire, task
<1>2. CASE Transmit(d) BY <1>2 DEF Transmit
<1>3. CASE Land(d)     BY <1>3, ConstantsAssumption DEF Land
<1>4. CASE Refuse(d)   BY <1>4 DEF Refuse
<1>5. CASE Publish(d)  BY <1>5 DEF Publish
<1>6. CASE EndTurn(d)  BY <1>6 DEF EndTurn
<1> QED BY <1>1, <1>2, <1>3, <1>4, <1>5, <1>6

LEMMA TypeStep == TypeOK /\ [Next]_vars => TypeOK'
<1> SUFFICES ASSUME TypeOK, [Next]_vars PROVE TypeOK'
  OBVIOUS
<1>1. ASSUME NEW d \in Deliveries, Step(d) PROVE TypeOK'
  BY <1>1, TypeWaiting, TypeGate, TypeRouting, TypeEnvironment DEF Step, Progress
<1>2. CASE UNCHANGED vars
  BY <1>2 DEF vars, TypeOK
<1> QED BY <1>1, <1>2 DEF Next, Quiescent

\* Every variable keeps its type.
THEOREM TypeCorrect == Spec => []TypeOK
<1> QED BY TypeInit, TypeStep, PTL DEF Spec

-----------------------------------------------------------------------------
(* The write invariant: what each point of a delivery knows of its request  *)

AnsweredPCs == {"unlock", "leave", "reconcile", "done"}
ReplyPCs    == {"desktop-reply", "local-reply"}

\* Nothing is on its way, except after a request and before an answer that
\* denies it; the route-level outcome and the answer agree with the task.
WriteInv(d) ==
  /\ copies[d] = IF fate[d] = "none" THEN 0 ELSE 1
  /\ fate[d] # "none" => pc[d] \in {"decide"} \cup ReplyPCs \cup AnsweredPCs
  /\ fate[d] # "none" => via[d] \in Routes
  /\ fate[d] = "landed" => via[d] = "desktop"
  /\ pc[d] = "desktop-reply" /\ fate[d] # "none" => via[d] = "desktop"
  /\ pc[d] = "local-reply" /\ fate[d] # "none" => via[d] = "app-server"
  /\ pc[d] = "decide" =>
       /\ outcome[d].route = "desktop"
       /\ outcome[d].tag \in {"Confirmed", "NotSubmitted", "Ambiguous", "Rejected"}
       /\ Truthful(d, outcome[d])
       /\ fate[d] # "none" => via[d] = "desktop"
  /\ pc[d] \notin AnsweredPCs => result[d] = NoResult
  /\ pc[d] \in AnsweredPCs =>
       /\ result[d].tag # "none"
       /\ result[d].tag \in {"Confirmed", "Reconciled"} =>
            fate[d] \in {"landed", "shown"} /\ via[d] = result[d].route
       /\ result[d].tag \in {"PendingReconciliation", "Ambiguous"} =>
            /\ result[d].route \in Routes
            /\ fate[d] # "none" => via[d] = result[d].route
       /\ result[d].tag \in {"Unavailable", "Rejected", "RetryIdle", "RetryActivity"} =>
            fate[d] = "none"
  /\ pc[d] \in {"unlock", "leave"} => result[d].tag \notin {"Reconciled", "Ambiguous"}
  /\ pc[d] = "reconcile" => result[d].tag = "PendingReconciliation"
  /\ pc[d] = "done" => result[d].tag \notin {"PendingReconciliation", "RetryIdle", "RetryActivity"}

WInv == \A d \in Deliveries : WriteInv(d)

-----------------------------------------------------------------------------
(* The gate invariant *)

Users(in, g) == {d \in Deliveries : in[d] = g}

\* A delivery in the gated region holds the gate object the pool holds for its
\* task, under the permit it is that gate's holder, and the count is exact.
GInv ==
  /\ \A d \in Deliveries :
       /\ pc[d] \in GatedPCs => gate[d] \in Deliveries /\ gateOf[ThreadOf[d]] = gate[d]
       /\ pc[d] \notin GatedPCs => gate[d] = NoOne
       /\ pc[d] \in MutationPCs => holder[gate[d]] = d
  /\ \A t \in Threads : gateOf[t] # NoOne =>
       /\ ThreadOf[gateOf[t]] = t
       /\ users[gateOf[t]] = Cardinality(Users(gate, gateOf[t]))
       /\ Users(gate, gateOf[t]) # {}

-----------------------------------------------------------------------------
(* A step of one delivery leaves the others where they are *)

Same(e) ==
  /\ pc'[e] = pc[e] /\ outcome'[e] = outcome[e] /\ result'[e] = result[e]
  /\ fate'[e] = fate[e] /\ via'[e] = via[e] /\ copies'[e] = copies[e]
  /\ running'[e] = running[e] /\ gate'[e] = gate[e]

LEMMA OthersStay ==
  ASSUME TypeOK, NEW d \in Deliveries, Step(d), NEW e \in Deliveries, e # d
  PROVE  Same(e)
<1> USE DEF TypeOK, Same, GoTo, Answer, Classify, Release, Finish, gates, task, fiber
<1>1. CASE Deliver(d) \/ CheckDeadline(d) \/ ObserveTask(d) \/ AwaitFails(d)
  BY <1>1 DEF Deliver, CheckDeadline, ObserveTask, AwaitFails
<1>2. CASE JoinGate(d) \/ TakePermit(d) \/ ReleasePermit(d) \/ LeaveGate(d)
  BY <1>2 DEF JoinGate, TakePermit, ReleasePermit, LeaveGate
<1>3. CASE InspectIdle(d) \/ CheckBreaker(d) \/ DesktopReady(d) \/ DesktopNotReady(d)
  BY <1>3 DEF InspectIdle, CheckBreaker, DesktopReady, DesktopNotReady
<1>4. CASE DesktopFollowed(d)
  BY <1>4 DEF DesktopFollowed
<1>5. CASE DesktopReply(d) \/ LocalCheck(d) \/ LocalReply(d)
  BY <1>5 DEF DesktopReply, Reply, LocalCheck, LocalReply
<1>6. CASE Decide(d)
  BY <1>6 DEF Decide
<1>7. CASE ReconcileMatched(d) \/ ReconcileFails(d)
  BY <1>7 DEF ReconcileMatched, ReconcileFails
<1>8. CASE Expire(d) \/ Transmit(d) \/ Land(d) \/ Refuse(d) \/ Publish(d) \/ EndTurn(d)
  BY <1>8 DEF Expire, Transmit, Land, Refuse, Publish, EndTurn
<1> QED BY <1>1, <1>2, <1>3, <1>4, <1>5, <1>6, <1>7, <1>8 DEF Step, Progress

-----------------------------------------------------------------------------
(* The write invariant is inductive *)

LEMMA WriteInit == Init => WInv
BY DEF Init, WInv, WriteInv, AnsweredPCs, ReplyPCs, Truthful, NoResult

LEMMA WriteOthers ==
  ASSUME TypeOK, WInv, NEW d \in Deliveries, Step(d), NEW e \in Deliveries, e # d
  PROVE  WriteInv(e)'
BY OthersStay DEF Same, WInv, WriteInv, Truthful

LEMMA WriteSelf ==
  ASSUME TypeOK, WInv, NEW d \in Deliveries, Step(d)
  PROVE  WriteInv(d)'
<1> WriteInv(d)
  BY DEF WInv
<1> USE DEF TypeOK, WriteInv, GoTo, Answer, Classify, Release, Finish, gates, task, fiber,
        AnsweredPCs, ReplyPCs, NoResult, Result, Routes, AwaitPCs
<1>1. CASE Deliver(d)          BY <1>1 DEF Deliver
<1>2. CASE CheckDeadline(d)    BY <1>2 DEF CheckDeadline
<1>3. CASE ObserveTask(d)      BY <1>3 DEF ObserveTask
<1>4. CASE AwaitFails(d)       BY <1>4 DEF AwaitFails
<1>5. CASE JoinGate(d)         BY <1>5 DEF JoinGate
<1>6. CASE TakePermit(d)       BY <1>6 DEF TakePermit
<1>7. CASE ReleasePermit(d)    BY <1>7 DEF ReleasePermit
<1>8. CASE LeaveGate(d)        BY <1>8 DEF LeaveGate, AfterGate, Retry
<1>9. CASE InspectIdle(d)      BY <1>9 DEF InspectIdle
<1>10. CASE CheckBreaker(d)    BY <1>10 DEF CheckBreaker, NotSubmitted, Truthful
<1>11. CASE DesktopReady(d)    BY <1>11 DEF DesktopReady
<1>12. CASE DesktopNotReady(d) BY <1>12 DEF DesktopNotReady, NotSubmitted, Truthful
<1>13. CASE DesktopFollowed(d) BY <1>13 DEF DesktopFollowed, NotSubmitted, Truthful
<1>14. CASE DesktopReply(d)
  BY <1>14 DEF DesktopReply, Reply, NotSubmitted, Answered, Truthful
<1>15. CASE Decide(d)
  BY <1>15 DEF Decide, MayFallback, RouteResult, Truthful
<1>16. CASE LocalCheck(d)      BY <1>16 DEF LocalCheck
<1>17. CASE LocalReply(d)
  BY <1>17 DEF LocalReply, RouteResult, NotSubmitted, Answered, Truthful
<1>18. CASE ReconcileMatched(d)
  BY <1>18 DEF ReconcileMatched, ReconciledRoute
<1>19. CASE ReconcileFails(d)  BY <1>19 DEF ReconcileFails
<1>20. CASE Expire(d)          BY <1>20 DEF Expire, Truthful
<1>21. CASE Transmit(d)        BY <1>21 DEF Transmit
<1>22. CASE Land(d)            BY <1>22 DEF Land, Truthful
<1>23. CASE Refuse(d)          BY <1>23 DEF Refuse, Truthful
<1>24. CASE Publish(d)         BY <1>24 DEF Publish, Truthful
<1>25. CASE EndTurn(d)         BY <1>25 DEF EndTurn, Truthful
<1> QED
  BY <1>1, <1>2, <1>3, <1>4, <1>5, <1>6, <1>7, <1>8, <1>9, <1>10, <1>11, <1>12, <1>13,
     <1>14, <1>15, <1>16, <1>17, <1>18, <1>19, <1>20, <1>21, <1>22, <1>23, <1>24, <1>25
     DEF Step, Progress

LEMMA WriteStep == TypeOK /\ WInv /\ [Next]_vars => WInv'
<1> SUFFICES ASSUME TypeOK, WInv, [Next]_vars PROVE WInv'
  OBVIOUS
<1>1. ASSUME NEW d \in Deliveries, Step(d) PROVE WInv'
  BY <1>1, WriteOthers, WriteSelf DEF WInv
<1>2. CASE UNCHANGED vars
  BY <1>2 DEF vars, WInv, WriteInv, Truthful
<1> QED BY <1>1, <1>2 DEF Next, Quiescent

THEOREM WriteInvariant == Spec => []WInv
<1> QED BY TypeCorrect, WriteInit, WriteStep, PTL DEF Spec

\* No message starts work twice, whichever routes, fallbacks and laps of the
\* idle loop its delivery goes through.
THEOREM AtMostOnceHolds == Spec => []AtMostOnce
<1>1. WInv => AtMostOnce
  BY DEF WInv, WriteInv, AtMostOnce
<1> QED BY <1>1, WriteInvariant, PTL

\* A verdict agrees with the task, and names the route that wrote.
THEOREM TruthfulResultHolds == Spec => []TruthfulResult
<1>1. WInv => TruthfulResult
  BY DEF WInv, WriteInv, TruthfulResult, NoResult
<1> QED BY <1>1, WriteInvariant, PTL

-----------------------------------------------------------------------------
(* The gate invariant is inductive *)

LEMMA GateInit == Init => GInv
BY DEF Init, GInv, GatedPCs, MutationPCs

\* Steps inside the region, and steps outside it, touch no gate.
Quiet(d) ==
  /\ UNCHANGED gates
  /\ pc'[d] \in GatedPCs <=> pc[d] \in GatedPCs
  /\ pc'[d] \in MutationPCs <=> pc[d] \in MutationPCs

LEMMA QuietSteps ==
  ASSUME TypeOK, NEW d \in Deliveries, Step(d),
         ~(JoinGate(d) \/ TakePermit(d) \/ ReleasePermit(d) \/ LeaveGate(d))
  PROVE  Quiet(d)
<1> USE DEF TypeOK, Quiet, GoTo, Answer, Classify, Release, Finish, gates, task, fiber,
        AwaitPCs, GatedPCs, MutationPCs
<1>1. CASE Deliver(d) \/ CheckDeadline(d) \/ ObserveTask(d) \/ AwaitFails(d)
  BY <1>1 DEF Deliver, CheckDeadline, ObserveTask, AwaitFails
<1>2. CASE InspectIdle(d) \/ CheckBreaker(d) \/ DesktopReady(d) \/ DesktopNotReady(d)
  BY <1>2 DEF InspectIdle, CheckBreaker, DesktopReady, DesktopNotReady
<1>3. CASE DesktopFollowed(d)
  BY <1>3 DEF DesktopFollowed
<1>4. CASE DesktopReply(d) \/ LocalCheck(d) \/ LocalReply(d)
  BY <1>4 DEF DesktopReply, Reply, LocalCheck, LocalReply
<1>5. CASE Decide(d)
  BY <1>5 DEF Decide
<1>6. CASE ReconcileMatched(d) \/ ReconcileFails(d)
  BY <1>6 DEF ReconcileMatched, ReconcileFails
<1>7. CASE Expire(d) \/ Transmit(d) \/ Land(d) \/ Refuse(d) \/ Publish(d) \/ EndTurn(d)
  BY <1>7 DEF Expire, Transmit, Land, Refuse, Publish, EndTurn
<1> QED BY <1>1, <1>2, <1>3, <1>4, <1>5, <1>6, <1>7 DEF Step, Progress

LEMMA GateQuiet ==
  ASSUME TypeOK, GInv, NEW d \in Deliveries, Step(d), Quiet(d)
  PROVE  GInv'
<1>1. \A e \in Deliveries : /\ pc'[e] \in GatedPCs <=> pc[e] \in GatedPCs
                            /\ pc'[e] \in MutationPCs <=> pc[e] \in MutationPCs
  BY OthersStay DEF Same, Quiet
<1>2. \A g : Users(gate', g) = Users(gate, g)
  BY DEF Users, Quiet, gates
<1> QED BY <1>1, <1>2 DEF GInv, Quiet, gates

LEMMA UsersFinite ==
  ASSUME NEW in, NEW g
  PROVE  IsFiniteSet(Users(in, g)) /\ Cardinality(Users(in, g)) \in Nat
<1>1. IsFiniteSet(Users(in, g))
  BY ConstantsAssumption, FS_Subset DEF Users
<1> QED BY <1>1, FS_CardinalityType

\* Joining makes the gate on first use, or counts one more user.
LEMMA GateJoin ==
  ASSUME TypeOK, GInv, NEW d \in Deliveries, JoinGate(d)
  PROVE  GInv'
<1> DEFINE t == ThreadOf[d]
           g == IF gateOf[t] = NoOne THEN d ELSE gateOf[t]
<1>1. /\ t \in Threads /\ g \in Deliveries /\ ThreadOf[g] = t /\ g # NoOne
      /\ pc[d] = "join" /\ gate[d] = NoOne
  <2>1. t \in Threads /\ d # NoOne
    BY ConstantsAssumption
  <2>2. g \in Deliveries /\ g # NoOne
    BY <2>1, ConstantsAssumption DEF TypeOK
  <2>3. ThreadOf[g] = t
    BY <2>1 DEF GInv
  <2>4. pc[d] = "join" /\ pc[d] \notin GatedPCs
    BY DEF JoinGate, GatedPCs
  <2> QED BY <2>1, <2>2, <2>3, <2>4 DEF GInv
<1>2. /\ gateOf' = [gateOf EXCEPT ![t] = g]
      /\ users' = [users EXCEPT ![g] = IF gateOf[t] = NoOne THEN 1 ELSE @ + 1]
      /\ holder' = [holder EXCEPT ![g] = IF gateOf[t] = NoOne THEN NoOne ELSE @]
      /\ gate' = [gate EXCEPT ![d] = g]
      /\ pc' = [pc EXCEPT ![d] = "gate"]
  BY DEF JoinGate, GoTo
<1>3. \A e \in Deliveries : gate[e] = g => gateOf[t] = g /\ ThreadOf[e] = t
  BY <1>1, ConstantsAssumption DEF GInv, TypeOK
<1>4. Users(gate', g) = Users(gate, g) \cup {d} /\ d \notin Users(gate, g)
  BY <1>1, <1>2 DEF Users, TypeOK
<1>5. \A h : h # g /\ h # NoOne => Users(gate', h) = Users(gate, h)
  BY <1>1, <1>2 DEF Users, TypeOK
<1>6. users'[g] = Cardinality(Users(gate', g))
  <2>1. Cardinality(Users(gate', g)) = Cardinality(Users(gate, g)) + 1
    BY <1>4, UsersFinite, FS_AddElement
  <2>2. CASE gateOf[t] = NoOne
    <3>1. Users(gate, g) = {}
      BY <1>1, <1>3, <2>2 DEF Users
    <3>2. Cardinality(Users(gate', g)) = 1
      BY <3>1, <2>1, FS_EmptySet
    <3>3. users'[g] = 1
      BY <2>2, <1>1, <1>2 DEF TypeOK
    <3> QED BY <3>2, <3>3
  <2>3. CASE gateOf[t] # NoOne
    BY <2>1, <2>3, <1>1, <1>2, UsersFinite DEF GInv, TypeOK
  <2> QED BY <2>2, <2>3
<1>7. \A u \in Threads : gateOf'[u] # NoOne =>
        /\ ThreadOf[gateOf'[u]] = u
        /\ users'[gateOf'[u]] = Cardinality(Users(gate', gateOf'[u]))
        /\ Users(gate', gateOf'[u]) # {}
  <2> SUFFICES ASSUME NEW u \in Threads, gateOf'[u] # NoOne
               PROVE  /\ ThreadOf[gateOf'[u]] = u
                      /\ users'[gateOf'[u]] = Cardinality(Users(gate', gateOf'[u]))
                      /\ Users(gate', gateOf'[u]) # {}
    OBVIOUS
  <2>1. CASE u = t
    BY <2>1, <1>1, <1>2, <1>4, <1>6 DEF TypeOK
  <2>2. CASE u # t
    <3>1. gateOf'[u] = gateOf[u] /\ ThreadOf[gateOf[u]] = u /\ gateOf[u] # g
      BY <2>2, <1>1, <1>2 DEF TypeOK, GInv
    <3>2. gateOf[u] \in Deliveries /\ users'[gateOf[u]] = users[gateOf[u]]
      BY <3>1, <1>2 DEF TypeOK
    <3> QED BY <3>1, <3>2, <1>5 DEF GInv
  <2> QED BY <2>1, <2>2
<1>8. \A e \in Deliveries :
        /\ pc'[e] \in GatedPCs => gate'[e] \in Deliveries /\ gateOf'[ThreadOf[e]] = gate'[e]
        /\ pc'[e] \notin GatedPCs => gate'[e] = NoOne
        /\ pc'[e] \in MutationPCs => holder'[gate'[e]] = e
  <2> TAKE e \in Deliveries
  <2>1. CASE e = d
    BY <2>1, <1>1, <1>2 DEF TypeOK, GatedPCs, MutationPCs
  <2>2. CASE e # d
    <3>1. pc'[e] = pc[e] /\ gate'[e] = gate[e]
      BY <2>2, <1>2 DEF TypeOK
    <3>2. pc[e] \in GatedPCs => gateOf'[ThreadOf[e]] = gate[e]
      BY <1>1, <1>2, ConstantsAssumption DEF GInv, TypeOK
    <3>3. pc[e] \in MutationPCs => pc[e] \in GatedPCs
      BY DEF MutationPCs
    <3>4. pc[e] \in MutationPCs => holder'[gate[e]] = e
      BY <3>3, <1>1, <1>2, <1>3, ConstantsAssumption DEF GInv, TypeOK
    <3> QED BY <3>1, <3>2, <3>3, <3>4 DEF GInv
  <2> QED BY <2>1, <2>2
<1> QED BY <1>7, <1>8 DEF GInv

LEMMA GatePermit ==
  ASSUME TypeOK, GInv, NEW d \in Deliveries, TakePermit(d) \/ ReleasePermit(d)
  PROVE  GInv'
<1>1. /\ gate' = gate /\ gateOf' = gateOf /\ users' = users
      /\ pc[d] \in GatedPCs /\ pc'[d] \in GatedPCs /\ gate[d] \in Deliveries
  BY DEF TakePermit, ReleasePermit, GoTo, GatedPCs, GInv, TypeOK
<1>2. \A e \in Deliveries : e # d => pc'[e] = pc[e]
  BY DEF TakePermit, ReleasePermit, GoTo, TypeOK
<1>3. \A e \in Deliveries : pc[e] \in MutationPCs =>
        pc[e] \in GatedPCs /\ gate[e] \in Deliveries /\ holder[gate[e]] = e
  BY DEF MutationPCs, GInv
<1>4. \A e \in Deliveries : pc'[e] \in MutationPCs => holder'[gate[e]] = e
  <2>1. CASE TakePermit(d)
    <3>1. holder[gate[d]] = NoOne /\ holder' = [holder EXCEPT ![gate[d]] = d]
      BY <2>1 DEF TakePermit
    <3> QED BY <3>1, <1>1, <1>2, <1>3, ConstantsAssumption DEF TypeOK
  <2>2. CASE ReleasePermit(d)
    <3>1. pc[d] = "unlock" /\ pc'[d] = "leave" /\ holder' = [holder EXCEPT ![gate[d]] = NoOne]
      BY <2>2 DEF ReleasePermit, GoTo, TypeOK
    <3>2. holder[gate[d]] = d
      BY <3>1, <1>3 DEF MutationPCs, GatedPCs
    <3>3. pc'[d] \notin MutationPCs
      BY <3>1 DEF MutationPCs
    <3> QED BY <3>1, <3>2, <3>3, <1>1, <1>2, <1>3 DEF TypeOK
  <2> QED BY <2>1, <2>2
<1>5. \A e \in Deliveries :
        /\ pc'[e] \in GatedPCs => gate[e] \in Deliveries /\ gateOf[ThreadOf[e]] = gate[e]
        /\ pc'[e] \notin GatedPCs => gate[e] = NoOne
  BY <1>1, <1>2 DEF GInv
<1> QED BY <1>1, <1>4, <1>5 DEF GInv

\* Leaving deletes the gate only when the count says nobody else uses it.
LEMMA GateLeave ==
  ASSUME TypeOK, GInv, NEW d \in Deliveries, LeaveGate(d)
  PROVE  GInv'
<1> DEFINE t == ThreadOf[d]
           g == gate[d]
<1>1. /\ pc[d] = "leave" /\ g \in Deliveries /\ gateOf[t] = g /\ t \in Threads
      /\ ThreadOf[g] = t /\ g # NoOne
  BY ConstantsAssumption DEF LeaveGate, GInv, GatedPCs
<1>2. /\ users' = [users EXCEPT ![g] = @ - 1]
      /\ gateOf' = IF users[g] = 1 THEN [gateOf EXCEPT ![t] = NoOne] ELSE gateOf
      /\ gate' = [gate EXCEPT ![d] = NoOne] /\ holder' = holder
      /\ pc' = [pc EXCEPT ![d] = AfterGate(result[d])]
  BY DEF LeaveGate, LastUser, GoTo
<1>3. AfterGate(result[d]) \notin GatedPCs
  BY DEF AfterGate, GatedPCs
<1>4. MutationPCs \subseteq GatedPCs
  BY DEF MutationPCs
<1>5. users[g] = Cardinality(Users(gate, g)) /\ d \in Users(gate, g)
  BY <1>1 DEF GInv, Users
<1>6. Users(gate', g) = Users(gate, g) \ {d}
  BY <1>1, <1>2 DEF Users, TypeOK
<1>7. \A h : h # g /\ h # NoOne => Users(gate', h) = Users(gate, h)
  BY <1>1, <1>2 DEF Users, TypeOK
<1>8. Cardinality(Users(gate', g)) = users[g] - 1 /\ Cardinality(Users(gate', g)) \in Nat
  BY <1>5, <1>6, UsersFinite, FS_RemoveElement
<1>9. users[g] = 1 <=> Users(gate', g) = {}
  <2>1. Cardinality(Users(gate', g)) = 0 <=> Users(gate', g) = {}
    BY UsersFinite, FS_EmptySet
  <2> QED BY <2>1, <1>8 DEF TypeOK
<1>10. \A e \in Deliveries : e # d /\ ThreadOf[e] = t /\ pc[e] \in GatedPCs => users[g] # 1
  BY <1>1, <1>2, <1>9 DEF Users, GInv, TypeOK
<1>11. \A u \in Threads : gateOf'[u] # NoOne =>
        /\ ThreadOf[gateOf'[u]] = u
        /\ users'[gateOf'[u]] = Cardinality(Users(gate', gateOf'[u]))
        /\ Users(gate', gateOf'[u]) # {}
  <2> SUFFICES ASSUME NEW u \in Threads, gateOf'[u] # NoOne
               PROVE  /\ ThreadOf[gateOf'[u]] = u
                      /\ users'[gateOf'[u]] = Cardinality(Users(gate', gateOf'[u]))
                      /\ Users(gate', gateOf'[u]) # {}
    OBVIOUS
  <2>1. CASE u = t
    <3>1. users[g] # 1 /\ gateOf'[u] = g
      BY <2>1, <1>1, <1>2 DEF TypeOK
    <3>2. users'[g] = users[g] - 1
      BY <1>1, <1>2 DEF TypeOK
    <3> QED BY <2>1, <3>1, <3>2, <1>1, <1>8, <1>9
  <2>2. CASE u # t
    <3>1. gateOf'[u] = gateOf[u] /\ ThreadOf[gateOf[u]] = u /\ gateOf[u] # g
      BY <2>2, <1>1, <1>2 DEF TypeOK, GInv
    <3>2. gateOf[u] \in Deliveries /\ users'[gateOf[u]] = users[gateOf[u]]
      BY <3>1, <1>2 DEF TypeOK
    <3> QED BY <3>1, <3>2, <1>7 DEF GInv
  <2> QED BY <2>1, <2>2
<1>12. \A e \in Deliveries :
        /\ pc'[e] \in GatedPCs => gate'[e] \in Deliveries /\ gateOf'[ThreadOf[e]] = gate'[e]
        /\ pc'[e] \notin GatedPCs => gate'[e] = NoOne
        /\ pc'[e] \in MutationPCs => holder'[gate'[e]] = e
  <2> TAKE e \in Deliveries
  <2>1. CASE e = d
    BY <2>1, <1>2, <1>3, <1>4 DEF TypeOK
  <2>2. CASE e # d
    <3>1. pc'[e] = pc[e] /\ gate'[e] = gate[e]
      BY <2>2, <1>2 DEF TypeOK
    <3>2. pc[e] \in GatedPCs => gateOf'[ThreadOf[e]] = gateOf[ThreadOf[e]]
      BY <2>2, <1>2, <1>10 DEF TypeOK
    <3> QED BY <3>1, <3>2, <1>2 DEF GInv
  <2> QED BY <2>1, <2>2
<1> QED BY <1>11, <1>12 DEF GInv

LEMMA GateStep == TypeOK /\ GInv /\ [Next]_vars => GInv'
<1> SUFFICES ASSUME TypeOK, GInv, [Next]_vars PROVE GInv'
  OBVIOUS
<1>1. ASSUME NEW d \in Deliveries, Step(d) PROVE GInv'
  BY <1>1, GateJoin, GatePermit, GateLeave, QuietSteps, GateQuiet
<1>2. CASE UNCHANGED vars
  BY <1>2 DEF vars, GInv, Users
<1> QED BY <1>1, <1>2 DEF Next, Quiescent

THEOREM GateInvariant == Spec => []GInv
<1> QED BY TypeCorrect, GateInit, GateStep, PTL DEF Spec

LEMMA Exclusion == GInv => PermitExclusion
BY DEF GInv, PermitExclusion, MutationPCs

\* One delivery per task is under the permit, although gate objects come and
\* go with their users.
THEOREM PermitExclusionHolds == Spec => []PermitExclusion
<1> QED BY Exclusion, GateInvariant, PTL

\* The pool holds a gate exactly while some delivery of the task uses it.
THEOREM GatesReturnedHolds == Spec => []GatesReturned
<1>1. TypeOK /\ GInv => GatesReturned
  <2> SUFFICES ASSUME TypeOK, GInv, NEW t \in Threads
               PROVE  gateOf[t] # NoOne <=>
                        \E d \in Deliveries : ThreadOf[d] = t /\ pc[d] \in GatedPCs
    BY DEF GatesReturned
  <2>1. ASSUME gateOf[t] # NoOne
        PROVE  \E d \in Deliveries : ThreadOf[d] = t /\ pc[d] \in GatedPCs
    <3>1. PICK d \in Deliveries : gate[d] = gateOf[t]
      BY <2>1 DEF GInv, Users
    <3>2. pc[d] \in GatedPCs /\ gateOf[ThreadOf[d]] = gateOf[t]
      BY <2>1, <3>1 DEF GInv
    <3>3. ThreadOf[d] = t
      BY <2>1, <3>2, ConstantsAssumption DEF GInv
    <3> QED BY <3>2, <3>3
  <2>2. ASSUME NEW d \in Deliveries, ThreadOf[d] = t, pc[d] \in GatedPCs
        PROVE  gateOf[t] # NoOne
    BY <2>2, ConstantsAssumption DEF GInv
  <2> QED BY <2>1, <2>2
<1> QED BY <1>1, TypeCorrect, GateInvariant, PTL

-----------------------------------------------------------------------------
(* Who waits for whom *)

\* A permit that is taken is in the hand of a delivery at work under it, at
\* the very gate object the others of the task are counted at.
HolderAtWork(d) ==
  pc[d] \in GatedPCs /\ holder[gate[d]] # NoOne =>
    /\ holder[gate[d]] \in Deliveries
    /\ pc[holder[gate[d]]] \in MutationPCs
    /\ gate[holder[gate[d]]] = gate[d]

HInv == \A d \in Deliveries : HolderAtWork(d)

\* A delivery at the gate can take the permit, or another of its task is at
\* work under it: not one that waits itself, and not one that has left.
GateOpens ==
  \A d \in Deliveries : pc[d] = "gate" =>
    \/ holder[gate[d]] = NoOne
    \/ \E e \in Mates(d) \ {d} : holder[gate[d]] = e /\ pc[e] \in MutationPCs

LEMMA HolderInit == Init => HInv
BY DEF Init, HInv, HolderAtWork, GatedPCs

LEMMA HolderQuiet ==
  ASSUME TypeOK, HInv, NEW d \in Deliveries, Step(d), Quiet(d)
  PROVE  HInv'
<1>1. \A e \in Deliveries : /\ pc'[e] \in GatedPCs <=> pc[e] \in GatedPCs
                            /\ pc'[e] \in MutationPCs <=> pc[e] \in MutationPCs
  BY OthersStay DEF Same, Quiet
<1> QED BY <1>1 DEF HInv, HolderAtWork, Quiet, gates

\* A gate object made anew has nobody counted at it yet, and no holder.
LEMMA HolderJoin ==
  ASSUME TypeOK, GInv, HInv, NEW d \in Deliveries, JoinGate(d)
  PROVE  HInv'
<1>1. PICK g \in Deliveries :
        /\ g = IF gateOf[ThreadOf[d]] = NoOne THEN d ELSE gateOf[ThreadOf[d]]
        /\ holder' = [holder EXCEPT ![g] = IF gateOf[ThreadOf[d]] = NoOne THEN NoOne ELSE @]
        /\ gate' = [gate EXCEPT ![d] = g]
        /\ pc' = [pc EXCEPT ![d] = "gate"]
  BY ConstantsAssumption DEF JoinGate, GoTo, TypeOK
<1>2. pc[d] = "join" /\ pc[d] \notin GatedPCs /\ pc[d] \notin MutationPCs
  BY DEF JoinGate, GatedPCs, MutationPCs
<1>3. ASSUME NEW e \in Deliveries, e # d, pc[e] \in GatedPCs,
             gateOf[ThreadOf[d]] = NoOne
      PROVE  gate[e] # d
  BY <1>3, ConstantsAssumption DEF GInv, TypeOK
<1>4. ASSUME gateOf[ThreadOf[d]] # NoOne
      PROVE  \E e \in Deliveries : e # d /\ pc[e] \in GatedPCs /\ gate[e] = g
  <2>1. g = gateOf[ThreadOf[d]] /\ g # NoOne
    BY <1>1, <1>4
  <2>2. PICK e \in Deliveries : gate[e] = g
    <3>1. Users(gate, g) # {}
      BY <2>1, <1>4, ConstantsAssumption DEF GInv
    <3> QED BY <3>1 DEF Users
  <2>3. pc[e] \in GatedPCs
    BY <2>1, <2>2 DEF GInv
  <2> QED BY <2>2, <2>3, <1>2
<1>5. ASSUME NEW e \in Deliveries, e # d, pc[e] \in GatedPCs
      PROVE  HolderAtWork(e)' /\ gate[e] \in Deliveries /\ holder'[gate[e]] = holder[gate[e]]
  <2>1. gate[e] \in Deliveries /\ pc'[e] = pc[e] /\ gate'[e] = gate[e]
    BY <1>5, <1>1 DEF GInv, TypeOK
  <2>2. holder'[gate[e]] = holder[gate[e]]
    BY <1>1, <1>3, <1>5, <2>1 DEF TypeOK
  <2>3. HolderAtWork(e)
    BY DEF HInv
  <2> QED BY <1>1, <1>2, <1>5, <2>1, <2>2, <2>3 DEF HolderAtWork, TypeOK
<1>6. ASSUME NEW e \in Deliveries, e # d PROVE HolderAtWork(e)'
  BY <1>1, <1>5, <1>6 DEF HolderAtWork, TypeOK
<1>7. HolderAtWork(d)'
  <2>1. gate'[d] = g
    BY <1>1 DEF TypeOK
  <2>2. CASE gateOf[ThreadOf[d]] = NoOne
    BY <2>1, <2>2, <1>1 DEF HolderAtWork, TypeOK
  <2>3. CASE gateOf[ThreadOf[d]] # NoOne
    <3>1. PICK e \in Deliveries : e # d /\ pc[e] \in GatedPCs /\ gate[e] = g
      BY <2>3, <1>4
    <3>2. HolderAtWork(e)' /\ gate'[e] = g /\ pc'[e] \in GatedPCs
      BY <3>1, <1>1, <1>5 DEF TypeOK
    <3> QED BY <2>1, <3>2 DEF HolderAtWork
  <2> QED BY <2>2, <2>3
<1> QED BY <1>6, <1>7 DEF HInv

LEMMA HolderPermit ==
  ASSUME TypeOK, GInv, HInv, NEW d \in Deliveries, TakePermit(d) \/ ReleasePermit(d)
  PROVE  HInv'
<1>1. /\ gate' = gate /\ pc[d] \in GatedPCs /\ gate[d] \in Deliveries
      /\ \A e \in Deliveries : e # d => pc'[e] = pc[e]
      /\ \A e \in Deliveries : pc'[e] \in GatedPCs => gate[e] \in Deliveries /\ pc[e] \in GatedPCs
  BY DEF TakePermit, ReleasePermit, GoTo, GatedPCs, GInv, TypeOK
<1>2. CASE TakePermit(d)
  <2>1. /\ holder' = [holder EXCEPT ![gate[d]] = d] /\ holder[gate[d]] = NoOne
        /\ pc[d] = "gate" /\ pc'[d] \in {"inspect", "breaker"}
    BY <1>2 DEF TakePermit, GoTo, TypeOK
  <2>2. pc[d] \notin MutationPCs /\ pc'[d] \in MutationPCs
    BY <2>1 DEF MutationPCs, GatedPCs
  <2> QED BY <1>1, <2>1, <2>2 DEF HInv, HolderAtWork, TypeOK
<1>3. CASE ReleasePermit(d)
  <2>1. /\ holder' = [holder EXCEPT ![gate[d]] = NoOne]
    BY <1>3 DEF ReleasePermit
  <2>2. ASSUME NEW e \in Deliveries, pc'[e] \in GatedPCs, holder'[gate[e]] # NoOne
        PROVE  holder[gate[e]] # d
    BY <1>1, <2>1, <2>2 DEF HInv, HolderAtWork, TypeOK
  <2> QED BY <1>1, <2>1, <2>2 DEF HInv, HolderAtWork, TypeOK
<1> QED BY <1>2, <1>3

LEMMA HolderLeave ==
  ASSUME TypeOK, HInv, NEW d \in Deliveries, LeaveGate(d)
  PROVE  HInv'
<1>1. /\ holder' = holder /\ gate' = [gate EXCEPT ![d] = NoOne]
      /\ pc' = [pc EXCEPT ![d] = AfterGate(result[d])]
      /\ pc[d] \notin MutationPCs /\ AfterGate(result[d]) \notin GatedPCs
  BY DEF LeaveGate, GoTo, MutationPCs, AfterGate, GatedPCs
<1> QED BY <1>1 DEF HInv, HolderAtWork, TypeOK

LEMMA HolderStep == TypeOK /\ GInv /\ HInv /\ [Next]_vars => HInv'
<1> SUFFICES ASSUME TypeOK, GInv, HInv, [Next]_vars PROVE HInv'
  OBVIOUS
<1>1. ASSUME NEW d \in Deliveries, Step(d) PROVE HInv'
  BY <1>1, HolderJoin, HolderPermit, HolderLeave, QuietSteps, HolderQuiet
<1>2. CASE UNCHANGED vars
  BY <1>2 DEF vars, HInv, HolderAtWork
<1> QED BY <1>1, <1>2 DEF Next, Quiescent

\* Nobody waits for a permit that no one gives back: whatever deliveries come
\* and go, no chain and no circle of waits forms at a task's gate.
THEOREM GateOpensHolds == Spec => []GateOpens
<1>1. GInv /\ HInv => GateOpens
  <2> SUFFICES ASSUME GInv, HInv, NEW d \in Deliveries, pc[d] = "gate", holder[gate[d]] # NoOne
               PROVE  \E e \in Mates(d) \ {d} : holder[gate[d]] = e /\ pc[e] \in MutationPCs
    BY DEF GateOpens
  <2>1. PICK e \in Deliveries : e = holder[gate[d]] /\ pc[e] \in MutationPCs /\ gate[e] = gate[d]
    BY DEF HInv, HolderAtWork, GatedPCs
  <2>2. pc[e] \in GatedPCs /\ e # d
    BY <2>1 DEF MutationPCs
  <2>3. gate[d] # NoOne /\ gateOf[ThreadOf[d]] = gate[d] /\ gateOf[ThreadOf[e]] = gate[d]
    BY <2>1, <2>2, ConstantsAssumption DEF GInv, GatedPCs
  <2>4. ThreadOf[e] = ThreadOf[d]
    BY <2>3, ConstantsAssumption DEF GInv
  <2> QED BY <2>1, <2>2, <2>4
<1> QED BY <1>1, TypeCorrect, GateInvariant, HolderInit, HolderStep, PTL DEF Spec

-----------------------------------------------------------------------------
(* The breaker *)

DesktopPCs == {"probe", "connect", "follow", "desktop-submit", "desktop-reply"}

\* An unresolved Desktop write owns its task's breaker, and nobody is past the
\* breaker check while one is open.
BreakerInv(d) ==
  /\ Unresolved(d) => breaker[ThreadOf[d]] = d
  /\ pc[d] \in DesktopPCs => breaker[ThreadOf[d]] = NoOne
  /\ pc[d] = "decide" /\ outcome[d].tag = "Ambiguous" => breaker[ThreadOf[d]] = NoOne

BInv == \A d \in Deliveries : BreakerInv(d)

LEMMA BreakerInit == Init => BInv
BY DEF Init, BInv, BreakerInv, Unresolved, DesktopPCs, NoResult, Result

\* Every step but Decide and ReconcileMatched leaves the breakers alone.
LEMMA BreakerUntouched ==
  ASSUME NEW d \in Deliveries, Step(d), ~Decide(d), ~ReconcileMatched(d)
  PROVE  breaker' = breaker
BY DEF Step, Progress, Deliver, CheckDeadline, ObserveTask, AwaitFails, JoinGate, TakePermit,
       ReleasePermit, LeaveGate, InspectIdle, CheckBreaker, DesktopReady, DesktopNotReady,
       DesktopFollowed, DesktopReply, Reply, LocalCheck, LocalReply, ReconcileFails,
       Expire, Transmit, Land, Refuse, Publish, EndTurn

\* What a step that leaves the breakers alone does to its own delivery.
LEMMA BreakerSelf ==
  ASSUME TypeOK, WInv, BInv, NEW d \in Deliveries, Step(d), ~Decide(d), ~ReconcileMatched(d)
  PROVE  BreakerInv(d)'
<1> BreakerInv(d) /\ WriteInv(d) /\ breaker' = breaker
  BY BreakerUntouched DEF BInv, WInv
<1> USE DEF TypeOK, BreakerInv, Unresolved, DesktopPCs, GoTo, Answer, Classify, Release, Finish,
        gates, task, fiber, NoResult, Result, AwaitPCs
<1>1. CASE Deliver(d) \/ CheckDeadline(d) \/ ObserveTask(d) \/ AwaitFails(d)
  BY <1>1 DEF Deliver, CheckDeadline, ObserveTask, AwaitFails
<1>2. CASE JoinGate(d) \/ TakePermit(d) \/ ReleasePermit(d)
  BY <1>2 DEF JoinGate, TakePermit, ReleasePermit
<1>3. CASE LeaveGate(d)
  BY <1>3 DEF LeaveGate, AfterGate, Retry
<1>4. CASE InspectIdle(d) \/ CheckBreaker(d) \/ DesktopReady(d) \/ DesktopNotReady(d)
  BY <1>4 DEF InspectIdle, CheckBreaker, DesktopReady, DesktopNotReady, NotSubmitted
<1>5. CASE DesktopFollowed(d)
  BY <1>5 DEF DesktopFollowed, NotSubmitted
<1>6. CASE DesktopReply(d)
  BY <1>6 DEF DesktopReply, Reply
<1>7. CASE LocalCheck(d) \/ LocalReply(d)
  BY <1>7 DEF LocalCheck, LocalReply, RouteResult, NotSubmitted, Answered
<1>8. CASE ReconcileFails(d)
  <2>1. result[d].tag = "PendingReconciliation" /\ pc'[d] = "done"
    BY <1>8 DEF ReconcileFails, WriteInv
  <2>2. Unresolved(d)' => result[d].route = "desktop"
    BY <1>8 DEF ReconcileFails
  <2>3. result[d].route = "desktop" => Unresolved(d)
    <3>1. result[d] \in Results OBVIOUS
    <3> QED BY <3>1, <2>1 DEF Results
  <2> QED BY <2>1, <2>2, <2>3
<1>9. CASE Expire(d) \/ Transmit(d) \/ Land(d) \/ Refuse(d) \/ Publish(d) \/ EndTurn(d)
  BY <1>9 DEF Expire, Transmit, Land, Refuse, Publish, EndTurn
<1> QED
  BY <1>1, <1>2, <1>3, <1>4, <1>5, <1>6, <1>7, <1>8, <1>9 DEF Step, Progress

LEMMA BreakerOthers ==
  ASSUME TypeOK, WInv, BInv, NEW d \in Deliveries, Step(d), ~Decide(d), ~ReconcileMatched(d),
         NEW e \in Deliveries, e # d
  PROVE  BreakerInv(e)'
BY OthersStay, BreakerUntouched DEF Same, BInv, BreakerInv, Unresolved

\* Decide opens the breaker under the permit, so nobody is near Desktop.
LEMMA BreakerDecide ==
  ASSUME TypeOK, WInv, GInv, BInv, NEW d \in Deliveries, Decide(d)
  PROVE  BInv'
<1> DEFINE t == ThreadOf[d]
<1>0. Step(d) /\ t \in Threads /\ pc[d] = "decide"
  BY ConstantsAssumption DEF Step, Progress, Decide
<1>1. \A e \in Deliveries : e # d /\ ThreadOf[e] = t => pc[e] \notin MutationPCs
  BY <1>0, Exclusion DEF PermitExclusion, MutationPCs, GatedPCs
<1>2. breaker' = IF Trips(outcome[d]) THEN [breaker EXCEPT ![t] = d] ELSE breaker
  BY DEF Decide
<1>3. Trips(outcome[d]) => breaker[t] = NoOne
  BY <1>0 DEF Trips, BInv, BreakerInv
<1>4. pc'[d] \in {"unlock", "local-check"}
  BY DEF Decide, Release, GoTo, TypeOK
<1>5. BreakerInv(d)'
  <2>1. Unresolved(d)' => Trips(outcome[d])
    BY <1>0 DEF Decide, Release, Answer, Classify, GoTo, Unresolved, RouteResult, Result, Trips,
                TypeOK, WInv, WriteInv, AnsweredPCs, NoResult, MayFallback
  <2>2. Trips(outcome[d]) => breaker'[t] = d
    BY <1>0, <1>2 DEF TypeOK
  <2> QED BY <1>4, <2>1, <2>2 DEF BreakerInv, DesktopPCs
<1>6. ASSUME NEW e \in Deliveries, e # d
      PROVE  BreakerInv(e)'
  <2>1. Same(e)
    BY <1>0, <1>6, OthersStay
  <2>2. CASE ThreadOf[e] = t
    <3>1. pc'[e] \notin MutationPCs
      BY <1>1, <1>6, <2>1, <2>2 DEF Same
    <3>2. pc'[e] \notin DesktopPCs \cup {"decide"}
      BY <3>1 DEF MutationPCs, GatedPCs, DesktopPCs
    <3>3. Unresolved(e)' => breaker'[ThreadOf[e]] = e
      BY <1>2, <1>3, <1>6, <2>1, <2>2, ConstantsAssumption DEF Same, BInv, BreakerInv, Unresolved
    <3> QED BY <3>2, <3>3 DEF BreakerInv
  <2>3. CASE ThreadOf[e] # t
    <3>1. breaker'[ThreadOf[e]] = breaker[ThreadOf[e]]
      BY <1>0, <1>2, <2>3, ConstantsAssumption DEF TypeOK
    <3> QED BY <3>1, <2>1 DEF Same, BInv, BreakerInv, Unresolved
  <2> QED BY <2>2, <2>3
<1> QED BY <1>5, <1>6 DEF BInv

LEMMA BreakerMatched ==
  ASSUME TypeOK, WInv, BInv, NEW d \in Deliveries, ReconcileMatched(d)
  PROVE  BInv'
<1> DEFINE t == ThreadOf[d]
<1>0. Step(d) /\ t \in Threads
  BY ConstantsAssumption DEF Step
<1>1. breaker' = IF breaker[t] = d THEN [breaker EXCEPT ![t] = NoOne] ELSE breaker
  BY DEF ReconcileMatched, OwnsBreaker
<1>2. pc'[d] = "done" /\ result'[d].tag = "Reconciled"
  BY DEF ReconcileMatched, Finish, Answer, GoTo, Result, TypeOK
<1>3. BreakerInv(d)'
  BY <1>2 DEF BreakerInv, DesktopPCs, Unresolved, Result
<1>4. ASSUME NEW e \in Deliveries, e # d
      PROVE  BreakerInv(e)'
  <2>1. Same(e)
    BY <1>0, <1>4, OthersStay
  <2>2. breaker'[ThreadOf[e]] \in {breaker[ThreadOf[e]], NoOne}
    BY <1>0, <1>1, ConstantsAssumption DEF TypeOK
  <2>3. breaker[ThreadOf[e]] = e => breaker'[ThreadOf[e]] = e
    BY <1>0, <1>1, <1>4, ConstantsAssumption DEF TypeOK
  <2> QED BY <2>1, <2>2, <2>3 DEF Same, BInv, BreakerInv, Unresolved
<1> QED BY <1>3, <1>4 DEF BInv

LEMMA BreakerStep == TypeOK /\ WInv /\ GInv /\ BInv /\ [Next]_vars => BInv'
<1> SUFFICES ASSUME TypeOK, WInv, GInv, BInv, [Next]_vars PROVE BInv'
  OBVIOUS
<1>1. ASSUME NEW d \in Deliveries, Step(d) PROVE BInv'
  BY <1>1, BreakerDecide, BreakerMatched, BreakerSelf, BreakerOthers DEF BInv
<1>2. CASE UNCHANGED vars
  BY <1>2 DEF vars, BInv, BreakerInv, Unresolved
<1> QED BY <1>1, <1>2 DEF Next, Quiescent

THEOREM BreakerInvariant == Spec => []BInv
<1> QED BY TypeCorrect, WriteInvariant, GateInvariant, BreakerInit, BreakerStep, PTL DEF Spec

\* While a Desktop write stands unresolved, no other delivery to the task is
\* anywhere in its Desktop attempt.
THEOREM DesktopQuarantineHolds == Spec => []DesktopQuarantine
<1>1. BInv => DesktopQuarantine
  BY ConstantsAssumption DEF BInv, BreakerInv, DesktopQuarantine, DesktopPCs
<1> QED BY <1>1, BreakerInvariant, PTL

\* A breaker changes from set to clear only when its own delivery reconciles.
THEOREM BreakerClearedByOwnerHolds == Spec => BreakerClearedByOwner
<1>1. TypeOK /\ WInv /\ BInv /\ [Next]_vars => [ClearedByOwner]_vars
  <2> SUFFICES ASSUME TypeOK, WInv, BInv, [Next]_vars PROVE [ClearedByOwner]_vars
    OBVIOUS
  <2>1. ASSUME NEW d \in Deliveries, Step(d) PROVE ClearedByOwner
    <3>1. CASE Decide(d)
      <4>1. breaker' = IF Trips(outcome[d]) THEN [breaker EXCEPT ![ThreadOf[d]] = d] ELSE breaker
        BY <3>1 DEF Decide
      <4>2. Trips(outcome[d]) => breaker[ThreadOf[d]] = NoOne
        BY <3>1 DEF Decide, Trips, BInv, BreakerInv
      <4> QED BY <4>1, <4>2 DEF ClearedByOwner, TypeOK
    <3>2. CASE ReconcileMatched(d)
      <4>1. breaker' = IF breaker[ThreadOf[d]] = d
                       THEN [breaker EXCEPT ![ThreadOf[d]] = NoOne] ELSE breaker
        BY <3>2 DEF ReconcileMatched, OwnsBreaker
      <4>2. result[d].tag # "Reconciled" /\ result'[d].tag = "Reconciled"
        BY <3>2 DEF ReconcileMatched, Finish, Answer, Result, TypeOK, WInv, WriteInv
      <4> QED BY <4>1, <4>2, ConstantsAssumption DEF ClearedByOwner, TypeOK
    <3>3. CASE ~Decide(d) /\ ~ReconcileMatched(d)
      BY <2>1, <3>3, BreakerUntouched DEF ClearedByOwner
    <3> QED BY <3>1, <3>2, <3>3
  <2> QED BY <2>1 DEF Next, Quiescent
<1> QED BY <1>1, TypeCorrect, WriteInvariant, BreakerInvariant, PTL
        DEF Spec, BreakerClearedByOwner

-----------------------------------------------------------------------------
(* The idle check *)

StartPCs == MutationPCs \ {"inspect", "unlock"}

\* A queue delivery past inspectIdle has no confirmed local turn beside it.
NInv ==
  \A d, e \in Deliveries :
    d # e /\ ThreadOf[d] = ThreadOf[e] /\ Mode[d] = "queue" /\ Mode[e] = "queue"
      /\ pc[d] \in StartPCs => ~ConfirmedRunning(e)

LEMMA IdleInit == Init => NInv
BY DEF Init, NInv, ConfirmedRunning

\* Only the app-server's reply, under the permit, makes such a turn.
LEMMA ConfirmedUnderPermit ==
  ASSUME TypeOK, WInv, NEW d \in Deliveries, Step(d), ConfirmedRunning(d)', ~ConfirmedRunning(d)
  PROVE  pc[d] \in MutationPCs
<1> WriteInv(d)
  BY DEF WInv
<1> USE DEF TypeOK, ConfirmedRunning, GoTo, Answer, Classify, Release, Finish, gates, task, fiber,
        Result, NoResult, MutationPCs, GatedPCs
<1>1. CASE Deliver(d) \/ CheckDeadline(d) \/ ObserveTask(d) \/ AwaitFails(d)
  BY <1>1 DEF Deliver, CheckDeadline, ObserveTask, AwaitFails
<1>2. CASE JoinGate(d) \/ TakePermit(d) \/ ReleasePermit(d)
  BY <1>2 DEF JoinGate, TakePermit, ReleasePermit
<1>3. CASE LeaveGate(d)
  BY <1>3 DEF LeaveGate
<1>4. CASE InspectIdle(d) \/ CheckBreaker(d) \/ DesktopReady(d) \/ DesktopNotReady(d)
  BY <1>4 DEF InspectIdle, CheckBreaker, DesktopReady, DesktopNotReady
<1>5. CASE DesktopFollowed(d) \/ DesktopReply(d)
  BY <1>5 DEF DesktopFollowed, DesktopReply, Reply
<1>6. CASE Decide(d) \/ LocalCheck(d) \/ LocalReply(d)
  BY <1>6 DEF Decide, LocalCheck, LocalReply
<1>7. CASE ReconcileMatched(d) \/ ReconcileFails(d)
  BY <1>7 DEF ReconcileMatched, ReconcileFails
<1>8. CASE Land(d)
  BY <1>8 DEF Land, WriteInv
<1>9. CASE Expire(d) \/ Transmit(d) \/ Refuse(d) \/ Publish(d) \/ EndTurn(d)
  BY <1>9 DEF Expire, Transmit, Refuse, Publish, EndTurn
<1> QED
  BY <1>1, <1>2, <1>3, <1>4, <1>5, <1>6, <1>7, <1>8, <1>9 DEF Step, Progress

\* A queue delivery comes to the routes only through an idle inspection.
LEMMA StartsInspected ==
  ASSUME TypeOK, NEW d \in Deliveries, Step(d), Mode[d] = "queue",
         pc'[d] \in StartPCs, pc[d] \notin StartPCs
  PROVE  InspectIdle(d) /\ SeenIdle(d)
<1> USE DEF TypeOK, GoTo, Answer, Classify, Release, Finish, gates, task, fiber,
        StartPCs, MutationPCs, GatedPCs, AwaitPCs
<1>1. CASE Deliver(d) \/ CheckDeadline(d) \/ ObserveTask(d) \/ AwaitFails(d)
  BY <1>1 DEF Deliver, CheckDeadline, ObserveTask, AwaitFails
<1>2. CASE JoinGate(d) \/ TakePermit(d) \/ ReleasePermit(d) \/ LeaveGate(d)
  BY <1>2 DEF JoinGate, TakePermit, ReleasePermit, LeaveGate, AfterGate
<1>3. CASE InspectIdle(d)
  BY <1>3 DEF InspectIdle
<1>4. CASE CheckBreaker(d) \/ DesktopReady(d) \/ DesktopNotReady(d)
           \/ DesktopFollowed(d) \/ DesktopReply(d)
  BY <1>4 DEF CheckBreaker, DesktopReady, DesktopNotReady, DesktopFollowed, DesktopReply
<1>5. CASE Decide(d) \/ LocalCheck(d) \/ LocalReply(d)
  BY <1>5 DEF Decide, LocalCheck, LocalReply
<1>6. CASE ReconcileMatched(d) \/ ReconcileFails(d)
  BY <1>6 DEF ReconcileMatched, ReconcileFails
<1>7. CASE Expire(d) \/ Transmit(d) \/ Land(d) \/ Refuse(d) \/ Publish(d) \/ EndTurn(d)
  BY <1>7 DEF Expire, Transmit, Land, Refuse, Publish, EndTurn
<1> QED BY <1>1, <1>2, <1>3, <1>4, <1>5, <1>6, <1>7 DEF Step, Progress

LEMMA IdleStep == TypeOK /\ WInv /\ GInv /\ NInv /\ [Next]_vars => NInv'
<1> SUFFICES ASSUME TypeOK, WInv, GInv, NInv, [Next]_vars PROVE NInv'
  OBVIOUS
<1>1. ASSUME NEW f \in Deliveries, Step(f) PROVE NInv'
  <2> SUFFICES ASSUME NEW d \in Deliveries, NEW e \in Deliveries, d # e,
                      ThreadOf[d] = ThreadOf[e], Mode[d] = "queue", Mode[e] = "queue",
                      pc'[d] \in StartPCs, ConfirmedRunning(e)'
               PROVE  FALSE
    BY DEF NInv
  <2>1. CASE ~ConfirmedRunning(e)
    <3>1. f = e
      BY <1>1, <2>1, OthersStay DEF Same, ConfirmedRunning
    <3>2. pc[e] \in MutationPCs
      BY <1>1, <2>1, <3>1, ConfirmedUnderPermit
    <3>3. pc[d] \in MutationPCs
      BY <1>1, <3>1, OthersStay DEF Same, StartPCs
    <3> QED BY <3>2, <3>3, Exclusion DEF PermitExclusion
  <2>2. CASE ConfirmedRunning(e)
    <3>1. pc[d] \notin StartPCs
      BY <2>2 DEF NInv
    <3>2. f = d
      BY <1>1, <3>1, OthersStay DEF Same
    <3>3. SeenIdle(d)
      BY <1>1, <3>1, <3>2, StartsInspected
    <3>4. fate[e] = "shown" /\ running[e]
      BY <2>2 DEF ConfirmedRunning, Result, WInv, WriteInv, AnsweredPCs, NoResult
    <3> QED BY <3>3, <3>4 DEF SeenIdle, CanonicallyBusy, Mates
  <2> QED BY <2>1, <2>2
<1>2. CASE UNCHANGED vars
  BY <1>2 DEF vars, NInv, ConfirmedRunning
<1> QED BY <1>1, <1>2 DEF Next, Quiescent

\* Requests are counted where they are transmitted.
LEMMA CopiesGrow ==
  ASSUME TypeOK, NEW d \in Deliveries, Step(d), copies'[d] > copies[d]
  PROVE  pc[d] \in StartPCs
<1>1. ~Transmit(d) => copies' = copies \/ Refuse(d)
  BY DEF Step, Progress, Deliver, CheckDeadline, ObserveTask, AwaitFails, JoinGate, TakePermit,
         ReleasePermit, LeaveGate, InspectIdle, CheckBreaker, DesktopReady, DesktopNotReady,
         DesktopFollowed, DesktopReply, Reply, Decide, LocalCheck, LocalReply, ReconcileMatched,
         ReconcileFails, Expire, Land, Publish, EndTurn, task
<1>2. copies[d] \in Int /\ (Refuse(d) => copies'[d] = copies[d] - 1)
  BY DEF Refuse, TypeOK
<1>3. Transmit(d)
  BY <1>1, <1>2
<1> QED BY <1>3 DEF Transmit, StartPCs, MutationPCs, GatedPCs

\* A queue message is never written beside a running turn the app-server
\* confirmed for another queue message of the task.
THEOREM NoOverlapHolds == Spec => NoOverlap
<1>1. Spec => []NInv
  BY TypeCorrect, WriteInvariant, GateInvariant, IdleInit, IdleStep, PTL DEF Spec
<1>2. TypeOK /\ NInv /\ [Next]_vars => [StartsAlone]_vars
  <2> SUFFICES ASSUME TypeOK, NInv, [Next]_vars PROVE [StartsAlone]_vars
    OBVIOUS
  <2>1. ASSUME NEW f \in Deliveries, Step(f) PROVE StartsAlone
    <3> SUFFICES ASSUME NEW d \in Deliveries, copies'[d] > copies[d]
                 PROVE  pc[d] \in StartPCs
      BY DEF StartsAlone, NInv
    <3>1. f = d
      BY <2>1, OthersStay DEF Same, TypeOK
    <3> QED BY <2>1, <3>1, CopiesGrow
  <2> QED BY <2>1 DEF Next, Quiescent
<1> QED BY <1>1, <1>2, TypeCorrect, PTL DEF Spec, NoOverlap

-----------------------------------------------------------------------------
(* The promise *)

V == [d \in Deliveries |-> VerdictOf(result[d])]
E == [d \in Deliveries |-> EffectOf(fate[d])]

LEMMA PromiseInit == Init => Promise!Init
BY DEF Init, Promise!Init, VerdictOf, EffectOf, NoResult

\* A step changes its own delivery's entry only.
LEMMA PromiseEntry ==
  ASSUME TypeOK, TypeOK', NEW d \in Deliveries, Step(d)
  PROVE  /\ V' = [V EXCEPT ![d] = VerdictOf(result'[d])]
         /\ E' = [E EXCEPT ![d] = EffectOf(fate'[d])]
         /\ via' = [via EXCEPT ![d] = via'[d]]
<1>1. \A e \in Deliveries : e # d => result'[e] = result[e] /\ fate'[e] = fate[e] /\ via'[e] = via[e]
  BY OthersStay DEF Same
<1>2. V' = [V EXCEPT ![d] = VerdictOf(result'[d])]
  <2>1. \A e \in Deliveries \ {d} : VerdictOf(result'[e]) = VerdictOf(result[e])
    BY <1>1
  <2> QED BY <2>1, Zenon DEF V
<1>3. E' = [E EXCEPT ![d] = EffectOf(fate'[d])]
  <2>1. \A e \in Deliveries \ {d} : EffectOf(fate'[e]) = EffectOf(fate[e])
    BY <1>1
  <2> QED BY <2>1, Zenon DEF E
<1>4. via' = [via EXCEPT ![d] = via'[d]]
  BY <1>1 DEF TypeOK
<1> QED BY <1>2, <1>3, <1>4

\* What a step may do to its own entry, action by action of the promise.
Kept(d) == V'[d] = V[d] /\ E'[d] = E[d] /\ via'[d] = via[d]
Written(d) ==
  V[d] = "open" /\ E[d] = "none" /\ via'[d] \in Routes /\ E'[d] = "possible" /\ V'[d] = V[d]
Settled(d) ==
  /\ E[d] = "possible" /\ V'[d] = V[d]
  /\ \/ E'[d] = "done" /\ via'[d] = via[d]
     \/ E'[d] = "none" /\ via'[d] = "none"
Told(d) ==
  /\ E'[d] = E[d] /\ via'[d] = via[d]
  /\ \/ V[d] = "open" /\ V'[d] = "doubtful"
     \/ V[d] \in {"open", "doubtful"} /\ E[d] = "done" /\ V'[d] = via[d]
     \/ V[d] = "open" /\ E[d] = "none" /\ V'[d] \in {"Unavailable", "Rejected"}
     \/ V[d] = "doubtful" /\ V'[d] = "Ambiguous"

LEMMA PromiseSelf ==
  ASSUME TypeOK, WInv, WInv', NEW d \in Deliveries, Step(d)
  PROVE  Kept(d) \/ Written(d) \/ Settled(d) \/ Told(d)
<1> WriteInv(d) /\ WriteInv(d)'
  BY DEF WInv
<1> USE DEF TypeOK, V, E, VerdictOf, EffectOf, GoTo, Answer, Classify, Release, Finish, gates, task,
        fiber, Result, NoResult
<1>1. CASE Deliver(d) \/ CheckDeadline(d) \/ ObserveTask(d) \/ AwaitFails(d)
  BY <1>1 DEF Deliver, CheckDeadline, ObserveTask, AwaitFails, AwaitPCs, WriteInv, AnsweredPCs,
              ReplyPCs, Kept, Told
<1>2. CASE JoinGate(d) \/ TakePermit(d) \/ ReleasePermit(d)
  BY <1>2 DEF JoinGate, TakePermit, ReleasePermit, Kept
<1>3. CASE LeaveGate(d)
  BY <1>3 DEF LeaveGate, Retry, Kept
<1>4. CASE InspectIdle(d)
  BY <1>4 DEF InspectIdle, WriteInv, AnsweredPCs, ReplyPCs, Kept, Told
<1>5. CASE CheckBreaker(d) \/ DesktopReady(d) \/ DesktopNotReady(d)
  BY <1>5 DEF CheckBreaker, DesktopReady, DesktopNotReady, Kept
<1>6. CASE DesktopFollowed(d)
  BY <1>6 DEF DesktopFollowed, WriteInv, AnsweredPCs, Kept
<1>7. CASE DesktopReply(d)
  BY <1>7 DEF DesktopReply, Reply, Kept
<1>8. CASE Decide(d)
  BY <1>8 DEF Decide, RouteResult, Truthful, WriteInv, AnsweredPCs, Kept, Told
<1>9. CASE LocalCheck(d)
  BY <1>9 DEF LocalCheck, WriteInv, AnsweredPCs, ReplyPCs, Kept, Told
<1>10. CASE LocalReply(d)
  BY <1>10 DEF LocalReply, RouteResult, Truthful, NotSubmitted, Answered, WriteInv, AnsweredPCs, Told
<1>11. CASE ReconcileMatched(d)
  BY <1>11 DEF ReconcileMatched, ReconciledRoute, WriteInv, Told
<1>12. CASE ReconcileFails(d)
  BY <1>12 DEF ReconcileFails, WriteInv, Told
<1>13. CASE Transmit(d)
  BY <1>13 DEF Transmit, WriteInv, AnsweredPCs, ReplyPCs, Routes, Written
<1>14. CASE Land(d) \/ Refuse(d)
  BY <1>14 DEF Land, Refuse, Settled
<1>15. CASE Expire(d) \/ Publish(d) \/ EndTurn(d)
  BY <1>15 DEF Expire, Publish, EndTurn, Kept
<1> QED
  BY <1>1, <1>2, <1>3, <1>4, <1>5, <1>6, <1>7, <1>8, <1>9, <1>10, <1>11, <1>12, <1>13, <1>14, <1>15
     DEF Step, Progress

LEMMA PromiseStep ==
  TypeOK /\ TypeOK' /\ WInv /\ WInv' /\ [Next]_vars => [Promise!Next]_(Promise!promiseVars)
<1> SUFFICES ASSUME TypeOK, TypeOK', WInv, WInv', [Next]_vars
             PROVE  [Promise!Next]_(Promise!promiseVars)
  OBVIOUS
<1>1. ASSUME NEW d \in Deliveries, Step(d) PROVE [Promise!Next]_(Promise!promiseVars)
  <2>0. [V EXCEPT ![d] = V[d]] = V /\ [E EXCEPT ![d] = E[d]] = E /\ [via EXCEPT ![d] = via[d]] = via
    BY DEF V, E, TypeOK
  <2>1. /\ V' = [V EXCEPT ![d] = V'[d]]
        /\ E' = [E EXCEPT ![d] = E'[d]]
        /\ via' = [via EXCEPT ![d] = via'[d]]
    BY <1>1, PromiseEntry DEF V, E
  <2>2. CASE Kept(d)
    <3>1. V' = V /\ E' = E /\ via' = via
      BY <2>0, <2>1, <2>2 DEF Kept
    <3> QED BY <3>1 DEF Promise!promiseVars, V, E
  <2>3. CASE Written(d)
    BY <2>1, <2>3 DEF Written, Promise!Next, Promise!Write, Promise!Routes, Routes, V, E
  <2>4. CASE Settled(d)
    <3>1. /\ E[d] = "possible" /\ V' = V
          /\ \/ E' = [E EXCEPT ![d] = "done"] /\ via' = via
             \/ E' = [E EXCEPT ![d] = "none"] /\ via' = [via EXCEPT ![d] = "none"]
      BY <2>0, <2>1, <2>4 DEF Settled
    <3> QED BY <3>1 DEF Promise!Next, Promise!Settle, V, E
  <2>5. CASE Told(d)
    <3>1. E' = E /\ via' = via
      BY <2>0, <2>1, <2>5 DEF Told
    <3>2. \/ V[d] = "open" /\ V' = [V EXCEPT ![d] = "doubtful"]
          \/ V[d] \in {"open", "doubtful"} /\ E[d] = "done" /\ V' = [V EXCEPT ![d] = via[d]]
          \/ /\ V[d] = "open" /\ E[d] = "none"
             /\ \E v \in {"Unavailable", "Rejected"} : V' = [V EXCEPT ![d] = v]
          \/ V[d] = "doubtful" /\ V' = [V EXCEPT ![d] = "Ambiguous"]
      BY <2>1, <2>5 DEF Told
    <3> QED
      BY <3>1, <3>2
         DEF Promise!Next, Promise!Doubt, Promise!Confirm, Promise!Refuse, Promise!GiveUp, V, E
  <2> QED BY <1>1, <2>2, <2>3, <2>4, <2>5, PromiseSelf
<1>2. CASE UNCHANGED vars
  BY <1>2 DEF vars, Promise!promiseVars
<1> QED BY <1>1, <1>2 DEF Next, Quiescent

\* The coordinator implements DeliveryPromise: every step is one the promise
\* allows its delivery, or leaves verdict, effect and route alone.
THEOREM KeepsPromiseHolds == Spec => KeepsPromise
<1> QED BY TypeCorrect, WriteInvariant, PromiseInit, PromiseStep, PTL
        DEF Spec, KeepsPromise, Promise!Spec
=============================================================================

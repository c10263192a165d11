------------------------- MODULE DeliveryCoordinator -------------------------
(***************************************************************************)
(* The local delivery coordinator: every webhook message becomes one call  *)
(* of deliver, and concurrent calls share the per-task mutation gates and  *)
(* the Desktop breakers.  A delivery tries the live Desktop route first    *)
(* and may fall back to the canonical app-server only while it is certain  *)
(* that nothing was written.  The two routes, the canonical history and    *)
(* the clock are the environment: a request, once transmitted, may take    *)
(* effect before the reply, after it, or never.                            *)
(***************************************************************************)
EXTENDS Integers, FiniteSets

CONSTANTS Deliveries,  \* calls of deliver, each with its own delivery id
          Threads,     \* Codex tasks
          ThreadOf,    \* the task a delivery targets
          Mode,        \* its mode, "queue" or "steer"
          NoOne        \* not a delivery

Routes  == {"desktop", "app-server"}
Reasons == {"unavailable", "incompatible", "pre-submit-failure",
            "task-busy", "confirmed-not-submitted"}

ASSUME ConstantsAssumption ==
  /\ IsFiniteSet(Deliveries)
  /\ ThreadOf \in [Deliveries -> Threads]
  /\ Mode \in [Deliveries -> {"queue", "steer"}]
  /\ NoOne \notin Deliveries

VARIABLES
  pc,       \* where each delivery's fiber is
  expired,  \* its turnTimeout deadline has passed
  saw,      \* awaitState's sawActivity
  outcome,  \* the outcome of the route tried last
  result,   \* what route, reconcile or queueDelivery answered
  gateOf,   \* TaskGatePool.#gates: task -> gate, named by the delivery that made it
  users,    \* gate.users
  holder,   \* who has the permit of gate.semaphore
  gate,     \* the gate object each delivery acquired
  breaker,  \* desktopBreakers: task -> delivery of the unresolved Desktop write
  fate,     \* what became of the delivery's last transmitted request
  via,      \* the route that request took
  copies,   \* requests of this delivery that have started, or may yet start, work
  running   \* the turn this delivery started is still in progress

fiber == <<pc, expired, saw, outcome, result>>
gates == <<gateOf, users, holder, gate>>
task  == <<fate, via, copies, running>>
vars  == <<pc, expired, saw, outcome, result, gateOf, users, holder, gate,
           breaker, fate, via, copies, running>>

AwaitPCs  == {"await-idle", "await-activity"}
\* From TaskGatePool.run's acquire to its release.
GatedPCs  == {"gate", "inspect", "breaker", "probe", "connect", "follow",
              "desktop-submit", "desktop-reply", "decide", "local-check",
              "local-submit", "local-reply", "unlock", "leave"}
\* The part of it that runs under the permit.
MutationPCs == GatedPCs \ {"gate", "leave"}
PCs == {"new", "deadline", "join", "reconcile", "done"} \cup AwaitPCs \cup GatedPCs

Outcomes == [tag : {"none", "Confirmed", "NotSubmitted", "Ambiguous", "Rejected"},
             route : Routes \cup {"none"}, reason : Reasons \cup {"none"}]
Results  == [tag : {"none", "RetryIdle", "RetryActivity", "PendingReconciliation",
                    "Confirmed", "Reconciled", "Unavailable", "Rejected", "Ambiguous"},
             route : Routes \cup {"none"}]

None == [tag |-> "none", route |-> "none", reason |-> "none"]
NotSubmitted(route, reason) ==
  [tag |-> "NotSubmitted", route |-> route, reason |-> reason]
Answered(tag, route) == [tag |-> tag, route |-> route, reason |-> "none"]

NoResult == [tag |-> "none", route |-> "none"]
Result(tag, route) == [tag |-> tag, route |-> route]

Mates(d) == {e \in Deliveries : ThreadOf[e] = ThreadOf[d]}

-----------------------------------------------------------------------------
(* Faulty variants: each is a plausible slip in one definition below, put in *)
(* its place to see that a property notices.                                 *)

NeverGivesUp(d) == FALSE                    \* the idle loop forgets its deadline
FirstUserDrops(g) == TRUE                   \* any leaving user deletes the gate
CountedBeforeLeaving(g) == users[g] = 0     \* the count is read too early
TrustsEarlierWait(d) == TRUE                \* no recheck under the gate
NeverTrips(o) == FALSE
FallbackAfterDoubt(o) ==
  o.route = "desktop" /\ o.tag \in {"NotSubmitted", "Ambiguous"} /\ o.reason # "task-busy"
DoubtIsRejection(o) ==
  IF o.tag = "Confirmed" THEN Result("Confirmed", o.route)
  ELSE IF o.tag = "NotSubmitted" THEN Result("Unavailable", "none")
  ELSE Result("Rejected", o.route)
ObservingRoute(d) == "app-server"           \* names the plane that observed it

-----------------------------------------------------------------------------
Init ==
  /\ pc = [d \in Deliveries |-> "new"]
  /\ expired = [d \in Deliveries |-> FALSE]
  /\ saw = [d \in Deliveries |-> FALSE]
  /\ outcome = [d \in Deliveries |-> None]
  /\ result = [d \in Deliveries |-> NoResult]
  /\ gateOf = [t \in Threads |-> NoOne]
  /\ users = [d \in Deliveries |-> 0]
  /\ holder = [d \in Deliveries |-> NoOne]
  /\ gate = [d \in Deliveries |-> NoOne]
  /\ breaker = [t \in Threads |-> NoOne]
  /\ fate = [d \in Deliveries |-> "none"]
  /\ via = [d \in Deliveries |-> "none"]
  /\ copies = [d \in Deliveries |-> 0]
  /\ running = [d \in Deliveries |-> FALSE]

GoTo(d, at) == pc' = [pc EXCEPT ![d] = at]
Answer(d, r) == result' = [result EXCEPT ![d] = r]
Classify(d, o) == outcome' = [outcome EXCEPT ![d] = o]

\* The answer leaves the gated region, or the delivery.
Finish(d, r) ==
  /\ Answer(d, r)
  /\ GoTo(d, "done")
Release(d, r) ==
  /\ Answer(d, r)
  /\ Classify(d, None)
  /\ GoTo(d, "unlock")

-----------------------------------------------------------------------------
(* queueDelivery, outside the gate *)

\* A queue delivery starts its loop; a steer goes straight to the gate.
Deliver(d) ==
  /\ pc[d] = "new"
  /\ GoTo(d, IF Mode[d] = "queue" THEN "deadline" ELSE "join")
  /\ UNCHANGED <<expired, saw, outcome, result, gates, breaker, task>>

GivesUp(d) == expired[d]

CheckDeadline(d) ==
  /\ pc[d] = "deadline"
  /\ IF GivesUp(d)
     THEN Finish(d, Result("Unavailable", "none")) /\ UNCHANGED saw
     ELSE /\ GoTo(d, "await-idle")
          /\ saw' = [saw EXCEPT ![d] = FALSE]
          /\ UNCHANGED result
  /\ UNCHANGED <<expired, outcome, gates, breaker, task>>

\* The canonical history shows a turn in progress: one this process started
\* and the app-server shows, or any turn of another client.
CanonicallyBusy(d) == \E e \in Mates(d) : running[e] /\ fate[e] = "shown"

\* awaitState takes an event of the stream; a task seen idle ends the wait,
\* unless the wait is for an activity that has not been seen yet.
ObserveTask(d) ==
  /\ pc[d] \in AwaitPCs
  /\ \E busy \in BOOLEAN :
       /\ CanonicallyBusy(d) => busy
       /\ \/ /\ busy
             /\ saw' = [saw EXCEPT ![d] = TRUE]
             /\ UNCHANGED pc
          \/ /\ ~busy
             /\ pc[d] = "await-activity" => saw[d]
             /\ GoTo(d, IF pc[d] = "await-idle" THEN "join" ELSE "deadline")
             /\ saw' = [saw EXCEPT ![d] = FALSE]
  /\ UNCHANGED <<expired, outcome, result, gates, breaker, task>>

\* The wait times out, the stream fails or the task is removed.
AwaitFails(d) ==
  /\ pc[d] \in AwaitPCs
  /\ Finish(d, Result("Unavailable", "none"))
  /\ saw' = [saw EXCEPT ![d] = FALSE]
  /\ UNCHANGED <<expired, outcome, gates, breaker, task>>

-----------------------------------------------------------------------------
(* TaskGatePool.run *)

\* Acquire: the task's gate object is made on first use and counted.
JoinGate(d) ==
  /\ pc[d] = "join"
  /\ LET t == ThreadOf[d]
         g == IF gateOf[t] = NoOne THEN d ELSE gateOf[t]
     IN  /\ gateOf' = [gateOf EXCEPT ![t] = g]
         /\ users' = [users EXCEPT ![g] = IF gateOf[t] = NoOne THEN 1 ELSE @ + 1]
         /\ holder' = [holder EXCEPT ![g] = IF gateOf[t] = NoOne THEN NoOne ELSE @]
         /\ gate' = [gate EXCEPT ![d] = g]
  /\ GoTo(d, "gate")
  /\ UNCHANGED <<expired, saw, outcome, result, breaker, task>>

TakePermit(d) ==
  /\ pc[d] = "gate"
  /\ holder[gate[d]] = NoOne
  /\ holder' = [holder EXCEPT ![gate[d]] = d]
  /\ GoTo(d, IF Mode[d] = "queue" THEN "inspect" ELSE "breaker")
  /\ UNCHANGED <<expired, saw, outcome, result, gateOf, users, gate, breaker, task>>

ReleasePermit(d) ==
  /\ pc[d] = "unlock"
  /\ holder' = [holder EXCEPT ![gate[d]] = NoOne]
  /\ GoTo(d, "leave")
  /\ UNCHANGED <<expired, saw, outcome, result, gateOf, users, gate, breaker, task>>

Retry(r) == r.tag \in {"RetryIdle", "RetryActivity"}

\* Where the delivery goes with what the gated region answered.
AfterGate(r) ==
  CASE r.tag = "RetryIdle" -> "deadline"
    [] r.tag = "RetryActivity" -> "await-activity"
    [] r.tag = "PendingReconciliation" -> "reconcile"
    [] OTHER -> "done"

LastUser(g) == users[g] = 1

\* Release: the last user of a gate takes it out of the pool.
LeaveGate(d) ==
  /\ pc[d] = "leave"
  /\ LET g == gate[d]
     IN  /\ users' = [users EXCEPT ![g] = @ - 1]
         /\ gateOf' = IF LastUser(g)
                      THEN [gateOf EXCEPT ![ThreadOf[d]] = NoOne] ELSE gateOf
  /\ gate' = [gate EXCEPT ![d] = NoOne]
  /\ GoTo(d, AfterGate(result[d]))
  /\ Answer(d, IF Retry(result[d]) THEN NoResult ELSE result[d])
  /\ UNCHANGED <<expired, saw, outcome, holder, breaker, task>>

-----------------------------------------------------------------------------
(* The gated region: inspectIdle, then route *)

SeenIdle(d) == ~CanonicallyBusy(d)

InspectIdle(d) ==
  /\ pc[d] = "inspect"
  /\ \/ /\ SeenIdle(d)                            \* Idle
        /\ GoTo(d, "breaker")
        /\ UNCHANGED <<outcome, result>>
     \/ Release(d, Result("RetryIdle", "none"))    \* Active
     \/ Release(d, Result("Unavailable", "none"))  \* Failed
  /\ UNCHANGED <<expired, saw, gates, breaker, task>>

\* submitDesktop begins: an open breaker keeps the command off Desktop.
CheckBreaker(d) ==
  /\ pc[d] = "breaker"
  /\ IF breaker[ThreadOf[d]] # NoOne
     THEN Classify(d, NotSubmitted("desktop", "unavailable")) /\ GoTo(d, "decide")
     ELSE UNCHANGED outcome /\ GoTo(d, "probe")
  /\ UNCHANGED <<expired, saw, result, gates, breaker, task>>

\* Desktop is available, then connected.
DesktopReady(d) ==
  /\ \/ pc[d] = "probe" /\ GoTo(d, "connect")
     \/ pc[d] = "connect" /\ GoTo(d, "follow")
  /\ UNCHANGED <<expired, saw, outcome, result, gates, breaker, task>>

\* A wait before the write times out, Desktop is unavailable or incompatible,
\* or the adapter fails or dies.
DesktopNotReady(d) ==
  /\ pc[d] \in {"probe", "connect", "follow"}
  /\ \E reason \in {"unavailable", "incompatible", "pre-submit-failure"} :
       Classify(d, NotSubmitted("desktop", reason))
  /\ GoTo(d, "decide")
  /\ UNCHANGED <<expired, saw, result, gates, breaker, task>>

\* Desktop answers follow with the task's activity.
DesktopFollowed(d) ==
  /\ pc[d] = "follow"
  /\ \E activity \in {"idle", "active", "multiple-active"} :
       LET fit == activity = (IF Mode[d] = "queue" THEN "idle" ELSE "active")
       IN  \/ /\ Mode[d] = "steer" /\ ~fit
              /\ Classify(d, NotSubmitted("desktop",
                   IF activity = "idle" THEN "pre-submit-failure" ELSE "task-busy"))
              /\ GoTo(d, "decide")
              /\ UNCHANGED result
           \/ /\ Mode[d] = "queue" /\ ~fit
              /\ Release(d, Result("RetryActivity", "none"))
           \/ /\ fit /\ expired[d]
              /\ Classify(d, NotSubmitted("desktop", "unavailable"))
              /\ GoTo(d, "decide")
              /\ UNCHANGED result
           \/ /\ fit /\ ~expired[d]
              /\ GoTo(d, "desktop-submit")
              /\ UNCHANGED <<outcome, result>>
  /\ UNCHANGED <<expired, saw, gates, breaker, task>>

\* What an adapter may answer, given what became of its request: it confirms
\* only with proof, and denies a write only when none can take effect.
Truthful(d, o) ==
  /\ o.tag = "Confirmed" => fate[d] \in {"landed", "shown"}
  /\ o.tag \in {"NotSubmitted", "Rejected"} => fate[d] = "none"

Reply(d, route) ==
  /\ \E o \in {Answered(tag, route) : tag \in {"Confirmed", "Ambiguous", "Rejected"}}
              \cup {NotSubmitted(route, reason) : reason \in Reasons} :
       Truthful(d, o) /\ Classify(d, o)
  /\ UNCHANGED <<expired, saw, result, gates, breaker, task>>

DesktopReply(d) ==
  /\ pc[d] \in {"desktop-submit", "desktop-reply"}
  /\ Reply(d, "desktop")
  /\ GoTo(d, "decide")

\* mayFallback, under PHASE_ONE_DELIVERY_POLICY.fallbackAfter.
FallbackAfter == {"unavailable", "incompatible", "pre-submit-failure",
                  "confirmed-not-submitted"}
MayFallback(o) ==
  o.route = "desktop" /\ o.tag = "NotSubmitted" /\ o.reason \in FallbackAfter

RouteResult(o) ==
  CASE o.tag = "Confirmed" -> Result("Confirmed", o.route)
    [] o.tag = "Ambiguous" -> Result("PendingReconciliation", o.route)
    [] o.tag = "Rejected" -> Result("Rejected", o.route)
    [] OTHER -> Result("Unavailable", "none")

\* An uncertain Desktop write opens the task's breaker.
Trips(o) == o.tag = "Ambiguous"

\* route, between the two attempts.
Decide(d) ==
  /\ pc[d] = "decide"
  /\ LET o == outcome[d]
         t == ThreadOf[d]
         requeue == Mode[d] = "queue" /\ o.tag = "NotSubmitted" /\ o.reason = "task-busy"
     IN  /\ breaker' = IF Trips(o) THEN [breaker EXCEPT ![t] = d] ELSE breaker
         /\ \/ requeue /\ Release(d, Result("RetryActivity", "none"))
            \/ /\ ~requeue /\ (~MayFallback(o) \/ expired[d])
               /\ Release(d, RouteResult(o))
            \/ /\ MayFallback(o) /\ ~expired[d]
               /\ Classify(d, None)
               /\ GoTo(d, "local-check")
               /\ UNCHANGED result
  /\ UNCHANGED <<expired, saw, gates, task>>

\* submitLocal up to the write: a timeout, an unavailable or incompatible
\* app-server, a defect, or the deadline end it as Unavailable.
LocalCheck(d) ==
  /\ pc[d] = "local-check"
  /\ \/ ~expired[d] /\ GoTo(d, "local-submit") /\ UNCHANGED <<outcome, result>>
     \/ Release(d, Result("Unavailable", "none"))
  /\ UNCHANGED <<expired, saw, gates, breaker, task>>

\* The app-server's outcome goes through routeResult as it is.
LocalReply(d) ==
  /\ pc[d] \in {"local-submit", "local-reply"}
  /\ \E o \in {Answered(tag, "app-server") : tag \in {"Confirmed", "Ambiguous", "Rejected"}}
              \cup {NotSubmitted("app-server", "pre-submit-failure")} :
       Truthful(d, o) /\ Release(d, RouteResult(o))
  /\ UNCHANGED <<expired, saw, gates, breaker, task>>

-----------------------------------------------------------------------------
(* reconcile, outside the gate: observes, never writes *)

OwnsBreaker(d) == breaker[ThreadOf[d]] = d
ReconciledRoute(d) == result[d].route

\* The delivery id is in a turn of the canonical history.
ReconcileMatched(d) ==
  /\ pc[d] = "reconcile"
  /\ fate[d] = "shown"
  /\ breaker' = IF OwnsBreaker(d)
                THEN [breaker EXCEPT ![ThreadOf[d]] = NoOne] ELSE breaker
  /\ Finish(d, Result("Reconciled", ReconciledRoute(d)))
  /\ UNCHANGED <<expired, saw, outcome, gates, task>>

ReconcileFails(d) ==
  /\ pc[d] = "reconcile"
  /\ Finish(d, Result("Ambiguous", result[d].route))
  /\ UNCHANGED <<expired, saw, outcome, gates, breaker, task>>

-----------------------------------------------------------------------------
(* The environment *)

\* Date.now() reaches the delivery's deadline.
Expire(d) ==
  /\ pc[d] \notin {"new", "done"} /\ ~expired[d]
  /\ expired' = [expired EXCEPT ![d] = TRUE]
  /\ UNCHANGED <<pc, saw, outcome, result, gates, breaker, task>>

\* The adapter puts the request on the wire.
Transmit(d) ==
  /\ \/ pc[d] = "desktop-submit" /\ via' = [via EXCEPT ![d] = "desktop"]
                                 /\ GoTo(d, "desktop-reply")
     \/ pc[d] = "local-submit" /\ via' = [via EXCEPT ![d] = "app-server"]
                               /\ GoTo(d, "local-reply")
  /\ fate' = [fate EXCEPT ![d] = "flying"]
  /\ copies' = [copies EXCEPT ![d] = @ + 1]
  /\ UNCHANGED <<expired, saw, outcome, result, gates, breaker, running>>

\* The request takes effect.  The app-server shows its own turns at once; a
\* turn of Desktop's owner reaches the canonical history later.
Land(d) ==
  /\ fate[d] = "flying"
  /\ fate' = [fate EXCEPT ![d] = IF via[d] = "desktop" THEN "landed" ELSE "shown"]
  /\ running' = [running EXCEPT ![d] = Mode[d] = "queue"]
  /\ UNCHANGED <<fiber, gates, breaker, via, copies>>

\* It is refused, or lost with its connection.
Refuse(d) ==
  /\ fate[d] = "flying"
  /\ fate' = [fate EXCEPT ![d] = "none"]
  /\ via' = [via EXCEPT ![d] = "none"]
  /\ copies' = [copies EXCEPT ![d] = @ - 1]
  /\ UNCHANGED <<fiber, gates, breaker, running>>

Publish(d) ==
  /\ fate[d] = "landed"
  /\ fate' = [fate EXCEPT ![d] = "shown"]
  /\ UNCHANGED <<fiber, gates, breaker, via, copies, running>>

EndTurn(d) ==
  /\ running[d]
  /\ running' = [running EXCEPT ![d] = FALSE]
  /\ UNCHANGED <<fiber, gates, breaker, fate, via, copies>>

-----------------------------------------------------------------------------
\* Steps the delivery's own fiber, or a timer it set, will take.
Progress(d) ==
  \/ CheckDeadline(d) \/ AwaitFails(d) \/ JoinGate(d) \/ TakePermit(d)
  \/ ReleasePermit(d) \/ LeaveGate(d) \/ InspectIdle(d) \/ CheckBreaker(d)
  \/ DesktopNotReady(d) \/ DesktopReply(d) \/ Decide(d) \/ LocalCheck(d)
  \/ LocalReply(d) \/ ReconcileFails(d)

Step(d) ==
  \/ Progress(d)
  \/ Deliver(d) \/ ObserveTask(d) \/ DesktopReady(d) \/ DesktopFollowed(d)
  \/ ReconcileMatched(d)
  \/ Expire(d) \/ Transmit(d) \/ Land(d) \/ Refuse(d) \/ Publish(d) \/ EndTurn(d)

\* Every delivery that arrived has answered and the process stays up.
Quiescent == (\A d \in Deliveries : pc[d] \in {"new", "done"}) /\ UNCHANGED vars

Next == (\E d \in Deliveries : Step(d)) \/ Quiescent

Spec == Init /\ [][Next]_vars

\* Fibers are scheduled and timers fire; nothing is assumed of the tasks.
FairSpec == Spec /\ \A d \in Deliveries : WF_vars(Progress(d)) /\ WF_vars(Expire(d))
-----------------------------------------------------------------------------
(* Properties *)

TypeOK ==
  /\ pc \in [Deliveries -> PCs]
  /\ expired \in [Deliveries -> BOOLEAN]
  /\ saw \in [Deliveries -> BOOLEAN]
  /\ outcome \in [Deliveries -> Outcomes]
  /\ result \in [Deliveries -> Results]
  /\ gateOf \in [Threads -> Deliveries \cup {NoOne}]
  /\ users \in [Deliveries -> Int]
  /\ holder \in [Deliveries -> Deliveries \cup {NoOne}]
  /\ gate \in [Deliveries -> Deliveries \cup {NoOne}]
  /\ breaker \in [Threads -> Deliveries \cup {NoOne}]
  /\ fate \in [Deliveries -> {"none", "flying", "landed", "shown"}]
  /\ via \in [Deliveries -> Routes \cup {"none"}]
  /\ copies \in [Deliveries -> Int]
  /\ running \in [Deliveries -> BOOLEAN]

\* A message never starts, or may still start, work twice: over both routes,
\* every fallback and every lap of the idle loop, at most one request of a
\* delivery is in the task or on its way there.
AtMostOnce == \A d \in Deliveries : copies[d] <= 1

\* What a delivery reports is what happened.  Confirmed tags name the route
\* that wrote, also when the canonical plane found the turn; Unavailable,
\* Rejected and a return to the idle loop leave nothing that can take effect.
TruthfulResult ==
  \A d \in Deliveries :
    /\ result[d].tag \in {"Confirmed", "Reconciled"} =>
         fate[d] \in {"landed", "shown"} /\ via[d] = result[d].route
    /\ result[d].tag \in {"Unavailable", "Rejected", "RetryIdle", "RetryActivity"} =>
         copies[d] = 0

\* At most one delivery per task is between taking and releasing the permit,
\* although the gate object is made and deleted while others come and go.
PermitExclusion ==
  \A d, e \in Deliveries :
    d # e /\ ThreadOf[d] = ThreadOf[e] /\ pc[d] \in MutationPCs => pc[e] \notin MutationPCs

\* The pool holds a task's gate exactly while a delivery uses it: no gate
\* leaks, and none is dropped under a waiter.
GatesReturned ==
  \A t \in Threads :
    gateOf[t] # NoOne <=> \E d \in Deliveries : ThreadOf[d] = t /\ pc[d] \in GatedPCs

\* A Desktop write that was never resolved.
Unresolved(d) ==
  result[d] \in {Result("PendingReconciliation", "desktop"), Result("Ambiguous", "desktop")}

\* While such a write stands, no other delivery to the task is anywhere in
\* its Desktop attempt, even one that was waiting when the write became
\* ambiguous or one that runs after the answer was given.
DesktopQuarantine ==
  \A d, e \in Deliveries :
    d # e /\ ThreadOf[d] = ThreadOf[e] /\ Unresolved(d) =>
      pc[e] \notin {"probe", "connect", "follow", "desktop-submit", "desktop-reply"}

ClearedByOwner ==
  \A t \in Threads : breaker[t] # NoOne /\ breaker'[t] # breaker[t] =>
    /\ breaker'[t] = NoOne
    /\ result[breaker[t]].tag # "Reconciled"
    /\ result'[breaker[t]].tag = "Reconciled"

\* A breaker is only ever cleared, and only by the delivery that set it, when
\* that delivery is found in the canonical history.
BreakerClearedByOwner == [][ClearedByOwner]_vars

\* A turn the app-server confirmed in its reply is still in progress.
ConfirmedRunning(e) == running[e] /\ result[e] = Result("Confirmed", "app-server")

StartsAlone ==
  \A d, e \in Deliveries :
    d # e /\ ThreadOf[d] = ThreadOf[e] /\ Mode[d] = "queue" /\ Mode[e] = "queue" =>
      (copies'[d] > copies[d] => ~ConfirmedRunning(e))

\* A queue message is not written while a turn the app-server confirmed for
\* an earlier queue message of the same task is still in progress.
NoOverlap == [][StartsAlone]_vars

\* Every delivery answers: the idle loop, the gate and reconciliation all end.
Termination == \A d \in Deliveries : pc[d] # "new" ~> pc[d] = "done"

-----------------------------------------------------------------------------
(* What a caller is promised, see DeliveryPromise. *)

EffectOf(f) == CASE f = "none" -> "none" [] f = "flying" -> "possible" [] OTHER -> "done"
VerdictOf(r) ==
  CASE r.tag \in {"none", "RetryIdle", "RetryActivity"} -> "open"
    [] r.tag = "PendingReconciliation" -> "doubtful"
    [] r.tag \in {"Confirmed", "Reconciled"} -> r.route
    [] OTHER -> r.tag

Promise == INSTANCE DeliveryPromise WITH
  verdict <- [d \in Deliveries |-> VerdictOf(result[d])],
  effect  <- [d \in Deliveries |-> EffectOf(fate[d])],
  route   <- via

\* The coordinator keeps the promise.
KeepsPromise == Promise!Spec
=============================================================================

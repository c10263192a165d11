--------------------------- MODULE DeliveryPromise ---------------------------
(***************************************************************************)
(* What a delivery promises its caller, whatever the coordinator does      *)
(* inside: one request at a time while the verdict is open, none once it   *)
(* is in doubt or given, and a verdict that agrees with the task.          *)
(***************************************************************************)
CONSTANTS Deliveries

VARIABLES verdict,  \* "open", "doubtful", the route that wrote, or a refusal
          effect,   \* of the last request: "none", "possible" or "done"
          route     \* the route of that request
promiseVars == <<verdict, effect, route>>

Routes == {"desktop", "app-server"}

Init ==
  /\ verdict = [d \in Deliveries |-> "open"]
  /\ effect = [d \in Deliveries |-> "none"]
  /\ route = [d \in Deliveries |-> "none"]

\* A request goes out, only while no other one of the delivery can count.
Write(d) ==
  /\ verdict[d] = "open" /\ effect[d] = "none"
  /\ \E r \in Routes : route' = [route EXCEPT ![d] = r]
  /\ effect' = [effect EXCEPT ![d] = "possible"]
  /\ UNCHANGED verdict

\* A request that went out takes effect or is lost, at any later time.
Settle(d) ==
  /\ effect[d] = "possible"
  /\ \/ effect' = [effect EXCEPT ![d] = "done"] /\ UNCHANGED route
     \/ /\ effect' = [effect EXCEPT ![d] = "none"]
        /\ route' = [route EXCEPT ![d] = "none"]
  /\ UNCHANGED verdict

\* The route cannot tell: no further request goes out.
Doubt(d) ==
  /\ verdict[d] = "open"
  /\ verdict' = [verdict EXCEPT ![d] = "doubtful"]
  /\ UNCHANGED <<effect, route>>

\* A confirmation names the route that wrote and the work is in the task.
Confirm(d) ==
  /\ verdict[d] \in {"open", "doubtful"} /\ effect[d] = "done"
  /\ verdict' = [verdict EXCEPT ![d] = route[d]]
  /\ UNCHANGED <<effect, route>>

\* A refusal: nothing was written and nothing will be.
Refuse(d) ==
  /\ verdict[d] = "open" /\ effect[d] = "none"
  /\ \E v \in {"Unavailable", "Rejected"} : verdict' = [verdict EXCEPT ![d] = v]
  /\ UNCHANGED <<effect, route>>

\* Doubt that no observation resolved stays visible.
GiveUp(d) ==
  /\ verdict[d] = "doubtful"
  /\ verdict' = [verdict EXCEPT ![d] = "Ambiguous"]
  /\ UNCHANGED <<effect, route>>

Next == \E d \in Deliveries :
  Write(d) \/ Settle(d) \/ Doubt(d) \/ Confirm(d) \/ Refuse(d) \/ GiveUp(d)

Spec == Init /\ [][Next]_promiseVars
=============================================================================

------------------------ MODULE MCDeliveryCoordinator ------------------------
(* Small instances of DeliveryCoordinator for TLC. *)
EXTENDS DeliveryCoordinator, TLC

CONSTANTS q1, q2, s1, s2, t1

\* Every delivery goes to one task; q1 and q2 queue, s1 and s2 steer.
OneThread == [d \in Deliveries |-> t1]
Modes == [d \in Deliveries |-> IF d \in {q1, q2} THEN "queue" ELSE "steer"]

\* Some pair of the deliveries arrives; the other pairs are these renamed.
Pairs == {{q1, q2}, {q1, s1}, {s1, s2}}
PairArrives == \E p \in Pairs : {d \in Deliveries : pc'[d] # "new"} \subseteq p
PairsSpec ==
  /\ Init /\ [][Next /\ PairArrives]_vars
  /\ \A d \in Deliveries : WF_vars(Progress(d)) /\ WF_vars(Expire(d))
=============================================================================

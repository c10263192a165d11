------------------------------- MODULE MCDaemon -------------------------------
(* Small instances of Daemon for TLC. *)
EXTENDS Daemon, TLC

CONSTANTS a1, a2, b1, s1, s2, ta, tb

\* a1 and a2 queue for one task, b1 for another; s1 and s2 steer.
Tasks == [j \in Jobs |-> IF j = b1 THEN tb ELSE ta]
Modes == [j \in Jobs |-> IF j \in {s1, s2} THEN "steer" ELSE "queue"]

\* Some pair of the requests comes.
Pairs == {{a1, a2}, {a1, b1}, {a1, s1}, {s1, s2}}
PairComes == \E p \in Pairs : {j \in Jobs : conn'[j] # "none"} \subseteq p
PairsSpec == DaemonInit /\ [][DaemonNext /\ PairComes]_daemonVars /\ Fairness
=============================================================================

--------------------------- MODULE MCDesktopSession ---------------------------
(* Small instances of DesktopSession for TLC. *)
EXTENDS DesktopSession, TLC

CONSTANTS t1

\* Every call is about one task.
OneThread == [c \in Calls |-> t1]

CallSymmetry == Permutations(Calls)

\* At most one of the calls in progress is not a mutation.
MostMutate == Cardinality({c \in Calls : call'[c].op # "mutate"}) <= 1
MixedSpec == Init /\ [][Next /\ MostMutate]_vars
=============================================================================

------------------------- MODULE MCLocalCodexBinding -------------------------
(* Small instances of LocalCodexBinding for TLC. *)
EXTENDS LocalCodexBinding, TLC

\* One of the calls begins, any one.
OneBegins == Cardinality({c \in Calls : pc'[c] # "new"}) <= 1

\* A query is not answered: what sets it apart is how it waits and is interrupted.
NoAnswers == \A q \in Queries : answer'[q] = "empty" /\ flight'[q] # "refused"

OneCallSpec == BindingInit /\ [][BindingNext /\ OneBegins /\ NoAnswers]_bindingVars /\ Fairness
=============================================================================

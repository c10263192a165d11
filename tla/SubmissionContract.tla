-------------------------- MODULE SubmissionContract --------------------------
(***************************************************************************)
(* What the delivery coordinator relies on in an adapter that submits a    *)
(* command: a command is written at most once and never after the answer,  *)
(* Confirmed means that it took effect, and NotSubmitted and Rejected mean *)
(* that it did not and cannot any more.  Ambiguous promises nothing.       *)
(***************************************************************************)
CONSTANTS Commands

VARIABLES effect, \* "none", "possible" once written, then "done" or "gone"
          answer  \* the RouteSubmissionOutcome, or "none"
contractVars == <<effect, answer>>

Init ==
  /\ effect = [c \in Commands |-> "none"]
  /\ answer = [c \in Commands |-> "none"]

Write(c) ==
  /\ effect[c] = "none" /\ answer[c] = "none"
  /\ effect' = [effect EXCEPT ![c] = "possible"]
  /\ UNCHANGED answer

\* A written command takes effect or is lost, before or after the answer.
Settle(c) ==
  /\ effect[c] = "possible"
  /\ \E e \in {"done", "gone"} : effect' = [effect EXCEPT ![c] = e]
  /\ UNCHANGED answer

Allowed(a, e) ==
  /\ a = "Confirmed" => e = "done"
  /\ a \in {"NotSubmitted", "Rejected"} => e \in {"none", "gone"}

Answer(c) ==
  /\ answer[c] = "none"
  /\ \E a \in {"Confirmed", "Rejected", "NotSubmitted", "Ambiguous"} :
       Allowed(a, effect[c]) /\ answer' = [answer EXCEPT ![c] = a]
  /\ UNCHANGED effect

Next == \E c \in Commands : Write(c) \/ Settle(c) \/ Answer(c)

Spec == Init /\ [][Next]_contractVars
=============================================================================

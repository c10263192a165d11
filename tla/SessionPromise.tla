---------------------------- MODULE SessionPromise ----------------------------
(***************************************************************************)
(* What a Desktop session promises those who call it: a request is written *)
(* once, on a connection the call was given, and never after the call has  *)
(* its outcome; an answer comes on the connection it was written on; "not  *)
(* written" is said only of what was not, and "unknown" only of what was.  *)
(***************************************************************************)
EXTENDS SessionLinks

CONSTANTS Calls

VARIABLES on,     \* the connection a call's request is written on, or 0
          outcome \* of the call, or "none"

Init ==
  /\ LinksInit
  /\ on = [c \in Calls |-> 0]
  /\ outcome = [c \in Calls |-> "none"]

Unwritten(c) == outcome[c] = "none" /\ on[c] = 0

Write(c) == Unwritten(c) /\ on'[c] \in Usable /\ outcome'[c] = "none"

Over(c, answers) == on'[c] = 0 /\ outcome'[c] \in answers

NotWritten(c) == Unwritten(c) /\ Over(c, {"notWritten"})

\* A call that only follows a task has no request to be answered.
Followed(c) == Unwritten(c) /\ Over(c, {"followed", "unfollowed"})

Answered(c) == on[c] \in up /\ Over(c, {"accepted", "rejected", "malformed"})

Unanswered(c) == on[c] # 0 /\ Over(c, {"unknown"})

\* An event of a connection may end any number of calls at once.
Step(c) ==
  \/ UNCHANGED <<on[c], outcome[c]>>
  \/ Write(c) \/ NotWritten(c) \/ Followed(c) \/ Answered(c) \/ Unanswered(c)

Next ==
  /\ UNCHANGED linkVars \/ LinksNext
  /\ on' \in [Calls -> Int] /\ DOMAIN outcome' = Calls
  /\ \A c \in Calls : Step(c)

Spec == Init /\ [][Next]_<<linkVars, on, outcome>>
=============================================================================

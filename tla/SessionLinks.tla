----------------------------- MODULE SessionLinks -----------------------------
(***************************************************************************)
(* The connections of a Desktop session as the attachment above it is told *)
(* of them.  A connection is known by its generation, the number of        *)
(* announcements (Reconnecting) up to its own.  The session uses one, the  *)
(* adopted one; while another restores its follows, and also afterwards,   *)
(* calls that were given an earlier one may still be at work on it.        *)
(***************************************************************************)
EXTENDS Integers

VARIABLES generation, \* of the connection announced last
          up,         \* the announced connections that are not lost
          adopted     \* the one the session uses, or 0
linkVars == <<generation, up, adopted>>

LinksInit == generation = 0 /\ up = {} /\ adopted = 0

\* The connection announced last is not used yet: its follows are restored.
Restoring == adopted # generation /\ generation \in up

\* Connections a call may have been given.
Usable == {g \in up : g = generation => adopted = generation}

\* The first connection is used at once.
Connect ==
  /\ generation = 0
  /\ generation' = 1 /\ up' = {1} /\ adopted' = 1

Lose ==
  /\ up' \in (SUBSET up) \ {up}
  /\ UNCHANGED <<generation, adopted>>

\* One connection at a time is restored, but what it replaces may be up.
Reconnecting ==
  /\ adopted # 0 /\ ~Restoring
  /\ generation' > generation
  /\ up' = up \cup {generation'}
  /\ UNCHANGED adopted

\* It may have been lost again, which its close event tells later.
Reconnected ==
  /\ adopted # 0 /\ adopted # generation
  /\ adopted' = generation
  /\ UNCHANGED <<generation, up>>

\* The session ends the connection it uses and the one being restored.
Close ==
  /\ up' = up \ {adopted, generation}
  /\ adopted' = 0
  /\ UNCHANGED generation

LinksNext == Connect \/ Lose \/ Reconnecting \/ Reconnected \/ Close
=============================================================================

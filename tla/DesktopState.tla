---------------------------- MODULE DesktopState ----------------------------
(***************************************************************************)
(* What one attachment knows of a task that Desktop owns: a view rebuilt   *)
(* from snapshots and kept up to date by patches.  The owner's             *)
(* conversation is a set of entities under keys, which may be named before *)
(* they have a turn and renamed later; a view forgets the keys' contents   *)
(* and keeps turns and delivery identities.  Operators only: who applies   *)
(* what, and when, is in DesktopAttachment.                                *)
(***************************************************************************)
EXTENDS Naturals

CONSTANTS Keys,     \* the entities of the conversation
          Turns,    \* turn identities
          Commands, \* delivery identities: a command's clientUserMessageId
          NoTurn

ASSUME StateAssumption == NoTurn \notin Turns

MaybeTurn == Turns \cup {NoTurn}
Null == 0 \* a revision that is missing or not valid

-----------------------------------------------------------------------------
(* The owner's conversation, and the one change that leads to a revision   *)

Entity == [turn: MaybeTurn, status: {"absent", "inProgress", "ended"},
           ids: SUBSET Commands]
Absent == [turn |-> NoTurn, status |-> "absent", ids |-> {}]
Contents == [Keys -> Entity]

Change == [kind: {"upsert", "bind", "status", "remove", "message"},
           key: Keys, turn: MaybeTurn, ids: SUBSET Commands]

Edited(content, ch) ==
  LET e == content[ch.key]
  IN [content EXCEPT ![ch.key] =
        CASE ch.kind = "upsert" -> [turn |-> ch.turn, status |-> "inProgress", ids |-> ch.ids]
          [] ch.kind = "bind" -> [e EXCEPT !.turn = ch.turn]
          [] ch.kind = "status" -> [e EXCEPT !.status = "ended"]
          [] ch.kind = "remove" -> Absent
          [] ch.kind = "message" -> [e EXCEPT !.ids = e.ids \cup ch.ids]]

-----------------------------------------------------------------------------
(* The view *)

View == [connection: {"disconnected", "connecting", "connected"},
         attachment: {"detached", "following", "synchronized"},
         generation: Nat,
         revision: Nat,
         keyTurn: [Keys -> MaybeTurn],                         \* entityTurns
         status: [Turns -> {"none", "inProgress", "ended"}],   \* turns
         ids: SUBSET Commands,                                 \* deliveryIds
         idTurn: [Commands -> MaybeTurn]]                      \* deliveryTurns

NewView ==
  [connection |-> "disconnected", attachment |-> "detached",
   generation |-> 0, revision |-> Null,
   keyTurn |-> [k \in Keys |-> NoTurn], status |-> [t \in Turns |-> "none"],
   ids |-> {}, idTurn |-> [d \in Commands |-> NoTurn]]

(* Faulty variants, each in the place of one definition below *)

IgnoresTheBase(v, m) == m.revision > v.revision  \* patches on a revision it skipped

Ready(v) == v.attachment = "synchronized"
Observed(v) == {t \in Turns : v.status[t] # "none"}
Active(v) == {t \in Turns : v.status[t] = "inProgress"}
HasDelivery(v, d) == d \in v.ids
HasDeliveryOn(v, d, t) == HasDelivery(v, d) /\ v.idTurn[d] = t

BeginConnecting(v) == [v EXCEPT !.connection = "connecting", !.attachment = "detached"]
BeginFollowing(v, g) ==
  [NewView EXCEPT !.connection = "connected", !.attachment = "following", !.generation = g]
BeginResync(v) == [v EXCEPT !.attachment = "following"]
Disconnect(v) == [v EXCEPT !.connection = "disconnected", !.attachment = "detached"]

-----------------------------------------------------------------------------
(* Patches *)

\* A turn that no key names any more goes, and with it where deliveries were seen.
Forget(v, kt, t) ==
  IF t = NoTurn \/ \E k \in Keys : kt[k] = t THEN [v EXCEPT !.keyTurn = kt]
  ELSE [v EXCEPT !.keyTurn = kt,
                 !.status = [v.status EXCEPT ![t] = "none"],
                 !.idTurn = [d \in Commands |-> IF v.idTurn[d] = t THEN NoTurn ELSE v.idTurn[d]]]

BindTurn(v, k, t, s) ==
  LET w == Forget(v, [v.keyTurn EXCEPT ![k] = t], v.keyTurn[k])
  IN [w EXCEPT !.status = [w.status EXCEPT ![t] = s]]

\* readDelta and applyDelta: an entity without a turn and an added message are
\* no delta, and a turn bound before it was seen counts as in progress.
WithDelta(v, ch) ==
  LET k == ch.key
      t == v.keyTurn[k]
  IN CASE ch.kind = "upsert" /\ ch.turn # NoTurn -> BindTurn(v, k, ch.turn, "inProgress")
       [] ch.kind = "bind" -> BindTurn(v, k, ch.turn,
                                IF v.status[ch.turn] = "none" THEN "inProgress"
                                ELSE v.status[ch.turn])
       [] ch.kind = "status" /\ t # NoTurn -> [v EXCEPT !.status = [v.status EXCEPT ![t] = "ended"]]
       [] ch.kind = "remove" -> Forget(v, [v.keyTurn EXCEPT ![k] = NoTurn], t)
       [] OTHER -> v

\* deliveryIds are kept for good; a binding needs the key to have a turn.
WithDeliveries(v, ch) ==
  [v EXCEPT !.ids = v.ids \cup ch.ids,
            !.idTurn = [d \in Commands |->
               IF d \in ch.ids /\ v.keyTurn[ch.key] # NoTurn THEN v.keyTurn[ch.key]
               ELSE v.idTurn[d]]]

Patched(v, m) ==
  [WithDeliveries(WithDelta(v, m.change), m.change) EXCEPT !.revision = m.revision]

-----------------------------------------------------------------------------
(* Snapshots *)

KeyOf(content, t) == CHOOSE k \in Keys : content[k].turn = t
Holds(content, d) == {k \in Keys : d \in content[k].ids}

\* Bound to the turn of the entity that holds it, if that entity has one.
SeenOn(content, d) ==
  IF \E k \in Holds(content, d) : content[k].turn # NoTurn
  THEN content[CHOOSE k \in Holds(content, d) : content[k].turn # NoTurn].turn
  ELSE NoTurn

Rebuilt(v, m) ==
  [v EXCEPT !.revision = m.revision, !.attachment = "synchronized",
            !.keyTurn = [k \in Keys |-> m.content[k].turn],
            !.status = [t \in Turns |->
               IF \E k \in Keys : m.content[k].turn = t
               THEN m.content[KeyOf(m.content, t)].status ELSE "none"],
            !.ids = UNION {m.content[k].ids : k \in Keys},
            !.idTurn = [d \in Commands |-> SeenOn(m.content, d)]]

-----------------------------------------------------------------------------
(* apply *)

OldSnapshot(v, m) ==
  v.revision # Null /\ (m.revision < v.revision \/ (Ready(v) /\ m.revision = v.revision))

OnBase(v, m) == m.base = v.revision /\ m.revision > m.base

\* What becomes of a change: "applied", "ignored" or "resync".
Verdict(v, m, g) ==
  IF g # v.generation \/ v.connection # "connected" THEN "ignored"
  ELSE IF m.tag = "Snapshot"
  THEN IF m.revision = Null THEN "resync"
       ELSE IF OldSnapshot(v, m) THEN "ignored" ELSE "applied"
  ELSE IF ~Ready(v) \/ v.revision = Null \/ m.base = Null \/ m.revision = Null THEN "resync"
  ELSE IF m.revision <= v.revision THEN "ignored"
  ELSE IF OnBase(v, m) THEN "applied" ELSE "resync"

Apply(v, m, g) ==
  CASE Verdict(v, m, g) = "ignored" -> v
    [] Verdict(v, m, g) = "resync" -> BeginResync(v)
    [] Verdict(v, m, g) = "applied" /\ m.tag = "Snapshot" -> Rebuilt(v, m)
    [] Verdict(v, m, g) = "applied" /\ m.tag = "Patches" -> Patched(v, m)
=============================================================================

----------------------- MODULE DesktopAttachmentProofs -----------------------
(***************************************************************************)
(* Proofs about DesktopAttachment: types, that a synchronized view is the  *)
(* owner's conversation at its revision, and that the attachment keeps the *)
(* submission contract.                                                    *)
(***************************************************************************)
EXTENDS DesktopAttachment, TLAPS

\* A conversation Desktop can have: a turn and a delivery have one place each,
\* and what is not there is blank.
Sound(c) ==
  /\ c \in Contents
  /\ \A j, k \in Keys : c[j].turn = c[k].turn /\ c[j].turn # NoTurn => j = k
  /\ \A j, k \in Keys : c[j].ids \cap c[k].ids # {} => j = k
  /\ \A k \in Keys : c[k].status = "absent" => c[k] = Absent
  /\ \A k \in Keys : c[k].status = "ended" => c[k].turn # NoTurn

NewTurn(c, t) == \A k \in Keys : c[k].turn # t
NewIds(c, ids) == \A k \in Keys : c[k].ids \cap ids = {}

\* The changes Desktop makes to it.
Legal(c, ch) ==
  /\ ch \in Change
  /\ NewIds(c, ch.ids)
  /\ \/ /\ ch.kind = "upsert" /\ c[ch.key].status = "absent"
        /\ ch.turn # NoTurn => NewTurn(c, ch.turn)
     \/ /\ ch.kind = "bind" /\ c[ch.key].status = "inProgress" /\ ch.ids = {}
        /\ ch.turn \in Turns /\ NewTurn(c, ch.turn)
     \/ /\ ch.kind = "status" /\ c[ch.key].turn # NoTurn /\ ch.ids = {}
     \/ ch.kind = "remove" /\ ch.ids = {}
     \/ ch.kind = "message" /\ c[ch.key].turn # NoTurn

-----------------------------------------------------------------------------
(* Conversations and views *)

\* The first conversation has nothing in it.
LEMMA BlankIsSound == Sound([k \in Keys |-> Absent])
BY StateAssumption DEF Sound, Contents, Entity, Absent, MaybeTurn

\* An edit replaces the entity under its key.
LEMMA EditedElsewhere ==
  ASSUME NEW c \in Contents, NEW ch \in Change
  PROVE  \A k \in Keys : k # ch.key => Edited(c, ch)[k] = c[k]
BY DEF Edited, Contents, Change

LEMMA EditedUpsert ==
  ASSUME NEW c \in Contents, NEW ch \in Change, ch.kind = "upsert"
  PROVE  Edited(c, ch)[ch.key] = [turn |-> ch.turn, status |-> "inProgress", ids |-> ch.ids]
BY DEF Edited, Contents, Change

LEMMA EditedBind ==
  ASSUME NEW c \in Contents, NEW ch \in Change, ch.kind = "bind"
  PROVE  Edited(c, ch)[ch.key] = [c[ch.key] EXCEPT !.turn = ch.turn]
BY DEF Edited, Contents, Change

LEMMA EditedStatus ==
  ASSUME NEW c \in Contents, NEW ch \in Change, ch.kind = "status"
  PROVE  Edited(c, ch)[ch.key] = [c[ch.key] EXCEPT !.status = "ended"]
BY DEF Edited, Contents, Change

LEMMA EditedRemove ==
  ASSUME NEW c \in Contents, NEW ch \in Change, ch.kind = "remove"
  PROVE  Edited(c, ch)[ch.key] = Absent
BY DEF Edited, Contents, Change

LEMMA EditedMessage ==
  ASSUME NEW c \in Contents, NEW ch \in Change, ch.kind = "message"
  PROVE  Edited(c, ch)[ch.key] = [c[ch.key] EXCEPT !.ids = c[ch.key].ids \cup ch.ids]
BY DEF Edited, Contents, Change

LEMMA EditedTyped ==
  ASSUME NEW c \in Contents, NEW ch \in Change
  PROVE  Edited(c, ch) \in Contents
<1>. DEFINE o == c[ch.key]
            n == Edited(c, ch)[ch.key]
<1>1. ch.key \in Keys /\ ch.turn \in MaybeTurn /\ ch.ids \in SUBSET Commands
      /\ ch.kind \in {"upsert", "bind", "status", "remove", "message"}
  BY DEF Change
<1>2. o \in Entity /\ Absent \in Entity
  BY <1>1, StateAssumption DEF Contents, Entity, Absent, MaybeTurn
<1>3. n \in Entity
  <2>1. CASE ch.kind = "upsert"
    <3>1. n = [turn |-> ch.turn, status |-> "inProgress", ids |-> ch.ids]
      BY <2>1, EditedUpsert
    <3>. QED BY <1>1, <3>1 DEF Entity
  <2>2. CASE ch.kind = "bind"
    <3>1. n = [o EXCEPT !.turn = ch.turn]
      BY <2>2, EditedBind
    <3>. HIDE DEF o, n
    <3>. QED BY <1>1, <1>2, <3>1 DEF Entity
  <2>3. CASE ch.kind = "status"
    <3>1. n = [o EXCEPT !.status = "ended"]
      BY <2>3, EditedStatus
    <3>. HIDE DEF o, n
    <3>. QED BY <1>1, <1>2, <3>1 DEF Entity
  <2>4. CASE ch.kind = "remove"
    BY <1>2, <2>4, EditedRemove
  <2>5. CASE ch.kind = "message"
    <3>1. n = [o EXCEPT !.ids = o.ids \cup ch.ids]
      BY <2>5, EditedMessage
    <3>. HIDE DEF o, n
    <3>. QED BY <1>1, <1>2, <3>1 DEF Entity
  <2>. QED BY <1>1, <2>1, <2>2, <2>3, <2>4, <2>5
<1>4. Edited(c, ch) = [c EXCEPT ![ch.key] = n]
  BY <1>1 DEF Edited, Contents
<1>. HIDE DEF n
<1>. QED BY <1>1, <1>3, <1>4 DEF Contents

\* An edit adds the identities it names, and no other.
LEMMA EditedIds ==
  ASSUME NEW c, NEW ch, Sound(c), Legal(c, ch)
  PROVE  /\ \A k \in Keys : Edited(c, ch)[k].ids \subseteq c[k].ids \cup ch.ids
         /\ ch.ids \subseteq Edited(c, ch)[ch.key].ids
<1>. DEFINE e == Edited(c, ch)
            o == c[ch.key]
            n == e[ch.key]
<1>1. c \in Contents /\ ch \in Change /\ ch.key \in Keys /\ o \in Entity
  BY DEF Sound, Legal, Change, Contents
<1>2. \A k \in Keys : k # ch.key => e[k] = c[k]
  BY <1>1, EditedElsewhere
<1>3. n.ids \subseteq o.ids \cup ch.ids /\ ch.ids \subseteq n.ids
  <2>1. CASE ch.kind = "upsert"
    <3>1. n = [turn |-> ch.turn, status |-> "inProgress", ids |-> ch.ids]
      BY <1>1, <2>1, EditedUpsert
    <3>. QED BY <3>1
  <2>2. CASE ch.kind \in {"bind", "status"} /\ ch.ids = {}
    <3>1. n = [o EXCEPT !.turn = ch.turn] \/ n = [o EXCEPT !.status = "ended"]
      BY <1>1, <2>2, EditedBind, EditedStatus
    <3>. HIDE DEF n, o
    <3>. QED BY <1>1, <2>2, <3>1 DEF Entity
  <2>3. CASE ch.kind = "remove" /\ ch.ids = {}
    <3>1. n = Absent
      BY <1>1, <2>3, EditedRemove
    <3>. HIDE DEF n, o
    <3>. QED BY <2>3, <3>1 DEF Absent
  <2>4. CASE ch.kind = "message"
    <3>1. n = [o EXCEPT !.ids = o.ids \cup ch.ids]
      BY <1>1, <2>4, EditedMessage
    <3>. HIDE DEF n, o
    <3>. QED BY <1>1, <3>1 DEF Entity
  <2>. QED BY <2>1, <2>2, <2>3, <2>4 DEF Legal
<1>. HIDE DEF e
<1>. QED BY <1>2, <1>3 DEF e

\* A legal edit of a conversation Desktop can have leaves one.
LEMMA EditedIsSound ==
  ASSUME NEW c, NEW ch, Sound(c), Legal(c, ch)
  PROVE  Sound(Edited(c, ch))
<1>. DEFINE e == Edited(c, ch)
            o == c[ch.key]
            n == e[ch.key]
<1>1. c \in Contents /\ ch \in Change /\ ch.key \in Keys
  BY DEF Sound, Legal, Change
<1>2. e \in Contents /\ \A k \in Keys : k # ch.key => e[k] = c[k]
  BY <1>1, EditedTyped, EditedElsewhere
<1>3. \A k \in Keys : c[k] \in Entity /\ e[k] \in Entity
  BY <1>1, <1>2 DEF Contents
<1>4. /\ n.turn # NoTurn => n.turn = o.turn \/ NewTurn(c, n.turn)
      /\ n.ids \subseteq o.ids \cup ch.ids
      /\ n.status = "absent" => n = Absent
      /\ n.status = "ended" => n.turn # NoTurn
  <2>1. CASE ch.kind = "upsert"
    <3>1. n = [turn |-> ch.turn, status |-> "inProgress", ids |-> ch.ids]
      BY <1>1, <2>1, EditedUpsert
    <3>. QED BY <1>1, <2>1, <3>1 DEF Legal
  <2>2. CASE ch.kind = "bind"
    <3>1. n = [o EXCEPT !.turn = ch.turn]
      BY <1>1, <2>2, EditedBind
    <3>2. o \in Entity /\ o.status = "inProgress" /\ NewTurn(c, ch.turn)
      BY <1>3, <1>1, <2>2 DEF Legal
    <3>. HIDE DEF n, o
    <3>. QED BY <3>1, <3>2 DEF Entity
  <2>3. CASE ch.kind = "status"
    <3>1. n = [o EXCEPT !.status = "ended"]
      BY <1>1, <2>3, EditedStatus
    <3>2. o \in Entity /\ o.turn # NoTurn
      BY <1>3, <1>1, <2>3 DEF Legal
    <3>. HIDE DEF n, o
    <3>. QED BY <3>1, <3>2 DEF Entity
  <2>4. CASE ch.kind = "remove"
    <3>1. n = Absent
      BY <1>1, <2>4, EditedRemove
    <3>. HIDE DEF n, o
    <3>. QED BY <3>1 DEF Absent
  <2>5. CASE ch.kind = "message"
    <3>1. n = [o EXCEPT !.ids = o.ids \cup ch.ids]
      BY <1>1, <2>5, EditedMessage
    <3>2. o \in Entity /\ o.turn # NoTurn
      BY <1>3, <1>1, <2>5 DEF Legal
    <3>3. o.status # "absent"
      BY <1>1, <3>2 DEF Sound, Absent
    <3>. HIDE DEF n, o
    <3>. QED BY <3>1, <3>2, <3>3 DEF Entity
  <2>. QED BY <2>1, <2>2, <2>3, <2>4, <2>5 DEF Legal
<1>5. NewIds(c, ch.ids)
  BY DEF Legal
<1>. HIDE DEF e
<1>8. ASSUME NEW j \in Keys, NEW k \in Keys, e[j].turn = e[k].turn, e[j].turn # NoTurn
      PROVE  j = k
  BY <1>1, <1>2, <1>4, <1>8 DEF Sound, NewTurn
<1>9. ASSUME NEW j \in Keys, NEW k \in Keys, e[j].ids \cap e[k].ids # {}
      PROVE  j = k
  <2>1. \A i \in Keys : e[i].ids \subseteq c[i].ids \cup ch.ids /\ (i # ch.key => e[i].ids = c[i].ids)
    BY <1>2, <1>4
  <2>2. CASE c[j].ids \cap c[k].ids # {}
    BY <2>2 DEF Sound
  <2>3. CASE c[j].ids \cap c[k].ids = {} /\ j # k
    BY <1>5, <1>9, <2>1, <2>3 DEF NewIds
  <2>. QED BY <2>2, <2>3
<1>10. Sound(e)
  BY <1>2, <1>4, <1>8, <1>9, <1>1 DEF Sound
<1>. QED BY <1>10 DEF e

\* What the methods of a view that do not read a change return.
LEMMA ViewOps ==
  ASSUME NEW v \in View, NEW g \in Nat
  PROVE  /\ BeginConnecting(v) \in View /\ ~Ready(BeginConnecting(v))
         /\ BeginConnecting(v).ids = v.ids
         /\ BeginFollowing(v, g) \in View /\ ~Ready(BeginFollowing(v, g))
         /\ BeginFollowing(v, g).ids = {}
         /\ BeginResync(v) \in View /\ ~Ready(BeginResync(v)) /\ BeginResync(v).ids = v.ids
         /\ Disconnect(v) \in View /\ ~Ready(Disconnect(v)) /\ Disconnect(v).ids = v.ids
         /\ NewView \in View /\ ~Ready(NewView) /\ NewView.ids = {}
BY DEF View, NewView, BeginConnecting, BeginFollowing, BeginResync, Disconnect, Ready,
       Null, MaybeTurn

\* Forgetting a turn.
LEMMA ForgetView ==
  ASSUME NEW v \in View, NEW kt \in [Keys -> MaybeTurn], NEW t \in MaybeTurn
  PROVE  /\ Forget(v, kt, t) \in View
         /\ Forget(v, kt, t).keyTurn = kt
         /\ Forget(v, kt, t).ids = v.ids
BY DEF Forget, View, MaybeTurn

\* The view once a key has another turn, or none.
Rekeyed(v, k, t) == Forget(v, [v.keyTurn EXCEPT ![k] = t], v.keyTurn[k])

LEMMA RekeyedView ==
  ASSUME NEW v \in View, NEW k \in Keys, NEW t \in MaybeTurn
  PROVE  /\ Rekeyed(v, k, t) \in View /\ Rekeyed(v, k, t).ids = v.ids
         /\ Rekeyed(v, k, t).keyTurn[k] = t
         /\ \A j \in Keys : j # k => Rekeyed(v, k, t).keyTurn[j] = v.keyTurn[j]
<1>. DEFINE kt == [v.keyTurn EXCEPT ![k] = t]
            old == v.keyTurn[k]
            w == Rekeyed(v, k, t)
<1>1. kt \in [Keys -> MaybeTurn] /\ old \in MaybeTurn
  BY DEF View, MaybeTurn
<1>2. kt[k] = t /\ \A j \in Keys : j # k => kt[j] = v.keyTurn[j]
  BY DEF View
<1>3. w = Forget(v, kt, old)
  BY DEF Rekeyed
<1>. HIDE DEF kt, old, w
<1>4. w \in View /\ w.keyTurn = kt /\ w.ids = v.ids
  BY <1>1, <1>3, ForgetView
<1>5. w.keyTurn[k] = t /\ \A j \in Keys : j # k => w.keyTurn[j] = v.keyTurn[j]
  BY <1>2, <1>4
<1>. QED BY <1>4, <1>5 DEF w

\* Binding a key to a turn.
LEMMA BindView ==
  ASSUME NEW v \in View, NEW k \in Keys, NEW t \in Turns,
         NEW s \in {"none", "inProgress", "ended"}
  PROVE  /\ BindTurn(v, k, t, s) \in View
         /\ BindTurn(v, k, t, s).keyTurn[k] = t
         /\ \A j \in Keys : j # k => BindTurn(v, k, t, s).keyTurn[j] = v.keyTurn[j]
         /\ BindTurn(v, k, t, s).ids = v.ids
         /\ BindTurn(v, k, t, s).status[t] = s
         /\ \A u \in Turns : u # t =>
              BindTurn(v, k, t, s).status[u] = Rekeyed(v, k, t).status[u]
         /\ BindTurn(v, k, t, s).idTurn = Rekeyed(v, k, t).idTurn
<1>. DEFINE kt == [v.keyTurn EXCEPT ![k] = t]
            old == v.keyTurn[k]
            w == Forget(v, kt, old)
<1>1. kt \in [Keys -> MaybeTurn] /\ old \in MaybeTurn
  BY DEF View, MaybeTurn
<1>3. BindTurn(v, k, t, s) = [w EXCEPT !.status = [w.status EXCEPT ![t] = s]]
  BY DEF BindTurn
<1>. HIDE DEF kt, old
<1>2. w \in View /\ w.keyTurn = kt /\ w.ids = v.ids
  BY <1>1, ForgetView
<1>. HIDE DEF w
<1>4. /\ BindTurn(v, k, t, s) \in View
      /\ BindTurn(v, k, t, s).keyTurn = w.keyTurn
      /\ BindTurn(v, k, t, s).ids = w.ids
      /\ BindTurn(v, k, t, s).status = [w.status EXCEPT ![t] = s]
      /\ BindTurn(v, k, t, s).idTurn = w.idTurn
  BY <1>2, <1>3 DEF View
<1>5. v.keyTurn \in [Keys -> MaybeTurn] /\ w.status \in [Turns -> {"none", "inProgress", "ended"}]
  BY <1>2 DEF View
<1>6. /\ BindTurn(v, k, t, s) \in View
      /\ BindTurn(v, k, t, s).ids = v.ids
      /\ BindTurn(v, k, t, s).status[t] = s
      /\ \A u \in Turns : u # t => BindTurn(v, k, t, s).status[u] = w.status[u]
      /\ BindTurn(v, k, t, s).idTurn = w.idTurn
  BY <1>2, <1>4, <1>5
<1>7. /\ BindTurn(v, k, t, s).keyTurn[k] = t
      /\ \A j \in Keys : j # k => BindTurn(v, k, t, s).keyTurn[j] = v.keyTurn[j]
  BY <1>2, <1>4, <1>5 DEF kt
<1>. QED BY <1>6, <1>7 DEF w, kt, old, Rekeyed

-----------------------------------------------------------------------------
(* A view that mirrors a conversation *)

\* Mirrors, but for the identities that are no longer on a turn.
MirrorsTurns(v, c) ==
  /\ \A k \in Keys : v.keyTurn[k] = c[k].turn
  /\ \A k \in Keys : c[k].turn # NoTurn => v.status[c[k].turn] = c[k].status
  /\ \A t \in Observed(v) : \E k \in Keys : c[k].turn = t
  /\ \A d \in Commands : v.idTurn[d] # NoTurn =>
       \E k \in Keys : c[k].turn = v.idTurn[d] /\ d \in c[k].ids

\* A key is given another turn, or none: what the view keeps is of the others.
LEMMA ForgetMirrors ==
  ASSUME NEW v \in View, NEW c, Sound(c), MirrorsTurns(v, c), NEW k \in Keys,
         NEW t \in MaybeTurn, t # NoTurn => NewTurn(c, t)
  PROVE  /\ \A j \in Keys \ {k} : c[j].turn # NoTurn =>
              Rekeyed(v, k, t).status[c[j].turn] = c[j].status
         /\ \A u \in Observed(Rekeyed(v, k, t)) : \E j \in Keys \ {k} : c[j].turn = u
         /\ \A d \in Commands : Rekeyed(v, k, t).idTurn[d] # NoTurn =>
              \E j \in Keys \ {k} : c[j].turn = Rekeyed(v, k, t).idTurn[d] /\ d \in c[j].ids
<1>. DEFINE kt == [v.keyTurn EXCEPT ![k] = t]
            old == v.keyTurn[k]
            w == Forget(v, kt, old)
<1>1. kt \in [Keys -> MaybeTurn] /\ old \in MaybeTurn
  BY DEF View, MaybeTurn
<1>2. old = c[k].turn /\ \A j \in Keys \ {k} : kt[j] = c[j].turn
  BY DEF View, MirrorsTurns
<1>3. kt[k] = t
  BY DEF View
<1>4. \A j \in Keys \ {k} : c[j].turn # NoTurn => c[j].turn # old
  BY <1>2 DEF Sound
<1>5. old # NoTurn => \A j \in Keys : kt[j] # old
  BY <1>2, <1>3, <1>4 DEF NewTurn
<1>6. c \in Contents /\ \A j \in Keys : c[j].turn \in MaybeTurn
  BY DEF Sound, Contents, Entity
<1>7. /\ v.status \in [Turns -> {"none", "inProgress", "ended"}]
      /\ v.idTurn \in [Commands -> MaybeTurn]
  BY DEF View
<1>. HIDE DEF kt, old
<1>8. CASE old = NoTurn
  <2>1. w.status = v.status /\ w.idTurn = v.idTurn
    BY <1>8 DEF Forget, View
  <2>. HIDE DEF w
  <2>2. Observed(w) = Observed(v)
    BY <2>1 DEF Observed
  <2>3. \A j \in Keys : c[j].turn # NoTurn => j # k
    BY <1>2, <1>8
  <2>4. \A u \in Observed(v) : u # NoTurn
    BY StateAssumption DEF Observed
  <2>5. \A j \in Keys \ {k} : c[j].turn # NoTurn => w.status[c[j].turn] = c[j].status
    BY <2>1 DEF MirrorsTurns
  <2>6. \A u \in Observed(w) : \E j \in Keys \ {k} : c[j].turn = u
    BY <2>2, <2>3, <2>4 DEF MirrorsTurns
  <2>7. \A d \in Commands : w.idTurn[d] # NoTurn =>
          \E j \in Keys \ {k} : c[j].turn = w.idTurn[d] /\ d \in c[j].ids
    BY <2>1, <2>3 DEF MirrorsTurns
  <2>. QED BY <2>5, <2>6, <2>7 DEF w, kt, old, Rekeyed
<1>9. CASE old # NoTurn
  <2>1. /\ w.status = [v.status EXCEPT ![old] = "none"]
        /\ w.idTurn = [d \in Commands |-> IF v.idTurn[d] = old THEN NoTurn ELSE v.idTurn[d]]
    BY <1>5, <1>9 DEF Forget, View
  <2>. HIDE DEF w
  <2>2. old \in Turns
    BY <1>1, <1>9 DEF MaybeTurn
  <2>3. \A j \in Keys \ {k} : c[j].turn # NoTurn => w.status[c[j].turn] = c[j].status
    <3>. SUFFICES ASSUME NEW j \in Keys \ {k}, c[j].turn # NoTurn
                  PROVE  w.status[c[j].turn] = c[j].status
      OBVIOUS
    <3>1. c[j].turn \in Turns /\ c[j].turn # old
      BY <1>4, <1>6 DEF MaybeTurn
    <3>2. v.status[c[j].turn] = c[j].status
      BY DEF MirrorsTurns
    <3>. QED BY <1>7, <2>1, <3>1, <3>2
  <2>4. \A u \in Observed(w) : u \in Observed(v) /\ u # old
    BY <1>7, <2>1, <2>2 DEF Observed
  <2>5. \A u \in Observed(w) : \E j \in Keys \ {k} : c[j].turn = u
    BY <1>2, <2>4 DEF MirrorsTurns
  <2>6. \A d \in Commands : w.idTurn[d] # NoTurn => w.idTurn[d] = v.idTurn[d] /\ v.idTurn[d] # old
    BY <2>1
  <2>7. \A d \in Commands : w.idTurn[d] # NoTurn =>
          \E j \in Keys \ {k} : c[j].turn = w.idTurn[d] /\ d \in c[j].ids
    BY <1>2, <2>6 DEF MirrorsTurns
  <2>. QED BY <2>3, <2>5, <2>7 DEF w, kt, old, Rekeyed
<1>. QED BY <1>8, <1>9

\* A key that takes a turn no other has.
LEMMA BindMirrors ==
  ASSUME NEW v \in View, NEW c, Sound(c), MirrorsTurns(v, c), NEW k \in Keys,
         NEW t \in Turns, NewTurn(c, t), NEW s \in {"none", "inProgress", "ended"},
         NEW e, \A j \in Keys : j # k => e[j] = c[j], e[k].turn = t, e[k].status = s
  PROVE  /\ BindTurn(v, k, t, s) \in View /\ BindTurn(v, k, t, s).ids = v.ids
         /\ MirrorsTurns(BindTurn(v, k, t, s), e)
<1>. DEFINE w == Rekeyed(v, k, t)
            p == BindTurn(v, k, t, s)
<1>1. /\ p \in View /\ p.ids = v.ids
      /\ p.keyTurn[k] = t /\ \A j \in Keys : j # k => p.keyTurn[j] = v.keyTurn[j]
      /\ p.status[t] = s /\ \A u \in Turns : u # t => p.status[u] = w.status[u]
      /\ p.idTurn = w.idTurn
  <2>1. p \in View /\ p.ids = v.ids /\ p.keyTurn[k] = t /\ p.idTurn = w.idTurn
    BY BindView
  <2>2. \A j \in Keys : j # k => p.keyTurn[j] = v.keyTurn[j]
    BY BindView
  <2>3. p.status[t] = s
    BY BindView
  <2>4. \A u \in Turns : u # t => p.status[u] = w.status[u]
    BY BindView
  <2>. QED BY <2>1, <2>2, <2>3, <2>4
<1>2. /\ \A j \in Keys \ {k} : c[j].turn # NoTurn => w.status[c[j].turn] = c[j].status
      /\ \A u \in Observed(w) : \E j \in Keys \ {k} : c[j].turn = u
      /\ \A d \in Commands : w.idTurn[d] # NoTurn =>
           \E j \in Keys \ {k} : c[j].turn = w.idTurn[d] /\ d \in c[j].ids
  BY ForgetMirrors DEF MaybeTurn
<1>3. w.status \in [Turns -> {"none", "inProgress", "ended"}]
  BY RekeyedView DEF View, MaybeTurn
<1>4. v.keyTurn \in [Keys -> MaybeTurn] /\ \A j \in Keys : c[j].turn \in MaybeTurn
  BY DEF View, Sound, Contents, Entity
<1>. HIDE DEF w, p
<1>5. \A j \in Keys : p.keyTurn[j] = e[j].turn
  <2>2. \A j \in Keys \ {k} : v.keyTurn[j] = c[j].turn
    BY DEF MirrorsTurns
  <2>. QED BY <1>1, <2>2
<1>6. ASSUME NEW j \in Keys, e[j].turn # NoTurn
      PROVE  p.status[e[j].turn] = e[j].status
  <2>1. CASE j = k
    BY <1>1, <1>3, <2>1
  <2>2. CASE j # k
    <3>1. e[j] = c[j] /\ c[j].turn \in Turns /\ c[j].turn # t
      BY <1>4, <1>6, <2>2 DEF MaybeTurn, NewTurn
    <3>. QED BY <1>1, <1>2, <1>3, <1>6, <2>2, <3>1
  <2>. QED BY <2>1, <2>2
<1>7. ASSUME NEW x \in Observed(p)
      PROVE  \E j \in Keys : e[j].turn = x
  <2>1. x = t \/ x \in Observed(w)
    BY <1>1, <1>3, <1>7 DEF Observed
  <2>. QED BY <1>2, <2>1
<1>8. ASSUME NEW d \in Commands, p.idTurn[d] # NoTurn
      PROVE  \E j \in Keys : e[j].turn = p.idTurn[d] /\ d \in e[j].ids
  <2>1. PICK j \in Keys \ {k} : c[j].turn = w.idTurn[d] /\ d \in c[j].ids
    BY <1>1, <1>2, <1>8
  <2>. QED BY <1>1, <2>1
<1>9. MirrorsTurns(p, e)
  BY <1>5, <1>6, <1>7, <1>8 DEF MirrorsTurns
<1>. QED BY <1>1, <1>9 DEF p

\* Reading one change of a conversation into a view that mirrors it.
LEMMA DeltaMirrors ==
  ASSUME NEW v \in View, NEW c, Sound(c), MirrorsTurns(v, c), NEW ch, Legal(c, ch)
  PROVE  /\ WithDelta(v, ch) \in View /\ WithDelta(v, ch).ids = v.ids
         /\ MirrorsTurns(WithDelta(v, ch), Edited(c, ch))
<1>. DEFINE e == Edited(c, ch)
            k == ch.key
            t == v.keyTurn[k]
            p == WithDelta(v, ch)
<1>1. c \in Contents /\ ch \in Change /\ k \in Keys /\ ch.turn \in MaybeTurn
  BY DEF Sound, Legal, Change
<1>2. \A j \in Keys : j # k => e[j] = c[j]
  BY <1>1, EditedElsewhere
<1>3. t = c[k].turn /\ t \in MaybeTurn /\ v.keyTurn \in [Keys -> MaybeTurn]
  BY <1>1 DEF MirrorsTurns, View
<1>4. \A j \in Keys : c[j] \in Entity
  BY <1>1 DEF Contents
<1>5. CASE ch.kind = "upsert" /\ ch.turn # NoTurn
  <2>1. p = BindTurn(v, k, ch.turn, "inProgress")
    BY <1>5 DEF WithDelta
  <2>2. e[k] = [turn |-> ch.turn, status |-> "inProgress", ids |-> ch.ids]
    BY <1>1, <1>5, EditedUpsert
  <2>3. ch.turn \in Turns /\ NewTurn(c, ch.turn)
    BY <1>1, <1>5 DEF Legal, MaybeTurn
  <2>. HIDE DEF p, e, k
  <2>. QED BY <1>1, <1>2, <2>1, <2>2, <2>3, BindMirrors DEF p, e
<1>6. CASE ch.kind = "bind"
  <2>1. ch.turn \in Turns /\ NewTurn(c, ch.turn) /\ c[k].status = "inProgress"
    BY <1>6 DEF Legal
  <2>2. v.status[ch.turn] = "none"
    BY <2>1 DEF MirrorsTurns, Observed, NewTurn
  <2>3. p = BindTurn(v, k, ch.turn, "inProgress")
    BY <1>6, <2>2 DEF WithDelta
  <2>4. e[k].turn = ch.turn /\ e[k].status = "inProgress"
    <3>1. e[k] = [c[k] EXCEPT !.turn = ch.turn]
      BY <1>1, <1>6, EditedBind
    <3>2. c[k] \in Entity
      BY <1>1, <1>4
    <3>. HIDE DEF e, k
    <3>. QED BY <2>1, <3>1, <3>2 DEF Entity
  <2>. HIDE DEF p, e, k
  <2>. QED BY <1>1, <1>2, <2>1, <2>3, <2>4, BindMirrors DEF p, e
<1>7. CASE ch.kind = "remove"
  <2>1. p = Rekeyed(v, k, NoTurn)
    BY <1>7 DEF WithDelta, Rekeyed
  <2>2. e[k] = Absent
    BY <1>1, <1>7, EditedRemove
  <2>3. /\ p \in View /\ p.ids = v.ids
        /\ p.keyTurn[k] = NoTurn /\ \A j \in Keys : j # k => p.keyTurn[j] = v.keyTurn[j]
    <3>. HIDE DEF p, k
    <3>. QED BY <1>1, <2>1, RekeyedView DEF MaybeTurn
  <2>4. /\ \A j \in Keys \ {k} : c[j].turn # NoTurn => p.status[c[j].turn] = c[j].status
        /\ \A u \in Observed(p) : \E j \in Keys \ {k} : c[j].turn = u
        /\ \A d \in Commands : p.idTurn[d] # NoTurn =>
             \E j \in Keys \ {k} : c[j].turn = p.idTurn[d] /\ d \in c[j].ids
    <3>. HIDE DEF p, k
    <3>. QED BY <1>1, <2>1, ForgetMirrors DEF MaybeTurn
  <2>. HIDE DEF p, e, k
  <2>5. e[k].turn = NoTurn
    BY <2>2 DEF Absent
  <2>6. \A j \in Keys : p.keyTurn[j] = e[j].turn
    <3>1. \A j \in Keys : v.keyTurn[j] = c[j].turn
      BY DEF MirrorsTurns
    <3>. QED BY <1>2, <2>3, <2>5, <3>1
  <2>7. \A j \in Keys : e[j].turn # NoTurn => p.status[e[j].turn] = e[j].status
    BY <1>2, <2>4, <2>5
  <2>8. \A u \in Observed(p) : \E j \in Keys : e[j].turn = u
    BY <1>2, <2>4
  <2>9. \A d \in Commands : p.idTurn[d] # NoTurn =>
          \E j \in Keys : e[j].turn = p.idTurn[d] /\ d \in e[j].ids
    BY <1>2, <2>4
  <2>10. MirrorsTurns(p, e)
    BY <2>6, <2>7, <2>8, <2>9 DEF MirrorsTurns
  <2>11. p \in View /\ p.ids = v.ids
    BY <2>3
  <2>. QED BY <2>10, <2>11 DEF p, e
<1>8. CASE ch.kind = "status"
  <2>1. e[k] = [c[k] EXCEPT !.status = "ended"] /\ c[k].turn # NoTurn
    <3>1. e[k] = [c[k] EXCEPT !.status = "ended"]
      BY <1>1, <1>8, EditedStatus
    <3>2. c[k].turn # NoTurn
      BY <1>8 DEF Legal
    <3>. QED BY <3>1, <3>2
  <2>2. c[k] \in Entity /\ t \in Turns
    BY <1>1, <1>3, <1>4, <2>1 DEF MaybeTurn
  <2>. DEFINE st == [v.status EXCEPT ![t] = "ended"]
  <2>3. p = [v EXCEPT !.status = st]
    BY <1>3, <1>8, <2>1 DEF WithDelta
  <2>4. st \in [Turns -> {"none", "inProgress", "ended"}]
    BY DEF View
  <2>5. st[t] = "ended" /\ \A u \in Turns : u # t => st[u] = v.status[u]
    BY <2>2 DEF View
  <2>. HIDE DEF p, e, k, st
  <2>6. /\ p \in View /\ p.ids = v.ids /\ p.keyTurn = v.keyTurn
        /\ p.status = st /\ p.idTurn = v.idTurn
    BY <2>3, <2>4 DEF View
  <2>7. e[k].turn = t /\ e[k].status = "ended" /\ e[k].ids = c[k].ids
    BY <1>3, <2>1, <2>2 DEF Entity
  <2>8. \A j \in Keys : e[j].turn = c[j].turn /\ e[j].ids = c[j].ids
    BY <1>2, <1>3, <2>7
  <2>9. \A j \in Keys : p.keyTurn[j] = e[j].turn
    BY <2>6, <2>8 DEF MirrorsTurns
  <2>10. ASSUME NEW j \in Keys, e[j].turn # NoTurn
         PROVE  p.status[e[j].turn] = e[j].status
    <3>1. CASE j = k
      BY <2>5, <2>6, <2>7, <3>1
    <3>2. CASE j # k
      <4>1. e[j] = c[j] /\ c[j].turn \in Turns /\ c[j].turn # t
        BY <1>1, <1>2, <1>3, <1>4, <2>8, <2>10, <3>2 DEF Entity, MaybeTurn, Sound
      <4>2. v.status[c[j].turn] = c[j].status
        BY <2>8, <2>10 DEF MirrorsTurns
      <4>. QED BY <2>5, <2>6, <4>1, <4>2
    <3>. QED BY <3>1, <3>2
  <2>11. \A u \in Observed(p) : \E j \in Keys : e[j].turn = u
    <3>1. \A u \in Observed(p) : u = t \/ u \in Observed(v)
      BY <2>5, <2>6 DEF Observed
    <3>. QED BY <1>1, <2>7, <2>8, <3>1 DEF MirrorsTurns
  <2>12. \A d \in Commands : p.idTurn[d] # NoTurn =>
           \E j \in Keys : e[j].turn = p.idTurn[d] /\ d \in e[j].ids
    BY <2>6, <2>8 DEF MirrorsTurns
  <2>13. MirrorsTurns(p, e)
    BY <2>9, <2>10, <2>11, <2>12 DEF MirrorsTurns
  <2>. QED BY <2>6, <2>13 DEF p, e
<1>9. CASE ch.kind = "message" \/ (ch.kind = "upsert" /\ ch.turn = NoTurn)
  <2>1. p = v
    BY <1>9 DEF WithDelta
  <2>2. /\ e[k].turn = c[k].turn /\ c[k].ids \subseteq e[k].ids
        /\ c[k].turn # NoTurn => e[k].status = c[k].status
    <3>1. CASE ch.kind = "message"
      <4>1. e[k] = [c[k] EXCEPT !.ids = c[k].ids \cup ch.ids] /\ c[k] \in Entity
        BY <1>1, <1>4, <3>1, EditedMessage
      <4>. HIDE DEF e, k
      <4>. QED BY <4>1 DEF Entity
    <3>2. CASE ch.kind = "upsert" /\ ch.turn = NoTurn
      <4>1. e[k] = [turn |-> ch.turn, status |-> "inProgress", ids |-> ch.ids]
        BY <1>1, <3>2, EditedUpsert
      <4>2. c[k] = Absent
        BY <1>1, <3>2 DEF Legal, Sound
      <4>. HIDE DEF e, k
      <4>. QED BY <3>2, <4>1, <4>2 DEF Absent
    <3>. QED BY <1>9, <3>1, <3>2
  <2>. HIDE DEF p, e, k
  <2>3. \A j \in Keys : e[j].turn = c[j].turn
    BY <1>2, <2>2
  <2>4. \A j \in Keys : c[j].turn # NoTurn => e[j].status = c[j].status
    BY <1>2, <2>2
  <2>5. \A j \in Keys : \A d \in c[j].ids : d \in e[j].ids
    BY <1>2, <2>2
  <2>6. MirrorsTurns(v, e)
    <3>1. \A j \in Keys : v.keyTurn[j] = e[j].turn
      BY <2>3 DEF MirrorsTurns
    <3>2. \A j \in Keys : e[j].turn # NoTurn => v.status[e[j].turn] = e[j].status
      BY <2>3, <2>4 DEF MirrorsTurns
    <3>3. \A u \in Observed(v) : \E j \in Keys : e[j].turn = u
      BY <2>3 DEF MirrorsTurns
    <3>4. ASSUME NEW d \in Commands, v.idTurn[d] # NoTurn
          PROVE  \E j \in Keys : e[j].turn = v.idTurn[d] /\ d \in e[j].ids
      <4>1. PICK j \in Keys : c[j].turn = v.idTurn[d] /\ d \in c[j].ids
        BY <3>4 DEF MirrorsTurns
      <4>. QED BY <2>3, <2>5, <4>1
    <3>. QED BY <3>1, <3>2, <3>3, <3>4 DEF MirrorsTurns
  <2>7. p \in View /\ p.ids = v.ids /\ MirrorsTurns(p, e)
    BY <2>1, <2>6
  <2>. QED BY <2>7 DEF p, e
<1>. QED BY <1>5, <1>6, <1>7, <1>8, <1>9 DEF Legal

\* Applying the patches of the next revision.
LEMMA PatchedMirrors ==
  ASSUME NEW v \in View, NEW c, Sound(c), Mirrors(v, c),
         NEW m, Legal(c, m.change), m.revision \in Nat
  PROVE  /\ Patched(v, m) \in View /\ Patched(v, m).ids = v.ids \cup m.change.ids
         /\ Patched(v, m).revision = m.revision
         /\ Patched(v, m).attachment = v.attachment
         /\ Mirrors(Patched(v, m), Edited(c, m.change))
<1>. DEFINE ch == m.change
            e == Edited(c, ch)
            p == WithDelta(v, ch)
            q == Patched(v, m)
            turn == p.keyTurn[ch.key]
            idTurn == [d \in Commands |-> IF d \in ch.ids /\ turn # NoTurn THEN turn ELSE p.idTurn[d]]
<1>1. ch \in Change /\ ch.key \in Keys /\ ch.ids \in SUBSET Commands /\ c \in Contents
  BY DEF Legal, Change, Sound
<1>2. MirrorsTurns(v, c)
  BY DEF Mirrors, MirrorsTurns
<1>3. p \in View /\ p.ids = v.ids /\ MirrorsTurns(p, e)
  BY <1>2, DeltaMirrors
<1>4. /\ p.attachment = v.attachment
      /\ p.connection = v.connection /\ p.generation = v.generation
  BY DEF WithDelta, BindTurn, Forget, View
<1>5. q = [[p EXCEPT !.ids = p.ids \cup ch.ids, !.idTurn = idTurn] EXCEPT !.revision = m.revision]
  BY DEF Patched, WithDeliveries
<1>6. turn \in MaybeTurn
  BY <1>1, <1>3 DEF View
<1>7. idTurn \in [Commands -> MaybeTurn]
  BY <1>3, <1>6 DEF View
<1>8. \A k \in Keys : e[k].ids \subseteq c[k].ids \cup ch.ids
  BY EditedIds
<1>9. ch.ids \subseteq e[ch.key].ids
  BY <1>1, EditedIds
<1>10. turn = e[ch.key].turn
  BY <1>1, <1>3 DEF MirrorsTurns
<1>11. \A d \in Commands : idTurn[d] =
         IF d \in ch.ids /\ turn # NoTurn THEN turn ELSE p.idTurn[d]
  OBVIOUS
<1>. HIDE DEF e, p, q, idTurn, turn
<1>12. /\ q \in View /\ q.ids = p.ids \cup ch.ids /\ q.revision = m.revision
       /\ q.attachment = p.attachment /\ q.keyTurn = p.keyTurn /\ q.status = p.status
       /\ q.idTurn = idTurn
  BY <1>1, <1>3, <1>5, <1>7 DEF View
<1>13. \A k \in Keys : q.keyTurn[k] = e[k].turn
  BY <1>3, <1>12 DEF MirrorsTurns
<1>14. \A k \in Keys : e[k].turn # NoTurn => q.status[e[k].turn] = e[k].status
  BY <1>3, <1>12 DEF MirrorsTurns
<1>15. \A t \in Observed(q) : \E k \in Keys : e[k].turn = t
  BY <1>3, <1>12 DEF MirrorsTurns, Observed
<1>16. \A k \in Keys : e[k].ids \subseteq q.ids
  <2>1. \A k \in Keys : c[k].ids \subseteq v.ids
    BY DEF Mirrors
  <2>. QED BY <1>3, <1>8, <1>12, <2>1
<1>17. ASSUME NEW d \in Commands, q.idTurn[d] # NoTurn
       PROVE  \E k \in Keys : e[k].turn = q.idTurn[d] /\ d \in e[k].ids
  <2>1. CASE d \in ch.ids /\ turn # NoTurn
    BY <1>1, <1>9, <1>10, <1>11, <1>12, <2>1
  <2>2. CASE ~(d \in ch.ids /\ turn # NoTurn)
    BY <1>3, <1>11, <1>12, <1>17, <2>2 DEF MirrorsTurns
  <2>. QED BY <2>1, <2>2
<1>18. Mirrors(q, e)
  BY <1>13, <1>14, <1>15, <1>16, <1>17 DEF Mirrors
<1>19. q.ids = v.ids \cup ch.ids /\ q.attachment = v.attachment
  BY <1>3, <1>4, <1>12
<1>. QED BY <1>12, <1>18, <1>19 DEF q, e

\* Taking a snapshot for the view.
LEMMA RebuiltMirrors ==
  ASSUME NEW v \in View, NEW m, Sound(m.content), m.revision \in Nat
  PROVE  /\ Rebuilt(v, m) \in View /\ Ready(Rebuilt(v, m))
         /\ Rebuilt(v, m).ids = UNION {m.content[k].ids : k \in Keys}
         /\ Rebuilt(v, m).revision = m.revision
         /\ Mirrors(Rebuilt(v, m), m.content)
<1>. DEFINE c == m.content
            r == Rebuilt(v, m)
            keyTurn == [k \in Keys |-> c[k].turn]
            status == [t \in Turns |->
               IF \E k \in Keys : c[k].turn = t THEN c[KeyOf(c, t)].status ELSE "none"]
            ids == UNION {c[k].ids : k \in Keys}
            idTurn == [d \in Commands |-> SeenOn(c, d)]
<1>1. \A k \in Keys : c[k] \in Entity
  BY DEF Sound, Contents
<1>2. ASSUME NEW t \in Turns, NEW k \in Keys, c[k].turn = t
      PROVE  KeyOf(c, t) = k
  <2>1. KeyOf(c, t) \in Keys /\ c[KeyOf(c, t)].turn = t
    BY <1>2 DEF KeyOf
  <2>. QED BY <1>2, <2>1, StateAssumption DEF Sound
<1>3. \A k \in Keys : c[k].turn # NoTurn => c[k].status \in {"inProgress", "ended"}
  BY <1>1 DEF Sound, Absent, Entity
<1>4. \A t \in Turns : \A k \in Keys : c[k].turn = t => status[t] = c[k].status
  BY <1>2
<1>5. \A t \in Turns : status[t] # "none" => \E k \in Keys : c[k].turn = t
  OBVIOUS
<1>6. status \in [Turns -> {"none", "inProgress", "ended"}]
  <2>1. ASSUME NEW t \in Turns PROVE status[t] \in {"none", "inProgress", "ended"}
    <3>1. CASE \E k \in Keys : c[k].turn = t
      BY <1>3, <1>4, <3>1, StateAssumption
    <3>2. CASE ~ \E k \in Keys : c[k].turn = t
      BY <3>2
    <3>. QED BY <3>1, <3>2
  <2>. HIDE DEF status
  <2>2. status = [t \in Turns |-> status[t]]
    BY DEF status
  <2>. QED BY <2>1, <2>2
<1>7. ASSUME NEW d \in Commands
      PROVE  /\ SeenOn(c, d) \in MaybeTurn
             /\ SeenOn(c, d) # NoTurn =>
                  \E k \in Keys : c[k].turn = SeenOn(c, d) /\ d \in c[k].ids
  <2>. DEFINE P(k) == k \in Holds(c, d) /\ c[k].turn # NoTurn
              x == CHOOSE k \in Holds(c, d) : c[k].turn # NoTurn
  <2>1. CASE \E k \in Holds(c, d) : c[k].turn # NoTurn
    <3>1. x \in Holds(c, d) /\ c[x].turn # NoTurn
      BY <2>1
    <3>2. SeenOn(c, d) = c[x].turn
      BY <2>1 DEF SeenOn
    <3>. HIDE DEF x
    <3>3. x \in Keys /\ d \in c[x].ids
      BY <3>1 DEF Holds
    <3>. QED BY <1>1, <3>2, <3>3 DEF Entity
  <2>2. CASE ~ \E k \in Holds(c, d) : c[k].turn # NoTurn
    BY <2>2 DEF SeenOn, MaybeTurn
  <2>. QED BY <2>1, <2>2
<1>8. keyTurn \in [Keys -> MaybeTurn] /\ ids \in SUBSET Commands /\ idTurn \in [Commands -> MaybeTurn]
  BY <1>1, <1>7 DEF Entity
<1>9. /\ \A k \in Keys : keyTurn[k] = c[k].turn /\ c[k].ids \subseteq ids
      /\ \A d \in Commands : idTurn[d] = SeenOn(c, d)
  OBVIOUS
<1>10. r = [v EXCEPT !.revision = m.revision, !.attachment = "synchronized",
                     !.keyTurn = keyTurn, !.status = status, !.ids = ids, !.idTurn = idTurn]
  BY DEF Rebuilt
<1>. HIDE DEF keyTurn, status, ids, idTurn, r, c
<1>11. /\ r \in View /\ r.attachment = "synchronized" /\ r.revision = m.revision
       /\ r.keyTurn = keyTurn /\ r.status = status /\ r.ids = ids /\ r.idTurn = idTurn
  BY <1>6, <1>8, <1>10 DEF View
<1>12. \A k \in Keys : c[k].turn # NoTurn => c[k].turn \in Turns
  BY <1>1 DEF Entity, MaybeTurn
<1>13. Mirrors(r, c)
  BY <1>4, <1>5, <1>7, <1>9, <1>11, <1>12 DEF Mirrors, Observed
<1>. QED BY <1>11, <1>13 DEF r, ids, c, Ready

-----------------------------------------------------------------------------
(* The inductive invariant *)

Done == {c \in Commands : effect[c] = "done"}

\* Every revision is a legal edit of the one before it.
LogSound ==
  /\ \A i \in 1..Len(log) : Sound(log[i].content)
  /\ \A i \in 1..Len(log) : i > 1 =>
       /\ Legal(log[i - 1].content, log[i].change)
       /\ log[i].content = Edited(log[i - 1].content, log[i].change)

\* Only commands that took effect are shown, by the owner and by the view.
ShownIsDone ==
  /\ \A i \in 1..Len(log) : /\ log[i].change.ids \subseteq Done
                            /\ \A k \in Keys : log[i].content[k].ids \subseteq Done
  /\ view.ids \subseteq Done

UntrackedIsBlank == ~tracked => ~Ready(view)

Injecting == {"injecting", "proving", "proved"}

\* The call that runs is unanswered, and the only one that may be written and
\* unanswered; a turn that a start looks for comes from an accepted request.
CallSound ==
  /\ op \in Commands => answer[op] = "none"
  /\ pc = "idle" <=> op = "none"
  /\ pc \in Injecting => op \in Commands
  /\ \A c \in Commands : answer[c] = "none" /\ effect[c] # "none" => c = op /\ pc \in Injecting
  /\ pc = "injecting" /\ call.sent = 0 => effect[op] = "none"
  /\ pc \in Injecting /\ op \notin Steers /\ call.turn # NoTurn => effect[op] = "done"

Inv == /\ TypeOK /\ LogSound /\ ShownIsDone /\ UntrackedIsBlank
       /\ ViewFaithful /\ NoStaleResync /\ CallSound

\* It holds at the start.
LEMMA InitInv == Init => Inv
<1>. SUFFICES ASSUME Init PROVE Inv
  OBVIOUS
<1>. DEFINE blank == [k \in Keys |-> Absent]
            first == [content |-> blank,
                      change |-> [kind |-> "remove", key |-> CHOOSE k \in Keys : TRUE,
                                  turn |-> NoTurn, ids |-> {}]]
<1>1. (CHOOSE k \in Keys : TRUE) \in Keys
  BY AttachmentAssumption
<1>2. Sound(blank) /\ blank \in Contents
  BY BlankIsSound DEF Sound
<1>3. first.change \in Change
  BY <1>1 DEF Change, MaybeTurn
<1>4. log = <<first>>
  BY DEF Init
<1>5. first.content = blank /\ first.change.ids = {} /\ \A k \in Keys : blank[k].ids = {}
  BY DEF Absent
<1>. HIDE DEF blank
<1>6. first \in [content : Contents, change : Change]
  BY <1>2, <1>3
<1>. HIDE DEF first
<1>7. /\ log \in Seq([content : Contents, change : Change]) /\ Len(log) = 1
      /\ log[1] = first
  BY <1>4, <1>6
<1>8. view = NewView /\ NewView \in View /\ ~Ready(NewView) /\ NewView.ids = {}
  <2>1. NewView \in View /\ ~Ready(NewView) /\ NewView.ids = {}
    BY DEF View, NewView, Ready, MaybeTurn, Null
  <2>. QED BY <2>1 DEF Init
<1>9. TypeOK
  <2>1. call \in [observed: BOOLEAN, generation: Nat, revision: Nat, turns: SUBSET Turns,
                  turn: MaybeTurn, sent: Nat]
    BY DEF Init, NoCall, MaybeTurn, Null
  <2>2. view \in View /\ tracked \in BOOLEAN /\ resyncing \in BOOLEAN /\ closed \in BOOLEAN
    BY <1>8 DEF Init
  <2>3. generation \in 1..MaxGenerations /\ Len(log) \in 1..MaxRevisions
        /\ up \subseteq 1..generation /\ adopted \in 0..generation
    BY <1>7, AttachmentAssumption DEF Init
  <2>4. op \in Calls \cup {"none"} /\ pc \in PCs
    BY DEF Init, Calls, PCs
  <2>5. /\ effect \in [Commands -> {"none", "possible", "done", "gone"}]
        /\ answer \in [Commands -> {"none", "Confirmed", "NotSubmitted", "Rejected", "Ambiguous"}]
    BY DEF Init
  <2>. QED BY <1>7, <2>1, <2>2, <2>3, <2>4, <2>5 DEF TypeOK
<1>10. LogSound
  BY <1>2, <1>5, <1>7 DEF LogSound
<1>11. ShownIsDone
  BY <1>5, <1>7, <1>8 DEF ShownIsDone
<1>12. UntrackedIsBlank /\ ViewFaithful /\ NoStaleResync
  BY <1>8 DEF UntrackedIsBlank, ViewFaithful, NoStaleResync
<1>13. CallSound
  <2>1. op = "none" /\ pc = "idle" /\ \A c \in Commands : effect[c] = "none"
    BY DEF Init
  <2>2. op \notin Commands /\ pc \notin Injecting
    BY <2>1, AttachmentAssumption DEF Injecting
  <2>3. pc # "injecting"
    BY <2>1
  <2>. QED BY <2>1, <2>2, <2>3 DEF CallSound
<1>. QED BY <1>9, <1>10, <1>11, <1>12, <1>13 DEF Inv

\* A broadcast leaves the view faithful, whichever it is and whenever it comes.
LEMMA ReceiveKeeps ==
  ASSUME Inv, Snapshot \/ Patches
  PROVE  /\ view' \in View
         /\ Ready(view') => /\ view'.revision \in 1..Len(log)
                           /\ Mirrors(view', log[view'.revision].content)
         /\ view'.ids \subseteq Done
         /\ resyncing' => ~Ready(view')
         /\ resyncing' \in BOOLEAN
<1>. DEFINE content(r) == log[IF r = Null THEN 1 ELSE r].content
            snap(r) == [tag |-> "Snapshot", revision |-> r, content |-> content(r)]
            patch(r) == [tag |-> "Patches", base |-> r - 1,
                         revision |-> r, change |-> log[r].change]
<1>1. /\ view \in View /\ generation \in Nat /\ resyncing \in BOOLEAN
      /\ Len(log) \in Nat /\ Len(log) >= 1 /\ view.revision \in Nat
  BY AttachmentAssumption DEF Inv, TypeOK, View
<1>2. PICK m : /\ Receive(m)
               /\ \/ \E r \in 0..Len(log) : m = snap(r)
                  \/ \E r \in 1..Len(log) : m = patch(r)
  <2>1. CASE Snapshot
    BY <2>1 DEF Snapshot
  <2>2. CASE Patches
    BY <2>2 DEF Patches
  <2>. QED BY <2>1, <2>2
<1>3. /\ view' = Apply(view, m, generation)
      /\ resyncing' = Resyncing(Verdict(view, m, generation))
  BY <1>2 DEF Receive, See
<1>4. /\ Ready(view) => /\ view.revision \in 1..Len(log)
                        /\ Mirrors(view, log[view.revision].content)
      /\ view.ids \subseteq Done /\ (resyncing => ~Ready(view))
  BY DEF Inv, ViewFaithful, ShownIsDone, NoStaleResync
<1>5. CASE Verdict(view, m, generation) = "ignored"
  <2>1. view' = view /\ resyncing' = resyncing
    BY <1>3, <1>5 DEF Apply, Resyncing
  <2>. QED BY <1>1, <1>4, <2>1
<1>6. CASE Verdict(view, m, generation) = "resync"
  <2>1. view' = BeginResync(view)
    BY <1>3, <1>6 DEF Apply
  <2>2. resyncing' \in BOOLEAN
    BY <1>3, <1>6 DEF Resyncing
  <2>3. view' \in View /\ ~Ready(view') /\ view'.ids = view.ids
    BY <1>1, <2>1, ViewOps
  <2>. QED BY <1>4, <2>2, <2>3
<1>7. CASE Verdict(view, m, generation) = "applied"
  <2>1. resyncing' = IF Ready(view') THEN FALSE ELSE resyncing
    BY <1>3, <1>7 DEF Resyncing
  <2>2. ASSUME NEW r \in 0..Len(log), m = snap(r)
        PROVE  /\ view' \in View /\ Ready(view') /\ view'.revision \in 1..Len(log)
               /\ Mirrors(view', log[view'.revision].content) /\ view'.ids \subseteq Done
    <3>1. m.tag = "Snapshot" /\ m.revision = r
      BY <2>2
    <3>2. r # Null
      BY <1>7, <3>1 DEF Verdict
    <3>3. r \in 1..Len(log) /\ m.content = log[r].content
      BY <1>1, <2>2, <3>2 DEF Null
    <3>4. Sound(m.content) /\ \A k \in Keys : m.content[k].ids \subseteq Done
      BY <3>3 DEF Inv, LogSound, ShownIsDone
    <3>5. view' = Rebuilt(view, m)
      BY <1>3, <1>7, <3>1 DEF Apply
    <3>6. r \in Nat
      BY <1>1
    <3>7. /\ view' \in View /\ Ready(view') /\ view'.revision = r
          /\ Mirrors(view', m.content) /\ view'.ids = UNION {m.content[k].ids : k \in Keys}
      BY <1>1, <3>1, <3>4, <3>5, <3>6, RebuiltMirrors
    <3>. QED BY <3>3, <3>4, <3>7
  <2>3. ASSUME NEW r \in 1..Len(log), m = patch(r)
        PROVE  /\ view' \in View /\ Ready(view') /\ view'.revision \in 1..Len(log)
               /\ Mirrors(view', log[view'.revision].content) /\ view'.ids \subseteq Done
    <3>1. m.tag = "Patches" /\ m.revision = r /\ m.base = r - 1 /\ m.change = log[r].change
      BY <2>3
    <3>2. /\ Ready(view) /\ view.revision # Null
          /\ m.base = view.revision
      BY <1>7, <3>1 DEF Verdict, OnBase
    <3>3. view.revision \in 1..Len(log) /\ r > 1 /\ view.revision = r - 1 /\ r \in Nat
      BY <1>1, <1>4, <3>1, <3>2 DEF Null
    <3>4. /\ Sound(log[r - 1].content) /\ Mirrors(view, log[r - 1].content)
          /\ Legal(log[r - 1].content, m.change)
          /\ log[r].content = Edited(log[r - 1].content, m.change)
          /\ m.change.ids \subseteq Done
      BY <1>4, <3>1, <3>2, <3>3 DEF Inv, LogSound, ShownIsDone
    <3>5. view' = Patched(view, m)
      BY <1>3, <1>7, <3>1 DEF Apply
    <3>6. /\ view' \in View /\ view'.ids = view.ids \cup m.change.ids
          /\ view'.revision = r /\ view'.attachment = view.attachment
          /\ Mirrors(view', log[r].content)
      BY <1>1, <3>1, <3>3, <3>4, <3>5, PatchedMirrors
    <3>. QED BY <1>4, <3>2, <3>4, <3>6 DEF Ready
  <2>. QED BY <1>2, <2>1, <2>2, <2>3
<1>8. Verdict(view, m, generation) \in {"ignored", "resync", "applied"}
  BY DEF Verdict
<1>. QED BY <1>5, <1>6, <1>7, <1>8

-----------------------------------------------------------------------------
(* Calls *)

Outcomes == {"Confirmed", "NotSubmitted", "Rejected", "Ambiguous"}
CallType == [observed: BOOLEAN, generation: Nat, revision: Nat, turns: SUBSET Turns,
             turn: MaybeTurn, sent: Nat]

\* The types of what a call changes.
CallTyped == /\ op \in Calls \cup {"none"} /\ pc \in PCs /\ call \in CallType
             /\ effect \in [Commands -> {"none", "possible", "done", "gone"}]
             /\ answer \in [Commands -> {"none", "Confirmed", "NotSubmitted", "Rejected", "Ambiguous"}]

LEMMA CallTypedFromInv == Inv => CallTyped
BY DEF Inv, TypeOK, CallTyped, CallType

LEMMA NoCallTyped == NoCall \in CallType
BY DEF NoCall, CallType, MaybeTurn, Null

\* A call that ends leaves nothing that is written and unanswered behind.
LEMMA FinishKeeps ==
  ASSUME Inv, NEW c \in Calls, NEW a \in Outcomes, Finish(c, a),
         c = op \/ (op = "none" /\ (c \in Commands => answer[c] = "none"))
  PROVE  CallTyped' /\ CallSound'
<1>1. CallTyped /\ CallSound
  BY CallTypedFromInv DEF Inv
<1>2. /\ op' = "none" /\ pc' = "idle" /\ call' = NoCall /\ effect' = effect
      /\ answer' = IF c = "resume" THEN answer ELSE [answer EXCEPT ![c] = a]
  BY DEF Finish
<1>3. CallTyped'
  <2>1. c # "resume" => c \in Commands
    BY DEF Calls
  <2>2. answer' \in [Commands -> {"none", "Confirmed", "NotSubmitted", "Rejected", "Ambiguous"}]
    BY <1>1, <1>2, <2>1 DEF CallTyped, Outcomes
  <2>3. op' \in Calls \cup {"none"} /\ pc' \in PCs /\ call' \in CallType
    BY <1>2, NoCallTyped DEF PCs
  <2>. QED BY <1>1, <1>2, <2>2, <2>3 DEF CallTyped
<1>4. op' \notin Commands /\ pc' \notin Injecting /\ pc' # "injecting"
  BY <1>2, AttachmentAssumption DEF Injecting
<1>5. ASSUME NEW d \in Commands, answer'[d] = "none", effect'[d] # "none"
      PROVE  FALSE
  <2>1. answer[d] = "none" /\ (c = d => FALSE)
    <3>1. CASE c = "resume"
      BY <1>2, <1>5, <3>1, AttachmentAssumption
    <3>2. CASE c # "resume"
      BY <1>1, <1>2, <1>5, <3>2 DEF Calls, CallTyped, Outcomes
    <3>. QED BY <3>1, <3>2
  <2>2. d = op /\ pc \in Injecting
    BY <1>1, <1>2, <1>5, <2>1 DEF CallSound
  <2>3. op \in Commands /\ op # "none"
    BY <2>2, AttachmentAssumption
  <2>. QED BY <2>1, <2>2, <2>3
<1>6. CallSound'
  BY <1>2, <1>4, <1>5 DEF CallSound
<1>. QED BY <1>3, <1>6

LEMMA CaptureTyped ==
  ASSUME Inv, NEW c \in Commands
  PROVE  /\ Capture(view, c) \in CallType
         /\ Capture(view, c).sent = 0
         /\ c \notin Steers => Capture(view, c).turn = NoTurn
<1>1. view.generation \in Nat /\ view.revision \in Nat /\ Observed(view) \subseteq Turns
  BY DEF Inv, TypeOK, View, Observed
<1>2. c \in Steers => Aim[c] \in Turns
  BY AttachmentAssumption
<1>3. HasDeliveryOn(view, c, Aim[c]) \in BOOLEAN /\ HasDelivery(view, c) \in BOOLEAN
  BY DEF HasDelivery, HasDeliveryOn
<1>. QED BY <1>1, <1>2, <1>3 DEF Capture, CallType, MaybeTurn

\* So does one that goes on to its injection.
LEMMA ProceedKeeps ==
  ASSUME Inv, NEW c \in Calls, Proceed(c), pc \notin Injecting,
         c = op \/ (op = "none" /\ (c \in Commands => answer[c] = "none"))
  PROVE  CallTyped' /\ CallSound'
<1>1. CallTyped /\ CallSound
  BY CallTypedFromInv DEF Inv
<1>2. CASE Finish(c, "NotSubmitted")
  BY <1>2, FinishKeeps DEF Outcomes
<1>3. CASE /\ c # "resume" /\ op' = c /\ pc' = "injecting" /\ call' = Capture(view, c)
           /\ UNCHANGED truth
  <2>1. c \in Commands
    BY <1>3 DEF Calls
  <2>2. call' \in CallType /\ call'.sent = 0 /\ (c \notin Steers => call'.turn = NoTurn)
    BY <1>3, <2>1, CaptureTyped
  <2>3. effect' = effect /\ answer' = answer
    BY <1>3 DEF truth
  <2>4. answer[c] = "none"
    BY <1>1, <2>1 DEF CallSound
  <2>5. \A d \in Commands : answer[d] = "none" => effect[d] = "none"
    BY <1>1 DEF CallSound
  <2>6. CallTyped'
    BY <1>1, <1>3, <2>2, <2>3 DEF CallTyped, PCs
  <2>7. op' # "none" /\ pc' # "idle" /\ op' \in Commands
    BY <1>3, <2>1, AttachmentAssumption
  <2>8. CallSound'
    BY <1>3, <2>1, <2>2, <2>3, <2>4, <2>5, <2>7 DEF CallSound
  <2>. QED BY <2>6, <2>8
<1>. QED BY <1>2, <1>3 DEF Proceed

\* A change of the view may wake the call that waits for it.
LEMMA WokenKeeps ==
  ASSUME Inv, NEW v, pc' = Woken(v), UNCHANGED <<op, call, truth>>
  PROVE  CallTyped' /\ CallSound'
<1>1. CallTyped /\ CallSound
  BY CallTypedFromInv DEF Inv
<1>2. op' = op /\ call' = call /\ effect' = effect /\ answer' = answer
  BY DEF truth
<1>3. \/ pc' = pc
      \/ pc = "following" /\ pc' = "followed"
      \/ pc = "proving" /\ pc' = "proved"
  BY DEF Woken
<1>4. /\ pc' \in PCs
      /\ pc' \in Injecting <=> pc \in Injecting
      /\ pc' = "idle" <=> pc = "idle"
      /\ pc' = "injecting" <=> pc = "injecting"
  BY <1>1, <1>3 DEF CallTyped, PCs, Injecting
<1>5. CallTyped'
  BY <1>1, <1>2, <1>4 DEF CallTyped
<1>6. CallSound'
  BY <1>1, <1>2, <1>4 DEF CallSound
<1>. QED BY <1>5, <1>6

\* An injection that has its answer goes on to look for the proof.
LEMMA ProveKeeps ==
  ASSUME Inv, NEW c \in CallType, Prove(c), pc = "injecting",
         op \notin Steers /\ c.turn # NoTurn => effect[op] = "done"
  PROVE  CallTyped' /\ CallSound'
<1>1. CallTyped /\ CallSound
  BY CallTypedFromInv DEF Inv
<1>2. /\ op' = op /\ call' = c /\ effect' = effect /\ answer' = answer
      /\ pc' \in {"proving", "proved"}
  BY DEF truth, Prove
<1>3. CallTyped'
  BY <1>1, <1>2 DEF CallTyped, PCs
<1>4. /\ pc' \in Injecting /\ pc' # "injecting" /\ pc' # "idle"
      /\ op \in Commands /\ op # "none" /\ pc \in Injecting
  BY <1>1, <1>2, AttachmentAssumption DEF CallSound, Injecting
<1>5. CallSound'
  BY <1>1, <1>2, <1>4 DEF CallSound
<1>. QED BY <1>3, <1>5

\* Desktop takes, loses or ignores what was written.
LEMMA WorldKeepsCalls ==
  ASSUME Inv, UNCHANGED <<op, pc, call, answer>>,
         \/ effect' = effect
         \/ \E c \in Commands : /\ effect[c] = "possible"
                              /\ \E e \in {"done", "gone"} : effect' = [effect EXCEPT ![c] = e]
  PROVE  CallTyped' /\ CallSound' /\ Done \subseteq Done'
<1>1. CallTyped /\ CallSound
  BY CallTypedFromInv DEF Inv
<1>2. \A d \in Commands :
        /\ effect'[d] # "none" => effect[d] # "none"
        /\ effect[d] = "none" => effect'[d] = "none"
        /\ effect[d] = "done" => effect'[d] = "done"
  BY <1>1 DEF CallTyped
<1>3. effect' \in [Commands -> {"none", "possible", "done", "gone"}]
  BY <1>1 DEF CallTyped
<1>4. CallTyped'
  BY <1>1, <1>3 DEF CallTyped
<1>5. pc \in Injecting => op \in Commands
  BY <1>1 DEF CallSound
<1>6. pc = "injecting" => pc \in Injecting
  BY DEF Injecting
<1>7. op' = op /\ pc' = pc /\ call' = call /\ answer' = answer
  OBVIOUS
<1>8. \A d \in Commands : answer'[d] = "none" /\ effect'[d] # "none" => d = op' /\ pc' \in Injecting
  BY <1>1, <1>2, <1>7 DEF CallSound
<1>9. pc' \in Injecting /\ op' \notin Steers /\ call'.turn # NoTurn => effect'[op'] = "done"
  BY <1>1, <1>2, <1>5, <1>7 DEF CallSound
<1>10. pc' = "injecting" /\ call'.sent = 0 => effect'[op'] = "none"
  BY <1>1, <1>2, <1>5, <1>6, <1>7 DEF CallSound
<1>11. CallSound'
  BY <1>1, <1>7, <1>8, <1>9, <1>10 DEF CallSound
<1>12. Done \subseteq Done'
  BY <1>2 DEF Done
<1>. QED BY <1>4, <1>11, <1>12

LEMMA CallsKeep ==
  ASSUME Inv, [Next]_vars
  PROVE  CallTyped' /\ CallSound' /\ Done \subseteq Done'
<1>1. CallTyped /\ CallSound
  BY CallTypedFromInv DEF Inv
<1>2. pc # "idle" => op \in Calls
  BY <1>1 DEF CallTyped, CallSound
<1>3. effect' = effect => Done \subseteq Done'
  BY DEF Done
<1>4. op = "none" => pc \notin Injecting
  BY <1>1, AttachmentAssumption DEF CallSound
<1>5. ASSUME NEW c \in Calls, Begin(c) PROVE CallTyped' /\ CallSound' /\ effect' = effect
  <2>1. op = "none" /\ (c \in Commands => answer[c] = "none") /\ c # "none"
    BY <1>5, AttachmentAssumption DEF Begin, Calls
  <2>2. CASE Finish(c, "NotSubmitted")
    BY <2>1, <2>2, FinishKeeps DEF Outcomes, Finish
  <2>3. CASE Proceed(c)
    <3>1. effect' = effect
      BY <2>3 DEF Proceed, Finish, truth
    <3>. QED BY <1>4, <2>1, <2>3, <3>1, ProceedKeeps
  <2>4. CASE op' = c /\ pc' = "asking" /\ UNCHANGED <<call, truth>>
    <3>1. call' = call /\ effect' = effect /\ answer' = answer
      BY <2>4 DEF truth
    <3>2. pc' \in PCs /\ pc' \notin Injecting /\ pc' # "idle" /\ pc' # "injecting"
      BY <2>4 DEF PCs, Injecting
    <3>3. CallTyped'
      BY <1>1, <2>4, <3>1, <3>2 DEF CallTyped
    <3>4. \A d \in Commands : ~(answer[d] = "none" /\ effect[d] # "none")
      BY <1>1, <1>4, <2>1 DEF CallSound
    <3>5. CallSound'
      BY <2>1, <2>4, <3>1, <3>2, <3>4 DEF CallSound
    <3>. QED BY <3>1, <3>3, <3>5
  <2>. QED BY <1>5, <2>2, <2>3, <2>4 DEF Begin
<1>6. CASE Asked
  <2>1. op' = op /\ call' = call /\ effect' = effect /\ answer' = answer
    BY <1>6 DEF Asked, truth
  <2>2. pc = "asking" /\ pc' \in {"following", "followed"}
    BY <1>6 DEF Asked
  <2>3. /\ pc' \in PCs /\ pc' \notin Injecting /\ pc \notin Injecting
        /\ pc' # "idle" /\ pc # "idle" /\ pc' # "injecting"
    BY <2>2 DEF PCs, Injecting
  <2>4. CallTyped'
    BY <1>1, <2>1, <2>3 DEF CallTyped
  <2>5. CallSound'
    BY <1>1, <2>1, <2>3 DEF CallSound
  <2>. QED BY <1>3, <2>1, <2>4, <2>5
<1>7. CASE GivesUp \/ Synchronized
  <2>1. pc \in {"asking", "following", "followed"} /\ effect' = effect
    BY <1>7 DEF GivesUp, Synchronized, Finish, Proceed, truth
  <2>2. op \in Calls /\ pc \notin Injecting
    BY <1>2, <2>1 DEF Injecting
  <2>3. Finish(op, "NotSubmitted") \/ Proceed(op)
    BY <1>7 DEF GivesUp, Synchronized
  <2>4. CallTyped' /\ CallSound'
    BY <2>2, <2>3, FinishKeeps, ProceedKeeps DEF Outcomes
  <2>. QED BY <1>3, <2>1, <2>4
<1>8. CASE Write
  <2>. PICK g \in Links!Usable : call' = [call EXCEPT !.sent = g]
    BY <1>8 DEF Write
  <2>1. /\ op' = op /\ pc' = pc /\ answer' = answer /\ pc = "injecting" /\ call.sent = 0
        /\ effect' = [effect EXCEPT ![op] = "possible"]
        /\ call' = [call EXCEPT !.sent = g]
    BY <1>8 DEF Write, Written
  <2>2. op \in Commands /\ effect[op] = "none" /\ answer[op] = "none" /\ pc \in Injecting
    BY <1>1, <2>1 DEF CallSound, Injecting
  <2>3. g \in Nat \ {0}
    BY AttachmentAssumption DEF Inv, TypeOK, Links!Usable
  <2>4. call' \in CallType /\ call'.sent # 0 /\ call'.turn = call.turn
    BY <1>1, <2>1, <2>3 DEF CallTyped, CallType
  <2>5. effect' \in [Commands -> {"none", "possible", "done", "gone"}]
    BY <1>1, <2>1, <2>2 DEF CallTyped
  <2>6. CallTyped'
    BY <1>1, <2>1, <2>4, <2>5 DEF CallTyped
  <2>7. \A d \in Commands : d # op => effect'[d] = effect[d]
    BY <1>1, <2>1 DEF CallTyped
  <2>8. op \notin Steers => call.turn = NoTurn
    BY <1>1, <2>1, <2>2 DEF CallSound
  <2>9. CallSound'
    BY <1>1, <2>1, <2>2, <2>4, <2>7, <2>8 DEF CallSound
  <2>10. Done \subseteq Done'
    BY <2>2, <2>7 DEF Done
  <2>. QED BY <2>6, <2>9, <2>10
<1>9. CASE NotWritten \/ Refused \/ NotProven \/ Conclude
  <2>1. PICK a \in Outcomes : Finish(op, a)
    BY <1>9 DEF NotWritten, Refused, NotProven, Conclude, Outcomes
  <2>2. pc # "idle"
    BY <1>9 DEF NotWritten, Refused, NotProven, Conclude
  <2>3. effect' = effect
    BY <2>1 DEF Finish
  <2>. QED BY <1>2, <1>3, <2>1, <2>2, <2>3, FinishKeeps
<1>10. CASE Accepted \/ Unanswered
  <2>1. pc = "injecting" /\ call \in CallType
    BY <1>1, <1>10 DEF Accepted, Unanswered, Answerable, CallTyped
  <2>2. op \notin Steers /\ call.turn # NoTurn => effect[op] = "done"
    BY <1>1, <2>1 DEF CallSound, Injecting
  <2>3. CASE Prove(call)
    BY <1>3, <2>1, <2>2, <2>3, ProveKeeps DEF Prove, truth
  <2>4. ASSUME NEW t \in Turns, Prove([call EXCEPT !.turn = t]), effect[op] = "done"
        PROVE  CallTyped' /\ CallSound' /\ Done \subseteq Done'
    <3>1. [call EXCEPT !.turn = t] \in CallType
      BY <2>1 DEF CallType, MaybeTurn
    <3>. QED BY <1>3, <2>1, <2>4, <3>1, ProveKeeps DEF Prove, truth
  <2>. QED BY <1>10, <2>3, <2>4 DEF Accepted, Unanswered, TurnsOf
<1>11. CASE Snapshot \/ Patches \/ Disconnected \/ Reconnecting \/ Reconnected \/ Close
  <2>1. PICK v : pc' = Woken(v)
    BY <1>11 DEF Snapshot, Patches, Receive, Disconnected, Reconnecting, Reconnected, Close, See
  <2>2. UNCHANGED <<op, call, truth>>
    BY <1>11 DEF Snapshot, Patches, Receive, Disconnected, Reconnecting, Reconnected, Close
  <2>3. effect' = effect
    BY <2>2 DEF truth
  <2>. QED BY <1>3, <2>1, <2>2, <2>3, WokenKeeps
<1>12. CASE ResyncFails \/ Lose \/ UNCHANGED vars
  <2>1. UNCHANGED <<op, pc, call, effect, answer>>
    BY <1>12 DEF ResyncFails, Lose, running, truth, vars
  <2>. QED BY <2>1, WorldKeepsCalls
<1>13. CASE Desktop
  <2>1. UNCHANGED <<op, pc, call, answer>>
    BY <1>13 DEF Desktop, UserWorks, Takes, Loses, Edit, Revise, running
  <2>2. \/ effect' = effect
        \/ \E c \in Commands : /\ effect[c] = "possible"
                             /\ \E e \in {"done", "gone"} : effect' = [effect EXCEPT ![c] = e]
    BY <1>13 DEF Desktop, UserWorks, Takes, Loses
  <2>. QED BY <2>1, <2>2, WorldKeepsCalls
<1>. QED BY <1>3, <1>5, <1>6, <1>7, <1>8, <1>9, <1>10, <1>11, <1>12, <1>13
       DEF Next, Caller, Injection, Stream, Connection

-----------------------------------------------------------------------------
(* The owner's revisions *)

LogTyped == /\ log \in Seq([content: Contents, change: Change])
            /\ Len(log) \in 1..MaxRevisions

\* What Desktop's own user or a command it took makes of the conversation.
Revised(ch) ==
  /\ Len(log) < MaxRevisions
  /\ log' = Append(log, [content |-> Edited(Now, ch), change |-> ch])
  /\ view' = view

LEMMA NowIsSound == Inv => Sound(Now) /\ Now \in Contents
BY DEF Inv, TypeOK, LogSound, Now, Sound

\* Desktop makes legal changes, and shows only what it has taken.
LEMMA DesktopIsLegal ==
  ASSUME Inv, Desktop, log' # log
  PROVE  \E ch : Legal(Now, ch) /\ ch.ids \subseteq Done' /\ Revised(ch)
<1>1. Now \in Contents /\ Sound(Now) /\ Len(log) \in 1..Len(log)
  BY NowIsSound DEF Inv, TypeOK
<1>2. \A k \in Keys : Now[k] \in Entity /\ Now[k].ids \subseteq Done
  BY <1>1 DEF Contents, Inv, ShownIsDone, Now
<1>3. \A t : Unused(t) => NewTurn(Now, t)
  BY <1>1 DEF Unused, NewTurn, Now
<1>4. effect \in [Commands -> {"none", "possible", "done", "gone"}]
  BY DEF Inv, TypeOK
<1>5. ASSUME NEW kind, NEW k \in Keys, NEW t, NEW ids, Edit(kind, k, t, ids),
             Legal(Now, [kind |-> kind, key |-> k, turn |-> t, ids |-> ids]),
             ids \subseteq Done'
      PROVE  \E ch : Legal(Now, ch) /\ ch.ids \subseteq Done' /\ Revised(ch)
  <2>. DEFINE ch == [kind |-> kind, key |-> k, turn |-> t, ids |-> ids]
  <2>1. Revised(ch)
    BY <1>5 DEF Edit, Revise, Revised, attachment
  <2>2. ch.ids \subseteq Done'
    BY <1>5
  <2>3. Legal(Now, ch)
    BY <1>5
  <2>. HIDE DEF ch
  <2>. QED BY <2>1, <2>2, <2>3
<1>6. NewIds(Now, {})
  BY DEF NewIds
<1>7. CASE UserWorks
  <2>1. PICK k \in Keys :
          \/ /\ Now[k].status = "absent"
             /\ \E t \in Turns : Unused(t) /\ Edit("upsert", k, t, {})
          \/ /\ Now[k].status = "inProgress"
             /\ \E t \in Turns : Unused(t) /\ Edit("bind", k, t, {})
          \/ /\ Now[k].status = "inProgress" /\ Now[k].turn # NoTurn
             /\ Edit("status", k, NoTurn, {})
          \/ /\ Now[k].status # "absent"
             /\ Edit("remove", k, NoTurn, {})
    BY <1>7 DEF UserWorks
  <2>2. ASSUME NEW t \in Turns, Now[k].status = "absent", Unused(t), Edit("upsert", k, t, {})
        PROVE  \E ch : Legal(Now, ch) /\ ch.ids \subseteq Done' /\ Revised(ch)
    <3>1. Legal(Now, [kind |-> "upsert", key |-> k, turn |-> t, ids |-> {}])
      BY <1>3, <1>6, <2>2 DEF Legal, Change, MaybeTurn
    <3>. QED BY <1>5, <2>2, <3>1
  <2>3. ASSUME NEW t \in Turns, Now[k].status = "inProgress", Unused(t), Edit("bind", k, t, {})
        PROVE  \E ch : Legal(Now, ch) /\ ch.ids \subseteq Done' /\ Revised(ch)
    <3>1. Legal(Now, [kind |-> "bind", key |-> k, turn |-> t, ids |-> {}])
      BY <1>3, <1>6, <2>3 DEF Legal, Change, MaybeTurn
    <3>. QED BY <1>5, <2>3, <3>1
  <2>4. ASSUME Now[k].turn # NoTurn, Edit("status", k, NoTurn, {})
        PROVE  \E ch : Legal(Now, ch) /\ ch.ids \subseteq Done' /\ Revised(ch)
    <3>1. Legal(Now, [kind |-> "status", key |-> k, turn |-> NoTurn, ids |-> {}])
      BY <1>6, <2>4 DEF Legal, Change, MaybeTurn
    <3>. QED BY <1>5, <2>4, <3>1
  <2>5. ASSUME Edit("remove", k, NoTurn, {})
        PROVE  \E ch : Legal(Now, ch) /\ ch.ids \subseteq Done' /\ Revised(ch)
    <3>1. Legal(Now, [kind |-> "remove", key |-> k, turn |-> NoTurn, ids |-> {}])
      BY <1>6 DEF Legal, Change, MaybeTurn
    <3>. QED BY <1>5, <2>5, <3>1
  <2>. QED BY <2>1, <2>2, <2>3, <2>4, <2>5
<1>8. ASSUME NEW c \in Commands, Takes(c)
      PROVE  \E ch : Legal(Now, ch) /\ ch.ids \subseteq Done' /\ Revised(ch)
  <2>1. effect[c] = "possible" /\ effect' = [effect EXCEPT ![c] = "done"]
    BY <1>8 DEF Takes
  <2>2. {c} \subseteq Done' /\ c \notin Done
    BY <1>4, <2>1 DEF Done
  <2>3. NewIds(Now, {c})
    BY <1>2, <2>2 DEF NewIds
  <2>4. PICK k \in Keys :
          \/ /\ c \notin Steers /\ Now[k].status = "absent"
             /\ \E t \in MaybeTurn : (t # NoTurn => Unused(t)) /\ Edit("upsert", k, t, {c})
          \/ /\ c \in Steers /\ Now[k].status = "inProgress" /\ Now[k].turn = Aim[c]
             /\ Edit("message", k, NoTurn, {c})
    BY <1>8 DEF Takes
  <2>5. ASSUME NEW t \in MaybeTurn, Now[k].status = "absent", t # NoTurn => Unused(t),
               Edit("upsert", k, t, {c})
        PROVE  \E ch : Legal(Now, ch) /\ ch.ids \subseteq Done' /\ Revised(ch)
    <3>1. Legal(Now, [kind |-> "upsert", key |-> k, turn |-> t, ids |-> {c}])
      BY <1>3, <2>3, <2>5 DEF Legal, Change
    <3>. QED BY <1>5, <2>2, <2>5, <3>1
  <2>6. ASSUME c \in Steers, Now[k].turn = Aim[c], Edit("message", k, NoTurn, {c})
        PROVE  \E ch : Legal(Now, ch) /\ ch.ids \subseteq Done' /\ Revised(ch)
    <3>1. Now[k].turn # NoTurn
      BY <2>6, AttachmentAssumption, StateAssumption
    <3>2. Legal(Now, [kind |-> "message", key |-> k, turn |-> NoTurn, ids |-> {c}])
      BY <2>3, <3>1 DEF Legal, Change, MaybeTurn
    <3>. QED BY <1>5, <2>2, <2>6, <3>2
  <2>. QED BY <2>4, <2>5, <2>6
<1>9. \A c \in Commands : ~Loses(c)
  BY DEF Loses
<1>. QED BY <1>7, <1>8, <1>9 DEF Desktop

\* What a step does to the revisions.
LogKept == log' = log
LogCut == log' = <<log[Len(log)]>> /\ ~Ready(view')

LogShown == \A i \in 1..Len(log) : /\ log[i].change.ids \subseteq Done
                                 /\ \A k \in Keys : log[i].content[k].ids \subseteq Done

LEMMA LogMoves ==
  ASSUME Inv, [Next]_vars
  PROVE  LogKept \/ LogCut \/ \E ch : Legal(Now, ch) /\ ch.ids \subseteq Done' /\ Revised(ch)
<1>1. CASE Reconnecting
  <2>1. CASE tracked
    <3>1. view' = BeginFollowing(view, generation + 1)
      BY <1>1, <2>1 DEF Reconnecting, See
    <3>2. ~Ready(view')
      BY <3>1 DEF BeginFollowing, NewView, Ready
    <3>. QED BY <1>1, <3>2 DEF Reconnecting, Renumbered, LogKept, LogCut
  <2>2. CASE ~tracked
    <3>1. view' = view
      BY <1>1, <2>2 DEF Reconnecting, See
    <3>2. ~Ready(view')
      BY <2>2, <3>1 DEF Inv, UntrackedIsBlank
    <3>. QED BY <1>1, <3>2 DEF Reconnecting, Renumbered, LogKept, LogCut
  <2>. QED BY <2>1, <2>2
<1>2. CASE Caller \/ Injection
  BY <1>2 DEF LogKept, Caller, Begin, Asked, GivesUp, Synchronized, Injection, Write, NotWritten,
       Accepted, Refused, Unanswered, NotProven, Conclude, Prove
<1>3. CASE Stream \/ Lose \/ Disconnected \/ Reconnected \/ Close \/ UNCHANGED vars
  BY <1>3 DEF LogKept, Stream, Snapshot, Patches, ResyncFails, Receive, Lose, Disconnected,
       Reconnected, Close, vars
<1>4. CASE Desktop
  BY <1>4, DesktopIsLegal DEF LogKept
<1>. QED BY <1>1, <1>2, <1>3, <1>4 DEF Next, Connection

LEMMA LogsKeep ==
  ASSUME Inv, [Next]_vars
  PROVE  LogTyped' /\ LogSound' /\ LogShown'
<1>1. /\ LogTyped /\ LogSound /\ LogShown /\ Done \subseteq Done'
      /\ Len(log) \in Nat /\ Len(log) >= 1 /\ MaxRevisions \in Nat /\ MaxRevisions >= 1
  <2>1. LogTyped /\ LogSound /\ LogShown
    BY DEF Inv, TypeOK, LogTyped, ShownIsDone, LogShown
  <2>2. Done \subseteq Done'
    BY CallsKeep
  <2>3. MaxRevisions \in Nat /\ MaxRevisions >= 1
    BY AttachmentAssumption
  <2>. QED BY <2>1, <2>2, <2>3 DEF LogTyped
<1>. DEFINE Rev == [content: Contents, change: Change]
<1>2. CASE LogKept
  <2>1. log' = log
    BY <1>2 DEF LogKept
  <2>2. LogShown'
    BY <1>1, <2>1 DEF LogShown
  <2>. QED BY <1>1, <2>1, <2>2 DEF LogTyped, LogSound
<1>3. CASE LogCut
  <2>. DEFINE x == log[Len(log)]
  <2>1. x \in Rev
    <3>1. log \in Seq(Rev)
      BY <1>1 DEF LogTyped
    <3>. HIDE DEF Rev
    <3>. QED BY <1>1, <3>1
  <2>2. Sound(x.content) /\ x.change.ids \subseteq Done /\ \A k \in Keys : x.content[k].ids \subseteq Done
    BY <1>1 DEF LogSound, LogShown
  <2>3. log' = <<x>>
    BY <1>3 DEF LogCut
  <2>. HIDE DEF x, Rev
  <2>4. log' \in Seq(Rev) /\ Len(log') = 1 /\ log'[1] = x
    BY <2>1, <2>3
  <2>5. LogTyped'
    BY <1>1, <2>4 DEF LogTyped, Rev
  <2>6. LogSound'
    BY <2>2, <2>4 DEF LogSound
  <2>7. LogShown'
    BY <1>1, <2>2, <2>4 DEF LogShown
  <2>. QED BY <2>5, <2>6, <2>7
<1>4. ASSUME NEW ch, Legal(Now, ch), ch.ids \subseteq Done', Revised(ch)
      PROVE  LogTyped' /\ LogSound' /\ LogShown'
  <2>. DEFINE e == Edited(Now, ch)
              n == Len(log)
              x == [content |-> e, change |-> ch]
  <2>1. Sound(Now) /\ Now = log[n].content /\ Now \in Contents
    BY NowIsSound DEF Now
  <2>2. Sound(e) /\ ch \in Change /\ \A k \in Keys : e[k].ids \subseteq Now[k].ids \cup ch.ids
    BY <1>4, <2>1, EditedIsSound, EditedIds DEF Legal
  <2>3. x.content = e /\ x.change = ch /\ e \in Contents
    BY <2>2 DEF Sound
  <2>4. x \in Rev
    BY <2>2, <2>3
  <2>5. log' = Append(log, x) /\ n < MaxRevisions
    BY <1>4 DEF Revised
  <2>6. \A k \in Keys : Now[k].ids \subseteq Done
    BY <1>1, <2>1 DEF LogShown
  <2>7. \A k \in Keys : e[k].ids \subseteq Done'
    BY <1>1, <1>4, <2>2, <2>6
  <2>8. e = Edited(log[n].content, ch) /\ Legal(log[n].content, ch)
    BY <1>4, <2>1
  <2>. HIDE DEF e, x, Rev
  <2>9. /\ log \in Seq(Rev) /\ n \in Nat /\ log' \in Seq(Rev) /\ Len(log') = n + 1
        /\ log'[n + 1] = x /\ \A i \in 1..n : log'[i] = log[i]
    BY <1>1, <2>4, <2>5 DEF LogTyped, Rev
  <2>10. LogTyped'
    BY <1>1, <2>5, <2>9 DEF LogTyped, Rev
  <2>11. LogSound'
    <3>1. ASSUME NEW i \in 1..Len(log') PROVE Sound(log'[i].content)
      <4>1. CASE i = n + 1
        BY <2>2, <2>3, <2>9, <4>1
      <4>2. CASE i \in 1..n
        BY <1>1, <2>9, <4>2 DEF LogSound
      <4>. QED BY <2>9, <4>1, <4>2
    <3>2. ASSUME NEW i \in 1..Len(log'), i > 1
          PROVE  /\ Legal(log'[i - 1].content, log'[i].change)
                 /\ log'[i].content = Edited(log'[i - 1].content, log'[i].change)
      <4>1. CASE i = n + 1
        <5>1. log'[i] = x /\ log'[i - 1] = log[n] /\ i - 1 = n
          BY <1>1, <2>9, <4>1
        <5>. QED BY <2>3, <2>8, <5>1
      <4>2. CASE i \in 1..n
        <5>1. log'[i] = log[i] /\ log'[i - 1] = log[i - 1]
          BY <2>9, <3>2, <4>2
        <5>. QED BY <1>1, <3>2, <4>2, <5>1 DEF LogSound
      <4>. QED BY <2>9, <4>1, <4>2
    <3>. QED BY <3>1, <3>2 DEF LogSound
  <2>12. LogShown'
    <3>1. ASSUME NEW i \in 1..Len(log')
          PROVE  /\ log'[i].change.ids \subseteq Done'
                 /\ \A k \in Keys : log'[i].content[k].ids \subseteq Done'
      <4>1. CASE i = n + 1
        BY <1>4, <2>3, <2>7, <2>9, <4>1
      <4>2. CASE i \in 1..n
        BY <1>1, <2>9, <4>2 DEF LogShown
      <4>. QED BY <2>9, <4>1, <4>2
    <3>. QED BY <3>1 DEF LogShown
  <2>. QED BY <2>10, <2>11, <2>12
<1>. QED BY <1>2, <1>3, <1>4, LogMoves

-----------------------------------------------------------------------------
(* The view *)

\* Every other step leaves the view alone, or not to be trusted.
Aside == \/ view' = view
         \/ view' \in View /\ ~Ready(view') /\ view'.ids \subseteq view.ids

LEMMA ViewMoves ==
  ASSUME Inv, [Next]_vars
  PROVE  Snapshot \/ Patches \/ (Aside /\ (resyncing' => resyncing))
<1>1. view \in View /\ generation \in Nat /\ generation + 1 \in Nat
  BY AttachmentAssumption DEF Inv, TypeOK
<1>2. ASSUME NEW c \in Calls, Begin(c) PROVE Aside /\ (resyncing' => resyncing)
  <2>1. \/ view' = view \/ view' = BeginFollowing(view, generation)
        \/ view' = BeginConnecting(view)
    BY <1>2 DEF Begin
  <2>2. resyncing' = resyncing
    BY <1>2 DEF Begin
  <2>. QED BY <1>1, <2>1, <2>2, ViewOps DEF Aside
<1>3. CASE Asked \/ GivesUp \/ Synchronized \/ Injection \/ Lose \/ Desktop \/ UNCHANGED vars
  BY <1>3 DEF Aside, attachment, Asked, GivesUp, Synchronized, Injection, Write, NotWritten,
       Accepted, Refused, Unanswered, NotProven, Conclude, Prove, Lose, Desktop, UserWorks,
       Takes, Loses, Edit, Revise, vars
<1>4. CASE ResyncFails
  BY <1>4 DEF ResyncFails, Aside
<1>5. CASE Disconnected \/ Close
  <2>1. view' = view \/ view' = Disconnect(view)
    BY <1>5 DEF Disconnected, Close, See
  <2>2. resyncing' = FALSE
    BY <1>5 DEF Disconnected, Close
  <2>. QED BY <1>1, <2>1, <2>2, ViewOps DEF Aside
<1>6. CASE Reconnecting \/ Reconnected
  <2>1. \/ view' = view \/ view' = BeginFollowing(view, generation)
        \/ view' = BeginFollowing(view, generation + 1)
    BY <1>6 DEF Reconnecting, Reconnected, See
  <2>2. resyncing' = resyncing
    BY <1>6 DEF Reconnecting, Reconnected
  <2>. QED BY <1>1, <2>1, <2>2, ViewOps DEF Aside
<1>. QED BY <1>2, <1>3, <1>4, <1>5, <1>6 DEF Next, Caller, Stream, Connection

\* The types of the rest; a state once tracked stays tracked.
RestTyped == /\ tracked \in BOOLEAN /\ generation \in 1..MaxGenerations
             /\ resyncing \in BOOLEAN /\ closed \in BOOLEAN
             /\ up \subseteq 1..generation /\ adopted \in 0..generation

LEMMA RestKeeps ==
  ASSUME Inv, [Next]_vars
  PROVE  RestTyped' /\ (tracked => tracked')
<1>1. RestTyped /\ generation \in Nat /\ MaxGenerations \in Nat
  BY AttachmentAssumption DEF Inv, TypeOK, RestTyped
<1>2. ASSUME NEW c \in Calls, Begin(c) PROVE RestTyped' /\ (tracked => tracked')
  BY <1>1, <1>2 DEF Begin, RestTyped, session
<1>3. CASE Asked \/ GivesUp \/ Synchronized \/ Injection \/ Desktop \/ UNCHANGED vars
  <2>1. UNCHANGED <<tracked, generation, resyncing, closed, up, adopted>>
    BY <1>3 DEF attachment, session, Asked, GivesUp, Synchronized, Injection, Write, NotWritten,
         Accepted, Refused, Unanswered, NotProven, Conclude, Prove, Desktop, UserWorks,
         Takes, Loses, Edit, Revise, vars
  <2>. QED BY <1>1, <2>1 DEF RestTyped
<1>4. CASE Snapshot \/ Patches
  <2>1. resyncing' \in BOOLEAN
    BY <1>4, ReceiveKeeps
  <2>2. UNCHANGED <<tracked, generation, closed, up, adopted>>
    BY <1>4 DEF Snapshot, Patches, Receive, session
  <2>. QED BY <1>1, <2>1, <2>2 DEF RestTyped
<1>5. CASE ResyncFails
  BY <1>1, <1>5 DEF ResyncFails, session, RestTyped
<1>6. CASE Lose
  BY <1>1, <1>6 DEF Lose, Links!Lose, RestTyped
<1>7. CASE Disconnected
  BY <1>1, <1>7 DEF Disconnected, session, RestTyped
<1>8. CASE Reconnecting
  BY <1>1, <1>8 DEF Reconnecting, Links!Reconnecting, RestTyped
<1>9. CASE Reconnected
  BY <1>1, <1>9 DEF Reconnected, Links!Reconnected, RestTyped
<1>10. CASE Close
  <2>1. /\ up' = up \ {adopted, generation} /\ adopted' = 0 /\ generation' = generation
        /\ closed' = TRUE /\ resyncing' = FALSE /\ tracked' = tracked
    BY <1>10 DEF Close, Links!Close
  <2>2. up' \subseteq 1..generation' /\ adopted' \in 0..generation'
    BY <1>1, <2>1 DEF RestTyped
  <2>. QED BY <1>1, <2>1, <2>2 DEF RestTyped
<1>. QED BY <1>2, <1>3, <1>4, <1>5, <1>6, <1>7, <1>8, <1>9, <1>10
       DEF Next, Caller, Stream, Connection

LEMMA ViewKeeps ==
  ASSUME Inv, [Next]_vars
  PROVE  /\ view' \in View /\ view'.ids \subseteq Done'
         /\ ViewFaithful' /\ NoStaleResync' /\ UntrackedIsBlank'
<1>1. /\ view \in View /\ view.ids \subseteq Done /\ Done \subseteq Done'
      /\ ViewFaithful /\ NoStaleResync /\ UntrackedIsBlank
  <2>1. Done \subseteq Done'
    BY CallsKeep
  <2>. QED BY <2>1 DEF Inv, TypeOK, ShownIsDone
<1>2. CASE Snapshot \/ Patches
  <2>1. log' = log /\ tracked' = tracked /\ tracked
    BY <1>2 DEF Snapshot, Patches, Receive
  <2>2. /\ view' \in View /\ view'.ids \subseteq Done
        /\ Ready(view') => /\ view'.revision \in 1..Len(log)
                          /\ Mirrors(view', log[view'.revision].content)
        /\ resyncing' => ~Ready(view')
    BY <1>2, ReceiveKeeps
  <2>3. ViewFaithful'
    BY <2>1, <2>2 DEF ViewFaithful
  <2>. QED BY <1>1, <2>1, <2>2, <2>3 DEF NoStaleResync, UntrackedIsBlank
<1>3. CASE Aside /\ (resyncing' => resyncing)
  <2>1. view' \in View /\ view'.ids \subseteq Done' /\ (Ready(view') => view' = view)
    BY <1>1, <1>3 DEF Aside
  <2>2. tracked => tracked'
    BY RestKeeps
  <2>3. NoStaleResync' /\ UntrackedIsBlank'
    BY <1>1, <1>3, <2>1, <2>2 DEF NoStaleResync, UntrackedIsBlank
  <2>4. ASSUME Ready(view')
        PROVE  /\ view'.revision \in 1..Len(log')
               /\ Mirrors(view', log'[view'.revision].content)
    <3>1. view' = view /\ view.revision \in 1..Len(log) /\ Mirrors(view, log[view.revision].content)
      BY <1>1, <2>1, <2>4 DEF ViewFaithful
    <3>2. CASE LogKept
      BY <3>1, <3>2 DEF LogKept
    <3>3. CASE LogCut
      BY <2>4, <3>3 DEF LogCut
    <3>4. ASSUME NEW ch, Revised(ch)
          PROVE  1..Len(log) \subseteq 1..Len(log') /\ \A i \in 1..Len(log) : log'[i] = log[i]
      <4>. DEFINE x == [content |-> Edited(Now, ch), change |-> ch]
      <4>1. log' = Append(log, x)
        BY <3>4 DEF Revised
      <4>2. Len(log) \in Nat /\ log \in Seq([content: Contents, change: Change])
        BY DEF Inv, TypeOK
      <4>. HIDE DEF x
      <4>. QED BY <4>1, <4>2
    <3>5. ASSUME NEW ch, Revised(ch)
          PROVE  /\ view'.revision \in 1..Len(log')
                 /\ Mirrors(view', log'[view'.revision].content)
      BY <3>1, <3>4, <3>5
    <3>. QED BY <3>2, <3>3, <3>5, LogMoves
  <2>5. ViewFaithful'
    BY <2>4 DEF ViewFaithful
  <2>. QED BY <2>1, <2>3, <2>5
<1>. QED BY <1>2, <1>3, ViewMoves

LEMMA InvStep == Inv /\ [Next]_vars => Inv'
<1>. SUFFICES ASSUME Inv, [Next]_vars PROVE Inv'
  OBVIOUS
<1>1. /\ CallTyped' /\ CallSound' /\ LogTyped' /\ LogSound' /\ LogShown' /\ RestTyped'
  BY CallsKeep, LogsKeep, RestKeeps
<1>2. /\ view' \in View /\ view'.ids \subseteq Done'
      /\ ViewFaithful' /\ NoStaleResync' /\ UntrackedIsBlank'
  BY ViewKeeps
<1>3. TypeOK'
  BY <1>1, <1>2 DEF TypeOK, CallTyped, CallType, LogTyped, RestTyped
<1>4. ShownIsDone'
  BY <1>1, <1>2 DEF ShownIsDone, LogShown
<1>. QED BY <1>1, <1>2, <1>3, <1>4 DEF Inv

-----------------------------------------------------------------------------
(* Theorems *)

LEMMA Invariant == Spec => []Inv
BY InitInv, InvStep, PTL DEF Spec

\* Every variable keeps its type.
THEOREM TypeCorrect == Spec => []TypeOK
<1>1. Inv => TypeOK
  BY DEF Inv
<1>. QED BY <1>1, Invariant, PTL

\* A synchronized view is the owner's conversation at the view's revision,
\* whichever broadcasts were lost, repeated or out of order on the way.
THEOREM FaithfulView == Spec => []ViewFaithful
<1>1. Inv => ViewFaithful
  BY DEF Inv
<1>. QED BY <1>1, Invariant, PTL

\* A view is not trusted while a reload of the history is outstanding.
THEOREM ResyncIsCurrent == Spec => []NoStaleResync
<1>1. Inv => NoStaleResync
  BY DEF Inv
<1>. QED BY <1>1, Invariant, PTL

-----------------------------------------------------------------------------
(* The contract *)

LEMMA InitContract == Init => Contract!Init
BY DEF Init, Contract!Init

\* An injection is proven only if its command took effect.
LEMMA ProvenIsDone ==
  ASSUME Inv, pc = "proved", ProvenTurns(view, call) # {}
  PROVE  effect[op] = "done"
<1>1. op \in Commands /\ view.ids \subseteq Done /\ pc \in Injecting
  BY DEF Inv, CallSound, ShownIsDone, Injecting
<1>2. CASE call.turn # NoTurn /\ Proves(view, call, call.turn)
  <2>1. CASE op \in Steers
    <3>1. HasDelivery(view, op)
      BY <1>2, <2>1 DEF Proves, HasDeliveryOn
    <3>. QED BY <1>1, <3>1 DEF HasDelivery, Done
  <2>2. CASE op \notin Steers
    BY <1>1, <1>2, <2>2 DEF Inv, CallSound
  <2>. QED BY <2>1, <2>2
<1>3. CASE ~(call.turn # NoTurn /\ Proves(view, call, call.turn))
  <2>1. HasDelivery(view, op)
    BY <1>3 DEF ProvenTurns, DeliverySeen
  <2>. QED BY <1>1, <2>1 DEF HasDelivery, Done
<1>. QED BY <1>2, <1>3

\* A call that ends with an outcome its effect allows.
LEMMA FinishAnswers ==
  ASSUME Inv, NEW c \in Calls, NEW a \in Outcomes, Finish(c, a),
         c \in Commands => answer[c] = "none" /\ Contract!Allowed(a, effect[c])
  PROVE  [Contract!Next]_<<effect, answer>>
<1>1. CASE c = "resume"
  BY <1>1 DEF Finish
<1>2. CASE c # "resume"
  <2>1. c \in Commands /\ answer' = [answer EXCEPT ![c] = a] /\ effect' = effect
    BY <1>2 DEF Finish, Calls
  <2>2. Contract!Answer(c)
    BY <2>1 DEF Contract!Answer, Outcomes
  <2>. QED BY <2>1, <2>2 DEF Contract!Next
<1>. QED BY <1>1, <1>2

LEMMA StepContract ==
  ASSUME Inv, [Next]_vars
  PROVE  [Contract!Next]_<<effect, answer>>
<1>1. CallTyped /\ CallSound
  BY CallTypedFromInv DEF Inv
<1>2. pc # "idle" => op \in Calls
  BY <1>1 DEF CallTyped, CallSound
<1>3. ASSUME effect' = effect, answer' = answer PROVE [Contract!Next]_<<effect, answer>>
  BY <1>3
<1>4. \A a \in {"NotSubmitted", "Rejected"} : \A e \in {"none", "gone"} : Contract!Allowed(a, e)
  BY DEF Contract!Allowed
<1>5. \A e : Contract!Allowed("Ambiguous", e) /\ Contract!Allowed("Confirmed", "done")
  BY DEF Contract!Allowed
<1>6. pc \notin Injecting => \A c \in Commands : answer[c] = "none" => effect[c] = "none"
  BY <1>1 DEF CallSound
<1>7. op = "none" => pc \notin Injecting
  BY <1>1, AttachmentAssumption DEF CallSound
<1>8. op \in Commands => answer[op] = "none"
  BY <1>1 DEF CallSound
<1>9. ASSUME NEW c \in Calls, Begin(c) PROVE [Contract!Next]_<<effect, answer>>
  <2>1. c \in Commands => answer[c] = "none" /\ effect[c] = "none"
    BY <1>6, <1>7, <1>9 DEF Begin
  <2>2. Finish(c, "NotSubmitted") \/ (effect' = effect /\ answer' = answer)
    BY <1>9 DEF Begin, Proceed, truth
  <2>. QED BY <1>3, <1>4, <2>1, <2>2, FinishAnswers DEF Outcomes
<1>10. CASE GivesUp \/ Synchronized
  <2>1. pc \in {"asking", "following", "followed"}
    BY <1>10 DEF GivesUp, Synchronized
  <2>2. op \in Calls /\ (op \in Commands => answer[op] = "none" /\ effect[op] = "none")
    BY <1>2, <1>6, <1>8, <2>1 DEF Injecting
  <2>3. Finish(op, "NotSubmitted") \/ (effect' = effect /\ answer' = answer)
    BY <1>10 DEF GivesUp, Synchronized, Proceed, truth
  <2>. QED BY <1>3, <1>4, <2>2, <2>3, FinishAnswers DEF Outcomes
<1>11. CASE Write
  <2>1. /\ answer' = answer /\ pc = "injecting" /\ call.sent = 0
        /\ effect' = [effect EXCEPT ![op] = "possible"]
    BY <1>11 DEF Write, Written
  <2>2. op \in Commands /\ effect[op] = "none" /\ answer[op] = "none"
    BY <1>1, <2>1 DEF CallSound, Injecting
  <2>3. Contract!Write(op)
    BY <2>1, <2>2 DEF Contract!Write
  <2>. QED BY <2>2, <2>3 DEF Contract!Next
<1>12. CASE NotWritten \/ Refused \/ NotProven \/ Conclude
  <2>1. pc \in Injecting /\ pc # "idle"
    BY <1>12 DEF NotWritten, Refused, NotProven, Conclude, Injecting
  <2>2. op \in Commands /\ op \in Calls /\ answer[op] = "none"
    BY <1>1, <1>2, <2>1 DEF CallSound
  <2>3. CASE NotWritten
    <3>1. effect[op] = "none" /\ Finish(op, "NotSubmitted")
      BY <1>1, <2>3 DEF NotWritten, Written, CallSound
    <3>. QED BY <1>4, <2>2, <3>1, FinishAnswers DEF Outcomes
  <2>4. CASE Refused
    <3>1. effect[op] = "gone" /\ \E a \in {"NotSubmitted", "Rejected"} : Finish(op, a)
      BY <2>4 DEF Refused, Refusal
    <3>. QED BY <1>4, <2>2, <3>1, FinishAnswers DEF Outcomes
  <2>5. CASE NotProven
    <3>1. Finish(op, "Ambiguous")
      BY <2>5 DEF NotProven
    <3>. QED BY <1>5, <2>2, <3>1, FinishAnswers DEF Outcomes
  <2>6. CASE Conclude
    <3>1. CASE ProvenTurns(view, call) # {}
      <4>1. effect[op] = "done" /\ Finish(op, "Confirmed")
        BY <2>6, <3>1, ProvenIsDone DEF Conclude
      <4>. QED BY <1>5, <2>2, <4>1, FinishAnswers DEF Outcomes
    <3>2. CASE ProvenTurns(view, call) = {}
      <4>1. Finish(op, "Ambiguous")
        BY <2>6, <3>2 DEF Conclude
      <4>. QED BY <1>5, <2>2, <4>1, FinishAnswers DEF Outcomes
    <3>. QED BY <3>1, <3>2
  <2>. QED BY <1>12, <2>3, <2>4, <2>5, <2>6
<1>13. CASE Desktop
  <2>1. answer' = answer
    BY <1>13 DEF Desktop, UserWorks, Takes, Loses, Edit, Revise
  <2>2. \/ effect' = effect
        \/ \E c \in Commands :
             /\ effect[c] = "possible"
             /\ \E e \in {"done", "gone"} : effect' = [effect EXCEPT ![c] = e]
    BY <1>13 DEF Desktop, UserWorks, Takes, Loses
  <2>3. ASSUME NEW c \in Commands, effect[c] = "possible",
               \E e \in {"done", "gone"} : effect' = [effect EXCEPT ![c] = e]
        PROVE  [Contract!Next]_<<effect, answer>>
    <3>1. Contract!Settle(c)
      BY <2>1, <2>3 DEF Contract!Settle
    <3>. QED BY <3>1 DEF Contract!Next
  <2>. QED BY <1>3, <2>1, <2>2, <2>3
<1>14. CASE Asked \/ Accepted \/ Unanswered \/ Stream \/ Connection \/ UNCHANGED vars
  <2>1. effect' = effect /\ answer' = answer
    BY <1>14 DEF Asked, Accepted, Unanswered, Prove, Stream, Snapshot, Patches, ResyncFails,
         Receive, Connection, Lose, Disconnected, Reconnecting, Reconnected, Close, truth, vars
  <2>. QED BY <1>3, <2>1
<1>. QED BY <1>9, <1>10, <1>11, <1>12, <1>13, <1>14 DEF Next, Caller, Injection

\* The attachment implements what the coordinator relies on: Confirmed means
\* that the command took effect, NotSubmitted and Rejected that it never will.
THEOREM ContractKept == Spec => KeepsContract
<1>1. Init => Contract!Init
  BY InitContract
<1>2. Inv /\ [Next]_vars => [Contract!Next]_<<effect, answer>>
  BY StepContract
<1>. QED BY <1>1, <1>2, Invariant, PTL DEF Spec, KeepsContract, Contract!Spec, Contract!contractVars

-----------------------------------------------------------------------------
(* Baselines *)

\* While it is of the present connection, the baseline of an injection is what
\* the owner's conversation was at the baseline's revision, without the command.
BaseOf(c, turns, revisions) ==
  /\ \A t \in Turns : Has(revisions.content, t) => t \in turns
  /\ \A k \in Keys : c \notin revisions.content[k].ids

Baselined ==
  /\ Ready(view) => view.generation = generation
  /\ pc \in Injecting => call.generation <= generation
  /\ pc \in Injecting /\ op \in Steers => call.turn = Aim[op]
  /\ pc \in Injecting /\ call.generation = generation =>
       call.revision \in 1..Len(log) /\ BaseOf(op, call.turns, log[call.revision])

Grown == Len(log) <= Len(log') /\ \A i \in 1..Len(log) : log'[i] = log[i]

\* A numbering only grows, and ends with its connection.
LEMMA NumberingMoves ==
  ASSUME Inv, [Next]_vars
  PROVE  \/ generation' = generation + 1 /\ ~Ready(view')
         \/ generation' = generation /\ Grown
<1>1. /\ log \in Seq([content: Contents, change: Change]) /\ Len(log) \in Nat
      /\ generation \in Nat
  BY AttachmentAssumption DEF Inv, TypeOK
<1>2. CASE Reconnecting
  <2>1. generation' = generation + 1
    BY <1>2 DEF Reconnecting
  <2>2. view' = IF tracked THEN BeginFollowing(view, generation + 1) ELSE view
    BY <1>2 DEF Reconnecting, See
  <2>3. CASE tracked
    BY <2>1, <2>2, <2>3 DEF BeginFollowing, NewView, Ready
  <2>4. CASE ~tracked
    BY <2>1, <2>2, <2>4 DEF Inv, UntrackedIsBlank
  <2>. QED BY <2>3, <2>4
<1>3. CASE Desktop
  <2>1. generation' = generation
    BY <1>3 DEF Desktop, UserWorks, Takes, Loses, Edit, Revise, attachment
  <2>2. CASE log' = log
    BY <1>1, <2>1, <2>2 DEF Grown
  <2>3. CASE log' # log
    <3>1. PICK ch : Revised(ch)
      BY <1>3, <2>3, DesktopIsLegal
    <3>. DEFINE x == [content |-> Edited(Now, ch), change |-> ch]
    <3>2. log' = Append(log, x)
      BY <3>1 DEF Revised
    <3>. HIDE DEF x
    <3>3. Grown
      BY <1>1, <3>2 DEF Grown
    <3>. QED BY <2>1, <3>3
  <2>. QED BY <2>2, <2>3
<1>4. CASE Caller \/ Injection \/ Stream \/ Lose \/ Disconnected \/ Reconnected \/ Close \/ UNCHANGED vars
  <2>1. log' = log /\ generation' = generation
    <3>1. CASE Caller
      BY <3>1 DEF Caller, Begin, Asked, GivesUp, Synchronized, attachment
    <3>2. CASE Injection
      BY <3>2 DEF Injection, Write, NotWritten, Accepted, Refused, Unanswered, NotProven,
           Conclude, Prove, attachment
    <3>3. CASE Stream \/ Lose \/ Disconnected \/ Reconnected \/ Close \/ UNCHANGED vars
      BY <3>3 DEF Stream, Snapshot, Patches, ResyncFails, Receive, Lose, Disconnected,
           Reconnected, Close, Links!Lose, Links!Reconnected, Links!Close, attachment, vars
    <3>. QED BY <1>4, <3>1, <3>2, <3>3
  <2>. QED BY <1>1, <2>1 DEF Grown
<1>. QED BY <1>2, <1>3, <1>4 DEF Next, Connection

\* Patches and snapshots leave the view on its connection.
LEMMA PatchedConnection ==
  ASSUME NEW v \in View, NEW m, m.change \in Change
  PROVE  Patched(v, m).generation = v.generation
<1>. DEFINE p == WithDelta(v, m.change)
<1>1. p.generation = v.generation
  BY DEF WithDelta, BindTurn, Forget, View
<1>. QED BY <1>1 DEF Patched, WithDeliveries

LEMMA RebuiltConnection ==
  ASSUME NEW v \in View, NEW m
  PROVE  Rebuilt(v, m).generation = v.generation
BY DEF Rebuilt, View

LEMMA ReadyIsCurrent ==
  ASSUME Inv, [Next]_vars, Ready(view) => view.generation = generation, Ready(view')
  PROVE  view'.generation = generation'
<1>1. view \in View
  BY DEF Inv, TypeOK
<1>2. CASE view' = view
  <2>1. generation' = generation
    BY NumberingMoves
  <2>. QED BY <1>2, <2>1
<1>3. CASE Snapshot \/ Patches
  <2>. DEFINE patch(r) == [tag |-> "Patches", base |-> r - 1,
                           revision |-> r, change |-> log[r].change]
  <2>1. PICK m : Receive(m) /\ (m.tag = "Snapshot" \/ \E r \in 1..Len(log) : m = patch(r))
    <3>1. CASE Snapshot
      BY <3>1 DEF Snapshot
    <3>2. CASE Patches
      BY <3>2 DEF Patches
    <3>. QED BY <1>3, <3>1, <3>2
  <2>2. \A r \in 1..Len(log) : log[r].change \in Change
    <3>. DEFINE Rev == [content: Contents, change: Change]
    <3>1. log \in Seq(Rev)
      BY DEF Inv, TypeOK
    <3>2. \A x \in Rev : x.change \in Change
      OBVIOUS
    <3>. HIDE DEF Rev, patch
    <3>3. \A r \in 1..Len(log) : log[r] \in Rev
      BY <3>1
    <3>. QED BY <3>2, <3>3
  <2>3. m.tag \in {"Snapshot", "Patches"} /\ (m.tag = "Patches" => m.change \in Change)
    <3>1. CASE m.tag = "Snapshot"
      BY <3>1
    <3>2. ASSUME NEW r \in 1..Len(log), m = patch(r)
          PROVE  m.tag = "Patches" /\ m.change \in Change
      <4>1. m.tag = "Patches" /\ m.change = log[r].change
        BY <3>2
      <4>. QED BY <2>2, <4>1
    <3>. QED BY <2>1, <3>1, <3>2
  <2>4. view' = Apply(view, m, generation) /\ generation' = generation
    BY <2>1 DEF Receive, See
  <2>5. Verdict(view, m, generation) \in {"ignored", "resync", "applied"}
    BY DEF Verdict
  <2>6. CASE Verdict(view, m, generation) = "ignored"
    BY <1>2, <2>4, <2>6 DEF Apply
  <2>7. CASE Verdict(view, m, generation) = "resync"
    BY <1>1, <2>4, <2>7, ViewOps DEF Apply
  <2>8. CASE Verdict(view, m, generation) = "applied"
    <3>1. view.generation = generation
      BY <2>8 DEF Verdict
    <3>2. view'.generation = view.generation
      BY <1>1, <2>3, <2>4, <2>8, RebuiltConnection, PatchedConnection DEF Apply
    <3>. QED BY <2>4, <3>1, <3>2
  <2>. QED BY <2>5, <2>6, <2>7, <2>8
<1>. QED BY <1>2, <1>3, ViewMoves DEF Aside

\* An injection that is not yet under way takes its baseline, from a view that
\* is synchronized and before its command is written; one that is keeps it.
Captures ==
  /\ pc \notin Injecting /\ Ready(view) /\ op' \in Commands /\ effect[op'] = "none"
  /\ call' = Capture(view, op') /\ log' = log /\ generation' = generation

KeepsBase ==
  /\ pc \in Injecting /\ op' = op /\ call'.generation = call.generation
  /\ call'.revision = call.revision /\ call'.turns = call.turns
  /\ op \in Steers => call'.turn = call.turn

LEMMA BaseMoves ==
  ASSUME Inv, [Next]_vars, pc' \in Injecting
  PROVE  Captures \/ KeepsBase
<1>1. CallTyped /\ CallSound
  BY CallTypedFromInv DEF Inv
<1>2. op = "none" => pc \notin Injecting
  BY <1>1, AttachmentAssumption DEF CallSound
<1>3. ASSUME NEW c \in Calls, Begin(c) PROVE Captures
  <2>1. op = "none" /\ (c \in Commands => answer[c] = "none")
    BY <1>3 DEF Begin
  <2>2. Ready(view) /\ Proceed(c) /\ generation' = generation /\ log' = log
    BY <1>3 DEF Begin, Finish, Injecting
  <2>3. op' = c /\ c # "resume" /\ call' = Capture(view, c)
    BY <2>2 DEF Proceed, Finish, Injecting
  <2>4. c \in Commands /\ effect[c] = "none"
    BY <1>1, <1>2, <2>1, <2>3 DEF Calls, CallSound
  <2>. QED BY <1>2, <2>1, <2>2, <2>3, <2>4 DEF Captures
<1>4. CASE Synchronized
  <2>1. pc \notin Injecting /\ pc # "idle"
    BY <1>4 DEF Synchronized, Injecting
  <2>2. Ready(view) /\ Proceed(op) /\ generation' = generation /\ log' = log
    BY <1>4 DEF Synchronized, Finish, Injecting, attachment
  <2>3. op' = op /\ op # "resume" /\ call' = Capture(view, op)
    BY <2>2 DEF Proceed, Finish, Injecting
  <2>4. op \in Commands /\ effect[op] = "none"
    BY <1>1, <2>1, <2>3 DEF Calls, CallTyped, CallSound
  <2>. QED BY <2>1, <2>2, <2>3, <2>4 DEF Captures
<1>5. CASE Asked \/ GivesUp \/ NotWritten \/ Refused \/ NotProven \/ Conclude
  BY <1>5 DEF Asked, GivesUp, NotWritten, Refused, NotProven, Conclude, Finish, Injecting
<1>6. CASE Write
  <2>1. pc \in Injecting /\ op' = op /\ \E g : call' = [call EXCEPT !.sent = g]
    BY <1>6 DEF Write, Injecting
  <2>. QED BY <1>1, <2>1 DEF KeepsBase, CallTyped, CallType
<1>7. CASE Accepted \/ Unanswered
  <2>1. pc \in Injecting /\ op' = op
    BY <1>7 DEF Accepted, Answerable, Unanswered, Prove, Injecting
  <2>2. \/ call' = call
        \/ op \notin Steers /\ \E t : call' = [call EXCEPT !.turn = t]
    BY <1>7 DEF Accepted, Unanswered, Prove
  <2>. QED BY <1>1, <2>1, <2>2 DEF KeepsBase, CallTyped, CallType
<1>8. CASE Snapshot \/ Patches \/ Disconnected \/ Reconnecting \/ Reconnected \/ Close
  <2>1. PICK v : pc' = Woken(v)
    BY <1>8 DEF Snapshot, Patches, Receive, Disconnected, Reconnecting, Reconnected, Close, See
  <2>2. op' = op /\ call' = call
    BY <1>8 DEF Snapshot, Patches, Receive, Disconnected, Reconnecting, Reconnected, Close
  <2>3. pc \in Injecting
    BY <2>1 DEF Woken, Injecting
  <2>. QED BY <2>2, <2>3 DEF KeepsBase
<1>9. CASE ResyncFails \/ Lose \/ Desktop \/ UNCHANGED vars
  <2>1. op' = op /\ call' = call /\ pc' = pc
    BY <1>9 DEF ResyncFails, Lose, Desktop, UserWorks, Takes, Loses, Edit, Revise, running, vars
  <2>. QED BY <2>1 DEF KeepsBase
<1>. QED BY <1>3, <1>4, <1>5, <1>6, <1>7, <1>8, <1>9
       DEF Next, Caller, Injection, Stream, Connection

\* The baseline that a synchronized view gives is the owner's conversation.
LEMMA CaptureBaselined ==
  ASSUME Inv, Baselined, Captures
  PROVE  /\ call'.generation = generation /\ call'.revision \in 1..Len(log)
         /\ BaseOf(op', call'.turns, log[call'.revision])
         /\ op' \in Steers => call'.turn = Aim[op']
<1>1. /\ call'.generation = view.generation /\ call'.revision = view.revision
      /\ op' \in Steers => call'.turn = Aim[op']
      /\ call'.turns = Observed(view)
  BY DEF Captures, Capture
<1>2. view.generation = generation /\ view.revision \in 1..Len(log)
  BY DEF Captures, Baselined, Inv, ViewFaithful
<1>. DEFINE now == log[view.revision].content
<1>3. Mirrors(view, now) /\ Sound(now)
  BY <1>2 DEF Captures, Inv, ViewFaithful, LogSound
<1>4. ASSUME NEW t \in Turns, Has(now, t) PROVE t \in Observed(view)
  <2>1. PICK k \in Keys : now[k].turn = t
    BY <1>4 DEF Has
  <2>2. view.status[t] = now[k].status /\ now[k].status \in {"absent", "inProgress", "ended"}
    BY <1>3, <2>1, StateAssumption DEF Mirrors, Sound, Contents, Entity
  <2>. QED BY <2>2 DEF Observed
<1>5. \A k \in Keys : op' \notin now[k].ids
  <2>1. op' \notin Done
    BY DEF Captures, Done
  <2>2. \A k \in Keys : now[k].ids \subseteq Done
    BY <1>2 DEF Inv, ShownIsDone
  <2>. QED BY <2>1, <2>2
<1>. QED BY <1>1, <1>2, <1>4, <1>5 DEF BaseOf

LEMMA BaselinedStep == Inv /\ Baselined /\ [Next]_vars => Baselined'
<1>. SUFFICES ASSUME Inv, Baselined, [Next]_vars PROVE Baselined'
  OBVIOUS
<1>1. Ready(view') => view'.generation = generation'
  BY ReadyIsCurrent DEF Baselined
<1>2. generation \in Nat /\ Len(log) \in Nat /\ Len(log') \in Nat /\ call.generation \in Nat
  <2>1. CallTyped /\ LogTyped'
    BY CallTypedFromInv, LogsKeep
  <2>. QED BY <2>1, AttachmentAssumption DEF Inv, TypeOK, CallTyped, CallType, LogTyped
<1>3. CASE pc' \in Injecting /\ Captures
  <2>1. /\ call'.generation = generation /\ call'.revision \in 1..Len(log)
        /\ BaseOf(op', call'.turns, log[call'.revision])
        /\ op' \in Steers => call'.turn = Aim[op']
    BY <1>3, CaptureBaselined
  <2>2. log' = log /\ generation' = generation
    BY <1>3 DEF Captures
  <2>. QED BY <1>1, <1>2, <2>1, <2>2 DEF Baselined
<1>4. CASE pc' \in Injecting /\ KeepsBase
  <2>1. call'.generation <= generation' /\ (call'.generation = generation' => generation' = generation)
    BY <1>2, <1>4, NumberingMoves DEF KeepsBase, Baselined
  <2>2. ASSUME call'.generation = generation'
        PROVE  call'.revision \in 1..Len(log') /\ BaseOf(op', call'.turns, log'[call'.revision])
    <3>1. generation' = generation /\ Grown
      BY <1>2, <2>1, <2>2, NumberingMoves
    <3>2. call.revision \in 1..Len(log) /\ BaseOf(op, call.turns, log[call.revision])
      BY <1>4, <2>2, <3>1 DEF KeepsBase, Baselined
    <3>3. call.revision \in 1..Len(log') /\ log'[call.revision] = log[call.revision]
      BY <1>2, <3>1, <3>2 DEF Grown
    <3>. QED BY <1>4, <3>2, <3>3 DEF KeepsBase
  <2>3. op' \in Steers => call'.turn = Aim[op']
    BY <1>4 DEF KeepsBase, Baselined
  <2>. QED BY <1>1, <2>1, <2>2, <2>3 DEF Baselined
<1>5. CASE pc' \notin Injecting
  BY <1>1, <1>5 DEF Baselined
<1>. QED BY <1>3, <1>4, <1>5, BaseMoves

\* What proves an injection is in the owner's conversation, and was not there
\* at the baseline.
LEMMA ProofIsAppearance ==
  ASSUME Inv, Baselined, pc = "proved", ProvenTurns(view, call) # {}
  PROVE  AppearedBetween(op, call.revision, view.revision)
<1>1. op \in Commands /\ pc \in Injecting /\ call.revision \in Nat /\ view.revision \in Nat
  BY CallTypedFromInv DEF Inv, TypeOK, View, CallSound, Injecting, CallTyped, CallType
<1>2. PICK t \in Turns :
        /\ Newer(view, call)
        /\ IF op \in Steers THEN t = Aim[op] /\ HasDeliveryOn(view, op, t)
           ELSE t \in Observed(view) /\ t \notin call.turns
  <2>1. CASE call.turn # NoTurn /\ Proves(view, call, call.turn)
    <3>1. Newer(view, call) /\ call.turn \in Observed(view)
      BY <2>1 DEF Proves
    <3>2. CASE op \in Steers
      <4>1. call.turn = Aim[op]
        BY <1>1, <3>2 DEF Baselined
      <4>. QED BY <2>1, <3>1, <3>2, <4>1 DEF Proves, Observed
    <3>3. CASE op \notin Steers
      BY <2>1, <3>1, <3>3 DEF Proves, Observed
    <3>. QED BY <3>2, <3>3
  <2>2. CASE ~(call.turn # NoTurn /\ Proves(view, call, call.turn))
    BY <2>2 DEF ProvenTurns, Novel
  <2>. QED BY <2>1, <2>2
<1>3. view.revision \in 1..Len(log) /\ Mirrors(view, log[view.revision].content)
  BY <1>2 DEF Newer, Inv, ViewFaithful
<1>4. call.generation = generation /\ call.revision < view.revision
  BY <1>1, <1>2 DEF Newer, Baselined
<1>5. call.revision \in 1..Len(log) /\ BaseOf(op, call.turns, log[call.revision])
  BY <1>1, <1>4 DEF Baselined
<1>6. CASE op \in Steers
  <2>1. On(log[view.revision].content, op, Aim[op])
    BY <1>1, <1>2, <1>3, <1>6, StateAssumption DEF HasDeliveryOn, Mirrors, On
  <2>2. ~On(log[call.revision].content, op, Aim[op])
    BY <1>5 DEF BaseOf, On
  <2>. QED BY <1>3, <1>4, <1>5, <1>6, <2>1, <2>2 DEF AppearedBetween
<1>7. CASE op \notin Steers
  <2>1. Has(log[view.revision].content, t)
    BY <1>2, <1>3, <1>7 DEF Mirrors, Has
  <2>2. ~Has(log[call.revision].content, t)
    BY <1>2, <1>5, <1>7 DEF BaseOf
  <2>. QED BY <1>3, <1>4, <1>5, <1>7, <2>1, <2>2 DEF AppearedBetween
<1>. QED BY <1>6, <1>7

LEMMA BaselineInvariant == Spec => []Baselined
<1>1. Init => Baselined
  BY DEF Init, Baselined, NewView, Ready, Injecting
<1>. QED BY <1>1, BaselinedStep, Invariant, PTL DEF Spec

\* A step that confirms an injection is the end of its proof.
LEMMA ConfirmedByProof ==
  ASSUME Inv, [Next]_vars, NEW c \in Commands, Confirms(c)
  PROVE  pc = "proved" /\ c = op /\ ProvenTurns(view, call) # {}
<1>1. CallTyped /\ "resume" \notin Commands
  BY CallTypedFromInv, AttachmentAssumption DEF Inv
<1>2. answer[c] # "Confirmed" /\ answer'[c] = "Confirmed" /\ answer' # answer
  BY DEF Confirms
<1>3. ASSUME NEW d, NEW a, Finish(d, a) PROVE d = c /\ a = "Confirmed"
  BY <1>1, <1>2, <1>3 DEF Finish, CallTyped
<1>4. CASE Conclude
  <2>1. op = c /\ ProvenTurns(view, call) # {}
    BY <1>3, <1>4 DEF Conclude
  <2>. QED BY <1>4, <2>1 DEF Conclude
<1>5. ASSUME NEW d \in Calls, Begin(d) PROVE FALSE
  BY <1>2, <1>3, <1>5 DEF Begin, Proceed, truth
<1>6. CASE GivesUp \/ Synchronized
  BY <1>2, <1>3, <1>6 DEF GivesUp, Synchronized, Proceed, truth
<1>7. CASE NotWritten \/ Refused \/ NotProven
  BY <1>3, <1>7 DEF NotWritten, Refused, NotProven
<1>8. CASE Asked \/ Write \/ Accepted \/ Unanswered \/ Stream \/ Connection \/ Desktop \/ UNCHANGED vars
  <2>1. answer' = answer
    <3>1. CASE Asked \/ Write \/ Accepted \/ Unanswered
      BY <3>1 DEF Asked, Write, Accepted, Unanswered, Prove, truth
    <3>2. CASE Stream \/ Connection
      BY <3>2 DEF Stream, Snapshot, Patches, ResyncFails, Receive, Connection, Lose,
           Disconnected, Reconnecting, Reconnected, Close, truth
    <3>3. CASE Desktop \/ UNCHANGED vars
      BY <3>3 DEF Desktop, UserWorks, Takes, Loses, Edit, Revise, vars
    <3>. QED BY <1>8, <3>1, <3>2, <3>3
  <2>. QED BY <1>2, <2>1
<1>. QED BY <1>4, <1>5, <1>6, <1>7, <1>8 DEF Next, Caller, Injection

\* An injection is confirmed by what the owner did between the baseline's
\* revision and the view's, on one numbering.
THEOREM ConfirmedByTheOwnerHolds == Spec => ConfirmedByTheOwner
<1>1. ASSUME Inv, Baselined, [Next]_vars
      PROVE  [\A c \in Commands : Confirms(c) => AppearedBetween(c, call.revision, view.revision)]_vars
  <2>1. ASSUME NEW c \in Commands, Confirms(c)
        PROVE  AppearedBetween(c, call.revision, view.revision)
    <3>1. pc = "proved" /\ c = op /\ ProvenTurns(view, call) # {}
      BY <1>1, <2>1, ConfirmedByProof
    <3>. QED BY <1>1, <3>1, ProofIsAppearance
  <2>. QED BY <2>1
<1>. QED BY <1>1, Invariant, BaselineInvariant, PTL DEF Spec, ConfirmedByTheOwner

=============================================================================

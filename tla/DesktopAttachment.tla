-------------------------- MODULE DesktopAttachment --------------------------
(***************************************************************************)
(* DesktopAttachment on one task: resume and inject run one at a time; an  *)
(* injection synchronizes the view, writes once through the session, and   *)
(* is Confirmed only when the view, later and on the same connection,      *)
(* shows it.  Around it the connection is lost and replaced, now and then  *)
(* by one beside it, broadcasts come in any order, any number of times or  *)
(* not at all, Desktop's own user works on the same conversation, and      *)
(* every wait may time out.  A connection is known by its generation.      *)
(***************************************************************************)
EXTENDS DesktopState, Integers, Sequences, FiniteSets

CONSTANTS Steers,        \* the commands that steer; the others start a turn
          Aim,           \* the turn each of them is meant for: expectedTurnId
          MaxCommands,   \* bound: commands one attachment is given
          MaxRevisions,  \* bound: the owner's revisions on one numbering
          MaxGenerations \* bound: connections, the first one included

ASSUME AttachmentAssumption ==
  /\ Steers \subseteq Commands /\ Aim \in [Steers -> Turns]
  /\ Commands \cap {"resume", "none"} = {} /\ Keys # {}
  /\ IsFiniteSet(Commands) /\ MaxCommands \in Nat
  /\ MaxRevisions \in Nat \ {0} /\ MaxGenerations \in Nat \ {0}

VARIABLES
  view,       \* the task's DesktopThreadState
  tracked,    \* it is in the states map
  generation, \* of the connection
  resyncing,  \* a reload of the history has been asked for
  closed,
  up,         \* the session's connections that are not lost
  adopted,    \* the one it uses, or used last
  op,         \* the call of resume or inject that runs, or "none"
  pc,         \* where it is
  call,       \* what it remembers: captureDesktopProof, the turn to look for
  log,        \* the owner's revisions: the conversation and the change to it
  effect,     \* what became of each command at the owner
  answer      \* its outcome

attachment == <<view, tracked, generation, resyncing, closed>>
session == <<up, adopted>>
running == <<op, pc, call>>
truth == <<effect, answer>>
vars == <<view, tracked, generation, resyncing, closed, up, adopted,
          op, pc, call, log, effect, answer>>

Calls == Commands \cup {"resume"}
NoCall == [observed |-> FALSE, generation |-> 0, revision |-> Null,
           turns |-> {}, turn |-> NoTurn, sent |-> 0]
Now == log[Len(log)].content

\* What the session does with its connections.
Links == INSTANCE SessionLinks

-----------------------------------------------------------------------------
(* Faulty variants, each in the place of one definition below *)

NovelWillDo(v, c, t) == Observed(v) \ c.turns = {t}  \* whoever started the turn
KeepsTheFlag(result) == resyncing \/ result = "resync"
AnyConnection(v, c) ==  \* the revision of another numbering
  Ready(v) /\ c.revision # Null /\ v.revision # Null /\ v.revision > c.revision

-----------------------------------------------------------------------------
(* desktop-injection.ts *)

Capture(v, c) ==
  [observed |-> IF c \in Steers THEN HasDeliveryOn(v, c, Aim[c]) ELSE HasDelivery(v, c),
   generation |-> v.generation, revision |-> v.revision, turns |-> Observed(v),
   turn |-> IF c \in Steers THEN Aim[c] ELSE NoTurn, sent |-> 0]

\* The view is of the same connection as the baseline, and newer.
Newer(v, c) ==
  /\ Ready(v) /\ v.generation = c.generation
  /\ c.revision # Null /\ v.revision # Null /\ v.revision > c.revision

Proves(v, c, t) ==
  /\ Newer(v, c) /\ t \in Observed(v)
  /\ IF op \in Steers THEN ~c.observed /\ HasDeliveryOn(v, op, t)
     ELSE t \notin c.turns

Novel(v, c) == Observed(v) \ c.turns

DeliverySeen(v, c, t) == ~c.observed /\ HasDelivery(v, op) /\ Novel(v, c) = {t}

\* provenTurnId: the turn named in the reply, or the only one that is new.
ProvenTurns(v, c) ==
  IF c.turn # NoTurn /\ Proves(v, c, c.turn) THEN {c.turn}
  ELSE IF op \in Steers THEN {}
  ELSE {t \in Turns : Newer(v, c) /\ t \in Novel(v, c) /\ DeliverySeen(v, c, t)}

-----------------------------------------------------------------------------
(* waitFor: its predicate is looked at on every change of the view *)

Followed(v) == Ready(v) \/ v.connection = "disconnected"
Settled(v, c) == ProvenTurns(v, c) # {} \/ v.connection = "disconnected"

Woken(v) ==
  CASE pc = "following" /\ Followed(v) -> "followed"
    [] pc = "proving" /\ Settled(v, call) -> "proved"
    [] OTHER -> pc

See(v) == view' = v /\ pc' = Woken(v)

-----------------------------------------------------------------------------
Init ==
  /\ view = NewView /\ tracked = FALSE
  /\ generation = 1 /\ resyncing = FALSE /\ closed = FALSE
  /\ up = {1} /\ adopted = 1
  /\ op = "none" /\ pc = "idle" /\ call = NoCall
  /\ log = <<[content |-> [k \in Keys |-> Absent],
              change |-> [kind |-> "remove", key |-> CHOOSE k \in Keys : TRUE,
                          turn |-> NoTurn, ids |-> {}]]>>
  /\ effect = [c \in Commands |-> "none"]
  /\ answer = [c \in Commands |-> "none"]

-----------------------------------------------------------------------------
(* Calls: serialize runs them one at a time, in the order they were made,   *)
(* which may be any.                                                       *)

\* The call c is over; a is its outcome if it is an injection.
Finish(c, a) ==
  /\ op' = "none" /\ pc' = "idle" /\ call' = NoCall
  /\ answer' = IF c = "resume" THEN answer ELSE [answer EXCEPT ![c] = a]
  /\ UNCHANGED effect

Answered == {c \in Commands : answer[c] # "none"}

Invalid(v, c) == IF c \in Steers THEN Active(v) # {Aim[c]} ELSE Active(v) # {}

\* The view is synchronized: a resume is over, and an injection is validated,
\* takes its baseline and is handed to the session.
Proceed(c) ==
  IF c = "resume" \/ Invalid(view, c) THEN Finish(c, "NotSubmitted")
  ELSE /\ op' = c /\ pc' = "injecting" /\ call' = Capture(view, c)
       /\ UNCHANGED truth

Following == view.attachment = "following" /\ view.generation = generation

\* synchronize, up to the session's follow, or loadHistory if it was followed
\* before.  resume may be called again and again, each command once.
Begin(c) ==
  /\ op = "none"
  /\ c \in Commands => answer[c] = "none" /\ Cardinality(Answered) < MaxCommands
  /\ tracked' = TRUE
  /\ IF closed THEN Finish(c, "NotSubmitted") /\ UNCHANGED view
     ELSE IF Ready(view) THEN Proceed(c) /\ UNCHANGED view
     ELSE /\ view' = IF Following THEN view
                     ELSE IF adopted \in up THEN BeginFollowing(view, generation)
                     ELSE BeginConnecting(view)
          /\ op' = c /\ pc' = "asking"
          /\ UNCHANGED <<call, truth>>
  /\ UNCHANGED <<generation, resyncing, closed, session, log>>

\* The follow is written, or the history accepted.
Asked ==
  /\ pc = "asking" /\ Links!Usable # {}
  /\ pc' = IF Followed(view) THEN "followed" ELSE "following"
  /\ UNCHANGED <<view, tracked, generation, resyncing, closed, session, op, call, log, truth>>

\* It fails, is refused or takes too long, or nothing comes of it in time.
GivesUp ==
  /\ pc \in {"asking", "following"}
  /\ Finish(op, "NotSubmitted")
  /\ UNCHANGED <<attachment, session, log>>

Synchronized ==
  /\ pc = "followed"
  /\ IF Ready(view) THEN Proceed(op) ELSE Finish(op, "NotSubmitted")
  /\ UNCHANGED <<attachment, session, log>>

-----------------------------------------------------------------------------
(* inject, from the session's answer on *)

Written == call.sent # 0

\* The session writes the request; it may have reconnected before, or may be
\* doing so for another call.
Write ==
  /\ pc = "injecting" /\ ~Written
  /\ effect' = [effect EXCEPT ![op] = "possible"]
  /\ \E g \in Links!Usable : call' = [call EXCEPT !.sent = g]
  /\ UNCHANGED <<attachment, session, op, pc, log, answer>>

\* An error whose writeState is "not-written".
NotWritten ==
  /\ pc = "injecting" /\ ~Written
  /\ Finish(op, "NotSubmitted")
  /\ UNCHANGED <<attachment, session, log>>

Prove(c) ==
  /\ call' = c
  /\ pc' = IF Settled(view, c) THEN "proved" ELSE "proving"
  /\ UNCHANGED <<attachment, session, op, log, truth>>

Answerable == pc = "injecting" /\ call.sent \in up

\* Turns the owner showed the command on.
TurnsOf(d) ==
  {t \in Turns : \E i \in 1..Len(log) : \E k \in Keys :
     log[i].content[k].turn = t /\ d \in log[i].content[k].ids}

Accepted ==
  /\ Answerable /\ effect[op] = "done"
  /\ IF op \in Steers THEN Prove(call)
     ELSE \E t \in TurnsOf(op) : Prove([call EXCEPT !.turn = t])

Refusal(c) == Answerable /\ effect[c] = "gone"

\* A rejection the session knows the meaning of, or any other one.
Refused ==
  /\ pc = "injecting" /\ Refusal(op)
  /\ \E a \in {"NotSubmitted", "Rejected"} : Finish(op, a)
  /\ UNCHANGED <<attachment, session, log>>

\* No reply in time, the connection lost, or a reply that cannot be read.
Unanswered ==
  /\ pc = "injecting" /\ Written
  /\ Prove(call)

NotProven ==
  /\ pc = "proving"
  /\ Finish(op, "Ambiguous")
  /\ UNCHANGED <<attachment, session, log>>

Conclude ==
  /\ pc = "proved"
  /\ Finish(op, IF ProvenTurns(view, call) # {} THEN "Confirmed" ELSE "Ambiguous")
  /\ UNCHANGED <<attachment, session, log>>

-----------------------------------------------------------------------------
(* Broadcasts and the connection: bind *)

Resyncing(result) ==
  CASE result = "applied" /\ Ready(view') -> FALSE
    [] result = "resync" -> TRUE
    [] OTHER -> resyncing

Receive(m) ==
  /\ up # {} /\ tracked /\ ~closed
  /\ See(Apply(view, m, generation))
  /\ resyncing' = Resyncing(Verdict(view, m, generation))
  /\ UNCHANGED <<tracked, generation, closed, session, op, call, log, truth>>

\* Any revision, old or repeated, and one that cannot be read.
Snapshot ==
  \E r \in 0..Len(log) :
    Receive([tag |-> "Snapshot", revision |-> r,
             content |-> log[IF r = Null THEN 1 ELSE r].content])

Patches ==
  \E r \in 1..Len(log) :
    Receive([tag |-> "Patches", base |-> r - 1,
             revision |-> r, change |-> log[r].change])

\* loadHistory answers false, or fails.
ResyncFails ==
  /\ resyncing
  /\ resyncing' = FALSE
  /\ UNCHANGED <<view, tracked, generation, closed, session, running, log, truth>>

\* A socket is no longer usable, which its close event tells only later.
Lose ==
  /\ Links!Lose
  /\ UNCHANGED <<view, tracked, resyncing, closed, running, log, truth>>

\* The event of a connection lost at any time before, or of an attempt that did
\* not get through: a call may have made one although there is a connection.
Disconnected ==
  /\ ~closed
  /\ resyncing' = FALSE
  /\ See(IF tracked THEN Disconnect(view) ELSE view)
  /\ UNCHANGED <<tracked, generation, closed, session, op, call, log, truth>>

\* With no connection left the owner may have restarted and numbers the same
\* conversation anew.
Renumbered == IF up = {} THEN {<<log[Len(log)]>>} ELSE {}

\* Some call of the session reconnects: the connection is lost, or the call was
\* late to find out that an earlier one had to go.
Reconnecting ==
  /\ ~closed /\ generation < MaxGenerations
  /\ generation' = generation + 1 /\ Links!Reconnecting
  /\ See(IF tracked THEN BeginFollowing(view, generation + 1) ELSE view)
  /\ log' \in {log} \cup Renumbered
  /\ UNCHANGED <<tracked, resyncing, closed, op, call, truth>>

Reconnected ==
  /\ Links!Reconnected /\ ~closed
  /\ See(IF tracked /\ view.connection = "connecting" THEN BeginFollowing(view, generation) ELSE view)
  /\ UNCHANGED <<tracked, resyncing, closed, op, call, log, truth>>

\* The delivery's scope ends; it waits for a submission, not for a follow.
Close ==
  /\ ~closed /\ op \notin Commands
  /\ closed' = TRUE /\ Links!Close
  /\ resyncing' = FALSE
  /\ See(IF tracked THEN Disconnect(view) ELSE view)
  /\ UNCHANGED <<tracked, op, call, log, truth>>

-----------------------------------------------------------------------------
(* Desktop *)

Revise(ch) ==
  /\ Len(log) < MaxRevisions
  /\ log' = Append(log, [content |-> Edited(Now, ch), change |-> ch])
  /\ UNCHANGED <<attachment, session, running, answer>>

\* Named by no entity of any revision of this numbering.
Unused(t) == \A i \in 1..Len(log) : \A k \in Keys : log[i].content[k].turn # t

Edit(kind, k, t, ids) == Revise([kind |-> kind, key |-> k, turn |-> t, ids |-> ids])

\* The user starts a turn; a turn gets its name or another one, and ends; an
\* entity is removed.
UserWorks ==
  /\ \E k \in Keys :
       \/ /\ Now[k].status = "absent"
          /\ \E t \in Turns : Unused(t) /\ Edit("upsert", k, t, {})
       \/ /\ Now[k].status = "inProgress"
          /\ \E t \in Turns : Unused(t) /\ Edit("bind", k, t, {})
       \/ /\ Now[k].status = "inProgress" /\ Now[k].turn # NoTurn
          /\ Edit("status", k, NoTurn, {})
       \/ /\ Now[k].status # "absent"
          /\ Edit("remove", k, NoTurn, {})
  /\ UNCHANGED effect

\* A start becomes a turn, which may be named later; a steer joins the turn
\* its caller named, while that is active.
Takes(c) ==
  /\ effect[c] = "possible"
  /\ effect' = [effect EXCEPT ![c] = "done"]
  /\ \E k \in Keys :
       \/ /\ c \notin Steers /\ Now[k].status = "absent"
          /\ \E t \in MaybeTurn : (t # NoTurn => Unused(t)) /\ Edit("upsert", k, t, {c})
       \/ /\ c \in Steers /\ Now[k].status = "inProgress" /\ Now[k].turn = Aim[c]
          /\ Edit("message", k, NoTurn, {c})

\* The command is refused, or lost.
Loses(c) ==
  /\ effect[c] = "possible"
  /\ effect' = [effect EXCEPT ![c] = "gone"]
  /\ UNCHANGED <<attachment, session, running, log, answer>>

Desktop == UserWorks \/ \E c \in Commands : Takes(c) \/ Loses(c)

Connection == Lose \/ Disconnected \/ Reconnecting \/ Reconnected \/ Close
Stream == Snapshot \/ Patches \/ ResyncFails
Caller == (\E c \in Calls : Begin(c)) \/ Asked \/ GivesUp \/ Synchronized
Injection == Write \/ NotWritten \/ Accepted \/ Refused \/ Unanswered \/ NotProven \/ Conclude

Next == Caller \/ Injection \/ Stream \/ Connection \/ Desktop

Spec == Init /\ [][Next]_vars

-----------------------------------------------------------------------------
(* Properties *)

PCs == {"idle", "asking", "following", "followed", "injecting", "proving", "proved"}

TypeOK ==
  /\ view \in View /\ tracked \in BOOLEAN
  /\ generation \in 1..MaxGenerations
  /\ resyncing \in BOOLEAN /\ closed \in BOOLEAN
  /\ up \subseteq 1..generation /\ adopted \in 0..generation
  /\ op \in Calls \cup {"none"} /\ pc \in PCs
  /\ call \in [observed: BOOLEAN, generation: Nat, revision: Nat, turns: SUBSET Turns,
               turn: MaybeTurn, sent: Nat]
  /\ log \in Seq([content: Contents, change: Change]) /\ Len(log) \in 1..MaxRevisions
  /\ effect \in [Commands -> {"none", "possible", "done", "gone"}]
  /\ answer \in [Commands -> {"none", "Confirmed", "NotSubmitted", "Rejected", "Ambiguous"}]

\* A synchronized view is the owner's conversation at the view's revision,
\* whatever was lost, repeated or out of order on the way: the same turns in
\* the same state, and no delivery on a turn that does not have it.
Mirrors(v, content) ==
  /\ \A k \in Keys : v.keyTurn[k] = content[k].turn
  /\ \A k \in Keys : content[k].turn # NoTurn => v.status[content[k].turn] = content[k].status
  /\ \A t \in Observed(v) : \E k \in Keys : content[k].turn = t
  /\ \A k \in Keys : content[k].ids \subseteq v.ids
  /\ \A d \in Commands : v.idTurn[d] # NoTurn =>
       \E k \in Keys : content[k].turn = v.idTurn[d] /\ d \in content[k].ids

ViewFaithful ==
  Ready(view) => /\ view.revision \in 1..Len(log)
                 /\ Mirrors(view, log[view.revision].content)

\* While a reload is outstanding the view is not trusted, and a trusted view
\* has none outstanding that would keep the next gap from asking for one.
NoStaleResync == resyncing => ~Ready(view)

\* The session's write and the proof together keep what the coordinator relies
\* on: Confirmed means the command took effect, NotSubmitted and Rejected that
\* it did not and will not.
Contract == INSTANCE SubmissionContract
KeepsContract == Contract!Spec

\* An injection is confirmed by what the owner did since its baseline and on the
\* same numbering: between the baseline's revision and the view's, a new turn
\* came, or the message of a steer on the turn it was meant for.
On(content, d, t) == \E k \in Keys : content[k].turn = t /\ d \in content[k].ids
Has(content, t) == \E k \in Keys : content[k].turn = t

AppearedBetween(c, r, s) ==
  /\ r \in 1..Len(log) /\ s \in 1..Len(log) /\ r < s
  /\ IF c \in Steers
     THEN On(log[s].content, c, Aim[c]) /\ ~On(log[r].content, c, Aim[c])
     ELSE \E t \in Turns : Has(log[s].content, t) /\ ~Has(log[r].content, t)

Confirms(c) == answer[c] # "Confirmed" /\ answer'[c] = "Confirmed"

ConfirmedByTheOwner ==
  [][\A c \in Commands : Confirms(c) => AppearedBetween(c, call.revision, view.revision)]_vars
=============================================================================

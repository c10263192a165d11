---------------------------- MODULE DesktopSession ----------------------------
(***************************************************************************)
(* DesktopProtocolSession: calls that follow a task, load its history or   *)
(* start and steer its turns share one connection to Desktop.  A call      *)
(* first makes sure of the connection, all callers waiting for the same    *)
(* reconnect; a mutation then finds out which of Desktop's windows owns    *)
(* the task and is written to that window only.  Around them connections   *)
(* break, notice it late, and the endpoint's socket file is replaced; the  *)
(* session may be closed at any moment and every bounded wait may expire.  *)
(*                                                                         *)
(* An owner is known by when it was learned: the number of connections     *)
(* opened when its snapshot came.  Each action is what runs up to the next *)
(* await; two awaits that only queue microtasks may be interleaved here    *)
(* although the event loop would run them together.                        *)
(***************************************************************************)
EXTENDS Integers, FiniteSets

CONSTANTS Calls,          \* the calls the session is given
          Threads,
          Thread,         \* the task of each
          MaxConnections, \* bound: connections opened, the first one included
          MaxPending      \* limits.maxPendingRequests

ASSUME SessionAssumption ==
  /\ Thread \in [Calls -> Threads] /\ IsFiniteSet(Calls)
  /\ MaxConnections \in Nat \ {0} /\ MaxPending \in Nat \ {0}

VARIABLES
  closing,
  connection,   \* the negotiated connection in use, or 0
  reconnecting, \* the one the shared reconnect opens, or 0
  opened,       \* the number of connections opened so far
  stage,        \* of each connection: how far opening it has come
  link,         \* of each connection: its socket
  restored,     \* the tasks the reconnect under way has followed again
  stale,        \* connections to a socket file that has since been replaced
  followed,     \* followedThreads
  owner,        \* threadOwners.owners
  unroutable,   \* threadOwners.unroutable
  call,         \* of each call: where it is, and what it holds
  announced,    \* history: the connection Reconnecting was last emitted for, or the first
  asked         \* history: tasks followed since their owner was last given up

sockets == <<closing, connection, reconnecting, opened, stage, link, restored, stale, announced>>
evidence == <<followed, owner, unroutable, asked>>
vars == <<closing, connection, reconnecting, opened, stage, link, restored, stale,
          followed, owner, unroutable, call, announced, asked>>

Connections == 1..MaxConnections
NoOwner == 0
Ops == {"mutate", "history", "follow"}
Outcomes == {"accepted", "rejected", "malformed", "unknown", "notWritten",
             "followed", "unfollowed"}
Phases == {"idle", "identity", "reconnect", "ready", "following", "refreshed",
           "waiting", "routed", "sent"} \cup Outcomes
Opening == {"connecting", "handshake", "restoring"}

Alive(k) == k # 0 /\ link[k] = "up"
Newest == opened
Waiting(t) == {c \in Calls : call[c].phase = "waiting" /\ Thread[c] = t}
Pending(k) == {c \in Calls : call[c].phase = "sent" /\ call[c].conn = k}

NewCall == [op |-> "mutate", phase |-> "idle", conn |-> 0, target |-> NoOwner, added |-> FALSE]
Now(c, phase) == [call EXCEPT ![c].phase = phase]

\* A call that has its outcome, and no locals any more.
Ended(outcome) == [NewCall EXCEPT !.phase = outcome]
End(c, outcome) == [call EXCEPT ![c] = Ended(outcome)]

Reached(k, s) == stage' = [stage EXCEPT ![k] = s]

-----------------------------------------------------------------------------
(* thread-owners.ts *)

\* The calls S are refused; each of them also marks its task unroutable.
Refused(S) ==
  [c \in Calls |-> IF c \in S THEN Ended("notWritten") ELSE call[c]]

\* Faulty: who waits for the owner is not told.
InvalidateQuietly(t, S) ==
  /\ owner' = [owner EXCEPT ![t] = NoOwner]
  /\ unroutable' = unroutable \cup {t}
  /\ asked' = asked \ {t}
  /\ call' = Refused(S)

\* Forget the owner and answer who waits for it: the caller c too, if it fails.
Invalidate(t, S) ==
  /\ owner' = [owner EXCEPT ![t] = NoOwner]
  /\ unroutable' = unroutable \cup {t}
  /\ asked' = asked \ {t}
  /\ call' = Refused(S \cup Waiting(t))

\* What reset and close leave: no owner, and nobody waiting for one.
Interrupted(refresh) ==
  /\ owner' = [t \in Threads |-> NoOwner]
  /\ unroutable' = refresh \cup {t \in Threads : Waiting(t) # {}}
  /\ asked' = {}

-----------------------------------------------------------------------------
(* Ending connections: wire.ts close and end, and what the session hears *)

Ending(K) == {k \in K \ {0} : link[k] \in {"up", "lost"}}

\* Faulty: the owners are forgotten and nothing is marked.
HangUpUnmarked(K) ==
  /\ link' = [k \in Connections |-> IF k \in Ending(K) THEN "ended" ELSE link[k]]
  /\ IF Ending(K) # {} THEN Interrupted({}) ELSE UNCHANGED <<owner, unroutable, asked>>

\* Disconnected: every followed task needs its owner anew.
HangUp(K) ==
  /\ link' = [k \in Connections |-> IF k \in Ending(K) THEN "ended" ELSE link[k]]
  /\ IF Ending(K) # {} THEN Interrupted(followed) ELSE UNCHANGED <<owner, unroutable, asked>>

\* rejectAll and resolveWaiters: what a written request came to is not known.
AfterHangUp(K) ==
  [c \in Calls |->
     CASE call[c].phase = "sent" /\ call[c].conn \in Ending(K) ->
            Ended("unknown")
       [] call[c].phase = "waiting" /\ Ending(K) # {} ->
            Ended("notWritten")
       [] OTHER -> call[c]]

\* The peer stops reading; the socket's close event is still to come.
Lose(k) ==
  /\ link[k] = "up"
  /\ link' = [link EXCEPT ![k] = "lost"]
  /\ UNCHANGED <<closing, connection, reconnecting, opened, stage, restored, stale, evidence, call, announced>>

\* The close event, an error, or a frame that cannot be decoded.
Break(k) ==
  /\ k \in Ending({k})
  /\ HangUp({k})
  /\ call' = AfterHangUp({k})
  /\ UNCHANGED <<closing, connection, reconnecting, opened, stage, restored, stale, followed, announced>>

\* Another Desktop binds the endpoint: its socket file has a new identity.
Replace ==
  /\ stale' = 1..opened
  /\ stale' # stale
  /\ UNCHANGED <<closing, connection, reconnecting, opened, stage, link, restored, evidence, call, announced>>

-----------------------------------------------------------------------------
(* open and negotiateDesktopConnection, for the first connection and later ones *)

\* The socket connects and the initialize request is written.
Connected(k) ==
  /\ stage[k] = "connecting" /\ ~closing
  /\ Reached(k, "handshake")
  /\ link' = [link EXCEPT ![k] = "up"]
  /\ UNCHANGED <<closing, connection, reconnecting, opened, restored, stale, evidence, call, announced>>

\* Faulty: Reconnecting leaves the owners of the old connection.
InitializedKeepingOwners(k) ==
  /\ stage[k] = "handshake" /\ Alive(k) /\ ~closing
  /\ announced' = k
  /\ IF k = 1
     THEN Reached(k, "ready") /\ connection' = k /\ UNCHANGED restored
     ELSE Reached(k, "restoring") /\ restored' = {} /\ UNCHANGED connection
  /\ UNCHANGED <<closing, reconnecting, opened, link, stale, evidence, call>>

\* The first connection is in use at once; later ones emit Reconnecting.
Initialized(k) ==
  /\ stage[k] = "handshake" /\ Alive(k) /\ ~closing
  /\ announced' = k
  /\ IF k = 1
     THEN /\ Reached(k, "ready") /\ connection' = k
          /\ UNCHANGED <<restored, owner, unroutable, asked, call>>
     ELSE /\ Reached(k, "restoring") /\ restored' = {} /\ UNCHANGED connection
          /\ Interrupted({}) /\ call' = Refused({c \in Calls : call[c].phase = "waiting"})
  /\ UNCHANGED <<closing, reconnecting, opened, link, stale, followed>>

\* One turn of restoreFollowedThreads: a task not yet followed on it.
Restore(k, t) ==
  /\ stage[k] = "restoring" /\ Alive(k)
  /\ t \in followed \ restored
  /\ restored' = restored \cup {t} /\ asked' = asked \cup {t}
  /\ UNCHANGED <<closing, connection, reconnecting, opened, stage, link, stale,
                 followed, owner, unroutable, call, announced>>

AllRestored == followed \subseteq restored

\* Reconnected: the session uses the new connection.
Adopt(k) ==
  /\ stage[k] = "restoring" /\ ~closing
  /\ AllRestored
  /\ Reached(k, "ready")
  /\ connection' = k /\ reconnecting' = 0 /\ restored' = {}
  /\ UNCHANGED <<closing, opened, link, stale, evidence, call, announced>>

\* A timeout, a refusal, a broken socket, or the session closing.
OpenFails(k) ==
  /\ stage[k] \in Opening
  /\ Reached(k, "failed")
  /\ HangUp({k})
  /\ reconnecting' = IF reconnecting = k THEN 0 ELSE reconnecting
  /\ call' = AfterHangUp({k}) /\ restored' = {}
  /\ UNCHANGED <<closing, connection, opened, stale, followed, announced>>

-----------------------------------------------------------------------------
(* ready and ensureConnection *)

\* Wait for the reconnect under way, or start one; cs is the calls so far.
\* With its budget spent, or beyond MaxConnections, it has no connection to open.
Reconnect(c, cs) ==
  \/ /\ reconnecting # 0
     /\ call' = [cs EXCEPT ![c].phase = "reconnect", ![c].conn = reconnecting]
     /\ UNCHANGED <<reconnecting, opened, stage>>
  \/ /\ reconnecting = 0 /\ ~closing /\ opened < MaxConnections
     /\ opened' = opened + 1 /\ reconnecting' = opened + 1
     /\ Reached(opened + 1, "connecting")
     /\ call' = [cs EXCEPT ![c].phase = "reconnect", ![c].conn = opened + 1]
  \/ /\ reconnecting = 0
     /\ call' = [cs EXCEPT ![c] = Ended("notWritten")]
     /\ UNCHANGED <<reconnecting, opened, stage>>

\* An alive connection has its endpoint looked up first.
Begin(c, op) ==
  LET cs == [call EXCEPT ![c].op = op] IN
  /\ call[c].phase = "idle" /\ stage[1] = "ready"
  /\ IF closing
     THEN call' = [cs EXCEPT ![c] = Ended("notWritten")] /\ UNCHANGED <<reconnecting, opened, stage>>
     ELSE IF Alive(connection)
     THEN /\ call' = [cs EXCEPT ![c].phase = "identity", ![c].conn = connection]
          /\ UNCHANGED <<reconnecting, opened, stage>>
     ELSE Reconnect(c, cs)
  /\ UNCHANGED <<closing, connection, link, restored, stale, evidence, announced>>

\* The endpoint is the same, or its identity cannot be told.
IdentityKept(c) ==
  /\ call[c].phase = "identity"
  /\ call' = IF closing THEN End(c, "notWritten") ELSE Now(c, "ready")
  /\ UNCHANGED <<sockets, evidence>>

\* The lookup answers for a connection that may no longer be the session's.
IdentityChanged(c) ==
  LET k == call[c].conn IN
  /\ call[c].phase = "identity" /\ k \in stale
  /\ HangUp({k})
  /\ Reconnect(c, AfterHangUp({k}))
  /\ UNCHANGED <<closing, connection, restored, stale, followed, announced>>

\* The shared reconnect has ended one way or the other.
ReconnectSettled(c) ==
  LET k == call[c].conn IN
  /\ call[c].phase = "reconnect" /\ stage[k] \in {"ready", "failed"}
  /\ IF stage[k] = "ready" /\ closing
     THEN HangUp({k}) /\ call' = [AfterHangUp({k}) EXCEPT ![c] = Ended("notWritten")]
     ELSE /\ call' = IF stage[k] = "ready" THEN Now(c, "ready") ELSE End(c, "notWritten")
          /\ UNCHANGED <<link, owner, unroutable, asked>>
  /\ UNCHANGED <<closing, connection, reconnecting, opened, stage, restored, stale, followed, announced>>

\* A missing capability, a spent budget, a dead connection, a frame too large
\* or the limit of pending requests, before anything is written.
GiveUp(c) ==
  /\ \/ call[c].phase \in {"identity", "ready", "refreshed", "routed"}
     \/ call[c].phase = "reconnect" /\ call[c].op # "follow"
  /\ call' = End(c, "notWritten")
  /\ UNCHANGED <<sockets, evidence>>

-----------------------------------------------------------------------------
(* followDesktopThread and refreshDesktopOwner *)

Follow(c) ==
  LET k == call[c].conn  t == Thread[c]  added == t \notin followed IN
  /\ call[c].phase = "ready" /\ call[c].op = "follow"
  /\ IF Alive(k)
     THEN /\ followed' = followed \cup {t} /\ asked' = asked \cup {t}
          /\ call' = [call EXCEPT ![c].phase = "following", ![c].added = added]
          /\ UNCHANGED <<owner, unroutable>>
     ELSE /\ call' = End(c, "notWritten")
          /\ owner' = IF added THEN [owner EXCEPT ![t] = NoOwner] ELSE owner
          /\ unroutable' = IF added THEN unroutable \ {t} ELSE unroutable
          /\ UNCHANGED <<followed, asked>>
  /\ UNCHANGED sockets

NeedsRefresh(t) == t \in followed /\ t \in unroutable

\* A mutation of a task whose owner is unknown follows it once more.
Refresh(c) ==
  LET k == call[c].conn  t == Thread[c] IN
  /\ call[c].phase = "ready" /\ call[c].op = "mutate" /\ NeedsRefresh(t)
  /\ IF Alive(k)
     THEN /\ unroutable' = unroutable \ {t} /\ asked' = asked \cup {t}
          /\ call' = Now(c, "following")
          /\ UNCHANGED owner
     ELSE Invalidate(t, {c})
  /\ UNCHANGED <<sockets, followed>>

\* The write's callback reports no error.
Flushed(c) ==
  /\ call[c].phase = "following"
  /\ call' = IF call[c].op = "follow" THEN End(c, "followed") ELSE Now(c, "refreshed")
  /\ UNCHANGED <<sockets, evidence>>

\* A refresh is bounded; a follow waits for the socket to fail.
FlushFails(c) ==
  LET t == Thread[c] IN
  /\ call[c].phase = "following"
  /\ IF call[c].op = "mutate" THEN Invalidate(t, {c}) /\ UNCHANGED followed
     ELSE /\ ~Alive(call[c].conn)
          /\ call' = End(c, "unfollowed")
          /\ IF call[c].added
             THEN /\ followed' = followed \ {t}
                  /\ owner' = [owner EXCEPT ![t] = NoOwner]
                  /\ unroutable' = unroutable \ {t} /\ UNCHANGED asked
             ELSE UNCHANGED evidence
  /\ UNCHANGED sockets

-----------------------------------------------------------------------------
(* requestTarget and the request *)

AskOwner(c) ==
  LET t == Thread[c] IN
  /\ call[c].op = "mutate"
  /\ \/ call[c].phase = "refreshed"
     \/ call[c].phase = "ready" /\ ~NeedsRefresh(t)
  /\ \/ /\ t \notin followed
        /\ call' = End(c, "notWritten") /\ UNCHANGED <<owner, unroutable, asked>>
     \/ /\ t \in followed /\ owner[t] # NoOwner
        /\ call' = [call EXCEPT ![c].phase = "routed", ![c].target = owner[t]]
        /\ UNCHANGED <<owner, unroutable, asked>>
     \/ /\ t \in followed /\ owner[t] = NoOwner
        /\ closing \/ t \in unroutable
        /\ Invalidate(t, {c})
     \/ /\ t \in followed /\ owner[t] = NoOwner
        /\ ~closing /\ t \notin unroutable
        /\ call' = Now(c, "waiting") /\ UNCHANGED <<owner, unroutable, asked>>
  /\ UNCHANGED <<sockets, followed>>

\* A history is asked of the owner if there is one, else of whoever answers.
AskAnyone(c) ==
  LET t == Thread[c] IN
  /\ call[c].phase = "ready" /\ call[c].op = "history"
  /\ call' = [call EXCEPT ![c].phase = "routed",
                          ![c].target = IF t \in followed THEN owner[t] ELSE NoOwner]
  /\ UNCHANGED <<sockets, evidence>>

\* OWNER_EVIDENCE_TIMEOUT_MS, or the deadline.
OwnerTimeout(c) ==
  /\ call[c].phase = "waiting"
  /\ Invalidate(Thread[c], {c})
  /\ UNCHANGED <<sockets, followed>>

\* The submission barrier.
Submit(c) ==
  LET k == call[c].conn IN
  /\ call[c].phase = "routed"
  /\ Alive(k) /\ Cardinality(Pending(k)) < MaxPending
  /\ call' = Now(c, "sent")
  /\ UNCHANGED <<sockets, evidence>>

\* dropRejectedOwner: a rejection invalidates the owner.
Reply(c) ==
  LET t == Thread[c] IN
  /\ call[c].phase = "sent" /\ Alive(call[c].conn)
  /\ \/ /\ \E answer \in {"accepted", "malformed"} : call' = End(c, answer)
        /\ UNCHANGED <<owner, unroutable, asked>>
     \/ /\ owner' = [owner EXCEPT ![t] = NoOwner]
        /\ unroutable' = unroutable \cup {t} /\ asked' = asked \ {t}
        /\ call' = [Refused(Waiting(t)) EXCEPT ![c] = Ended("rejected")]
  /\ UNCHANGED <<sockets, followed>>

\* Faulty: on a connection that has failed, a timeout counts as not written.
UnansweredIsUnsent(c) ==
  /\ call[c].phase = "sent"
  /\ call' = End(c, IF Alive(call[c].conn) THEN "unknown" ELSE "notWritten")
  /\ UNCHANGED <<sockets, evidence>>

\* The request times out, or the write's callback reports an error.
Unanswered(c) ==
  /\ call[c].phase = "sent"
  /\ call' = End(c, "unknown")
  /\ UNCHANGED <<sockets, evidence>>

-----------------------------------------------------------------------------
(* observe: a snapshot of a followed task whose owner is not known *)

Snapshot(k, t) ==
  /\ Alive(k) /\ t \in followed /\ owner[t] = NoOwner
  /\ owner' = [owner EXCEPT ![t] = Newest]
  /\ unroutable' = unroutable \ {t}
  /\ call' = [c \in Calls |-> IF c \in Waiting(t)
                              THEN [call[c] EXCEPT !.phase = "routed", !.target = Newest]
                              ELSE call[c]]
  /\ UNCHANGED <<sockets, followed, asked>>

\* It does not tell who sent it.
AnonymousSnapshot(k, t) ==
  /\ Alive(k) /\ t \in followed /\ owner[t] = NoOwner
  /\ Invalidate(t, {})
  /\ UNCHANGED <<sockets, followed>>

\* close: the owners first, then the connection and the one being opened.
Close ==
  LET K == {connection} \cup {k \in Connections : stage[k] \in {"handshake", "restoring"}} IN
  /\ ~closing
  /\ closing' = TRUE /\ connection' = 0
  /\ link' = [k \in Connections |-> IF k \in Ending(K) THEN "ended" ELSE link[k]]
  /\ Interrupted(IF Ending(K) = {} THEN {} ELSE followed)
  /\ call' = [c \in Calls |-> IF call[c].phase = "waiting"
                              THEN Ended("notWritten")
                              ELSE AfterHangUp(K)[c]]
  /\ UNCHANGED <<reconnecting, opened, stage, restored, stale, followed, announced>>

-----------------------------------------------------------------------------
Init ==
  /\ closing = FALSE /\ connection = 0 /\ reconnecting = 0 /\ opened = 1
  /\ stage = [k \in Connections |-> IF k = 1 THEN "connecting" ELSE "none"]
  /\ link = [k \in Connections |-> "down"]
  /\ restored = {} /\ stale = {} /\ followed = {}
  /\ owner = [t \in Threads |-> NoOwner] /\ unroutable = {}
  /\ call = [c \in Calls |-> NewCall] /\ announced = 0 /\ asked = {}

Step(c) ==
  \/ (\E op \in Ops : Begin(c, op)) \/ IdentityKept(c) \/ IdentityChanged(c) \/ ReconnectSettled(c) \/ GiveUp(c)
  \/ Follow(c) \/ Refresh(c) \/ Flushed(c) \/ FlushFails(c)
  \/ AskOwner(c) \/ AskAnyone(c) \/ OwnerTimeout(c)
  \/ Submit(c) \/ Reply(c) \/ Unanswered(c)

Wire(k) ==
  \/ Connected(k) \/ Initialized(k) \/ Adopt(k) \/ OpenFails(k) \/ Lose(k) \/ Break(k)
  \/ \E t \in Threads : Restore(k, t) \/ Snapshot(k, t) \/ AnonymousSnapshot(k, t)

Next ==
  \/ \E c \in Calls : Step(c)
  \/ \E k \in Connections : Wire(k)
  \/ Replace \/ Close

Spec == Init /\ [][Next]_vars

-----------------------------------------------------------------------------
(* Properties *)

TypeOK ==
  /\ closing \in BOOLEAN
  /\ connection \in 0..MaxConnections /\ reconnecting \in 0..MaxConnections
  /\ opened \in Connections
  /\ stage \in [Connections -> Opening \cup {"none", "ready", "failed"}]
  /\ link \in [Connections -> {"down", "up", "lost", "ended"}]
  /\ restored \subseteq Threads /\ stale \subseteq Connections
  /\ followed \subseteq Threads /\ unroutable \subseteq Threads
  /\ owner \in [Threads -> 0..MaxConnections]
  /\ call \in [Calls -> [op : Ops, phase : Phases, conn : 0..MaxConnections,
                         target : 0..MaxConnections, added : BOOLEAN]]
  /\ announced \in 0..MaxConnections /\ asked \subseteq Threads

\* A mutation is written only to an owner learned since its connection was
\* opened: what was known before a reconnect is not used after it.
EvidenceIsCurrent ==
  \A c \in Calls : call[c].phase = "sent" /\ call[c].op = "mutate" =>
    call[c].target # NoOwner /\ call[c].target >= call[c].conn

\* Whoever waits for an owner waits for something not known yet.
NoLostWakeup ==
  \A c \in Calls : call[c].phase = "waiting" =>
    ~closing /\ owner[Thread[c]] = NoOwner /\ Thread[c] \notin unroutable

\* Unless a reconnect is about to, the session has followed anew every task whose
\* owner it neither knows nor has marked: no mutation waits for it in vain.
SnapshotExpected ==
  Alive(connection) /\ reconnecting = 0 =>
    \A t \in followed \ unroutable : owner[t] = NoOwner => t \in asked

\* What those above the session are promised: the caller falls back to the other
\* route on "not written", and DesktopAttachment lives with these connections.
Promise == INSTANCE SessionPromise WITH
  generation <- announced,
  up <- {k \in Connections : stage[k] \in {"restoring", "ready"} /\ Alive(k)},
  adopted <- connection,
  on <- [c \in Calls |-> IF call[c].phase = "sent" THEN call[c].conn ELSE 0],
  outcome <- [c \in Calls |-> IF call[c].phase \in Outcomes THEN call[c].phase ELSE "none"]
KeepsSessionPromise == Promise!Spec

\* Concurrent callers share one reconnect.
OneConnection ==
  \A j, k \in Connections : stage[j] = "ready" /\ stage[k] = "ready" /\ Alive(j) /\ Alive(k) => j = k
=============================================================================

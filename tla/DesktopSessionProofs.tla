------------------------- MODULE DesktopSessionProofs -------------------------
(***************************************************************************)
(* Proofs about DesktopSession: types, that a mutation goes to an owner    *)
(* learned on its connection, that waiters are told, that whoever waits    *)
(* has asked for what it waits for, that it implements SessionPromise, and *)
(* what is needed for callers to share one connection.                     *)
(***************************************************************************)
EXTENDS DesktopSession, TLAPS

\* A call's record.
CallType == [op : Ops, phase : Phases, conn : 0..MaxConnections,
             target : 0..MaxConnections, added : BOOLEAN]

\* Where a call has a connection and has not ended.
InUse == {"identity", "ready", "following", "refreshed", "waiting", "routed", "sent"}

\* How far the connections are, and which of them the reconnect opens.
StageInv ==
  /\ \A k \in Connections : stage[k] = "none" <=> k > opened
  /\ \A k \in Connections : stage[k] \in Opening => k = 1 \/ reconnecting = k
  /\ stage[1] # "restoring" /\ reconnecting # 1
  /\ reconnecting # 0 => stage[reconnecting] \in Opening
  /\ connection # 0 => stage[connection] = "ready"
  /\ closing => connection = 0

\* A call in progress holds a connection that has been opened.
HeldInv ==
  \A c \in Calls :
    /\ call[c].phase \in InUse \cup {"reconnect"} => call[c].conn # 0
    /\ call[c].phase \in InUse => stage[call[c].conn] = "ready"

\* An owner was learned after every connection opened so far.
OwnerInv ==
  \A t \in Threads : owner[t] # NoOwner =>
    \A k \in Connections : stage[k] \in {"restoring", "ready"} => k <= owner[t]

\* A mutation's target was learned on its connection, or after it was opened.
TargetInv ==
  \A c \in Calls : call[c].phase \in {"routed", "sent"} /\ call[c].op = "mutate" =>
    call[c].target # NoOwner /\ call[c].target >= call[c].conn

\* Nobody waits for the owner of t in vain.
Covered(t) == t \in unroutable \/ owner[t] # NoOwner \/ t \in asked

\* All tasks are covered, but for those the reconnect is still to follow anew.
RestoringInv ==
  ~closing =>
    \/ \A t \in followed : Covered(t)
    \/ /\ reconnecting # 0 /\ stage[reconnecting] = "restoring"
       /\ link[reconnecting] \in {"up", "lost"}
       /\ \A t \in followed \cap restored : Covered(t)

-----------------------------------------------------------------------------
(* What the helpers return *)

LEMMA EndedFields ==
  ASSUME NEW o \in Outcomes
  PROVE  /\ Ended(o) \in CallType
         /\ Ended(o).phase = o /\ Ended(o).op = "mutate" /\ Ended(o).conn = 0
<1>1. NewCall \in CallType /\ o \in Phases
  BY SessionAssumption DEF NewCall, CallType, Ops, Phases, NoOwner
<1>2. Ended(o) \in CallType
  BY <1>1 DEF Ended, CallType
<1>3. Ended(o).phase = o /\ Ended(o).op = "mutate" /\ Ended(o).conn = 0
  BY DEF Ended, NewCall
<1> QED BY <1>2, <1>3

LEMMA RefusedCalls ==
  ASSUME call \in [Calls -> CallType], NEW S
  PROVE  Refused(S) \in [Calls -> CallType]
<1>1. Ended("notWritten") \in CallType
  BY EndedFields DEF Outcomes
<1> QED BY <1>1 DEF Refused

LEMMA HungUpCalls ==
  ASSUME call \in [Calls -> CallType], NEW K
  PROVE  AfterHangUp(K) \in [Calls -> CallType]
<1>1. Ended("notWritten") \in CallType /\ Ended("unknown") \in CallType
  BY EndedFields DEF Outcomes
<1> QED BY <1>1 DEF AfterHangUp

LEMMA EndCalls ==
  ASSUME call \in [Calls -> CallType], NEW c \in Calls, NEW o \in Outcomes
  PROVE  End(c, o) \in [Calls -> CallType]
<1>1. Ended(o) \in CallType
  BY EndedFields
<1> QED BY <1>1 DEF End

LEMMA NowCalls ==
  ASSUME call \in [Calls -> CallType], NEW c \in Calls, NEW p \in Phases
  PROVE  Now(c, p) \in [Calls -> CallType]
BY DEF Now, CallType

LEMMA InterruptedType ==
  ASSUME NEW r \in SUBSET Threads, Interrupted(r), TypeOK
  PROVE  /\ owner' \in [Threads -> 0..MaxConnections]
         /\ unroutable' \subseteq Threads /\ asked' \subseteq Threads
BY SessionAssumption DEF Interrupted, NoOwner

LEMMA HangUpType ==
  ASSUME NEW K \in SUBSET (0..MaxConnections), HangUp(K), TypeOK
  PROVE  /\ link' \in [Connections -> {"down", "up", "lost", "ended"}]
         /\ owner' \in [Threads -> 0..MaxConnections]
         /\ unroutable' \subseteq Threads /\ asked' \subseteq Threads
<1>1. link' \in [Connections -> {"down", "up", "lost", "ended"}]
  BY DEF HangUp, TypeOK
<1>2. CASE Ending(K) # {}
  <2>1. followed \in SUBSET Threads /\ Interrupted(followed)
    BY <1>2 DEF HangUp, TypeOK
  <2> QED BY <1>1, <2>1, InterruptedType
<1>3. CASE Ending(K) = {}
  BY <1>1, <1>3 DEF HangUp, TypeOK
<1> QED BY <1>2, <1>3

LEMMA InvalidateType ==
  ASSUME NEW t \in Threads, NEW S, Invalidate(t, S), TypeOK
  PROVE  /\ owner' \in [Threads -> 0..MaxConnections]
         /\ unroutable' \subseteq Threads /\ asked' \subseteq Threads
         /\ call' \in [Calls -> CallType]
<1>1. call \in [Calls -> CallType]
  BY DEF TypeOK, CallType
<1>2. call' \in [Calls -> CallType]
  BY <1>1, RefusedCalls DEF Invalidate
<1>3. owner' \in [Threads -> 0..MaxConnections]
  BY SessionAssumption DEF Invalidate, TypeOK, NoOwner
<1>4. unroutable' \subseteq Threads /\ asked' \subseteq Threads
  BY DEF Invalidate, TypeOK
<1> QED BY <1>2, <1>3, <1>4

LEMMA ReconnectType ==
  ASSUME NEW c \in Calls, NEW cs \in [Calls -> CallType], Reconnect(c, cs), TypeOK
  PROVE  /\ reconnecting' \in 0..MaxConnections /\ opened' \in Connections
         /\ stage' \in [Connections -> Opening \cup {"none", "ready", "failed"}]
         /\ call' \in [Calls -> CallType]
<1>1. Ended("notWritten") \in CallType
  BY EndedFields DEF Outcomes
<1>2. CASE reconnecting # 0
  <2>1. call' \in [Calls -> CallType]
    BY <1>1, <1>2 DEF Reconnect, TypeOK, CallType, Phases
  <2> QED BY <1>2, <2>1 DEF Reconnect, TypeOK
<1>3. CASE reconnecting = 0
  <2>1. CASE /\ ~closing /\ opened < MaxConnections
             /\ opened' = opened + 1 /\ reconnecting' = opened + 1
             /\ Reached(opened + 1, "connecting")
             /\ call' = [cs EXCEPT ![c].phase = "reconnect", ![c].conn = opened + 1]
    <3>1. opened + 1 \in 0..MaxConnections /\ opened + 1 \in Connections
      BY <2>1, SessionAssumption DEF TypeOK, Connections
    <3>2. stage' \in [Connections -> Opening \cup {"none", "ready", "failed"}]
      BY <2>1, <3>1 DEF Reached, TypeOK, Opening
    <3>3. call' \in [Calls -> CallType]
      BY <2>1, <3>1 DEF CallType, Phases
    <3> QED BY <2>1, <3>1, <3>2, <3>3
  <2>2. CASE /\ call' = [cs EXCEPT ![c] = Ended("notWritten")]
             /\ UNCHANGED <<reconnecting, opened, stage>>
    BY <1>1, <2>2 DEF TypeOK
  <2> QED BY <1>3, <2>1, <2>2 DEF Reconnect
<1> QED BY <1>2, <1>3

-----------------------------------------------------------------------------
(* Types *)

LEMMA TypeStep ==
  ASSUME TypeOK, [Next]_vars
  PROVE  TypeOK'
<1>1. call \in [Calls -> CallType] /\ followed \in SUBSET Threads /\ {} \in SUBSET Threads
  BY DEF TypeOK, CallType
<1>2. \A c \in Calls : Thread[c] \in Threads
  BY SessionAssumption
<1>3. \A c \in Calls : {call[c].conn} \in SUBSET (0..MaxConnections)
  BY <1>1 DEF CallType
<1>4. \A k \in Connections : {k} \in SUBSET (0..MaxConnections)
  BY SessionAssumption DEF Connections
<1>5. Outcomes \subseteq Phases /\ {"accepted", "rejected", "malformed", "unknown", "notWritten", "followed", "unfollowed"} = Outcomes
  BY DEF Phases, Outcomes
<1>6. ASSUME NEW c \in Calls, NEW op \in Ops, Begin(c, op)
      PROVE  TypeOK'
  <2>1. [call EXCEPT ![c].op = op] \in [Calls -> CallType]
    BY <1>1 DEF CallType
  <2>2. CASE closing
    <3>1. Ended("notWritten") \in CallType
      BY EndedFields DEF Outcomes
    <3>2. call' \in [Calls -> CallType]
      BY <1>6, <2>1, <2>2, <3>1 DEF Begin
    <3> QED BY <1>6, <2>2, <3>2 DEF Begin, TypeOK, CallType, evidence
  <2>3. CASE ~closing /\ Alive(connection)
    <3>1. call' \in [Calls -> CallType]
      BY <1>6, <2>1, <2>3 DEF Begin, CallType, Phases, TypeOK
    <3> QED BY <1>6, <2>3, <3>1 DEF Begin, TypeOK, CallType, evidence
  <2>4. CASE ~closing /\ ~Alive(connection)
    <3>1. Reconnect(c, [call EXCEPT ![c].op = op])
      BY <1>6, <2>4 DEF Begin
    <3> QED BY <1>6, <2>1, <3>1, ReconnectType DEF Begin, TypeOK, CallType, evidence
  <2> QED BY <2>2, <2>3, <2>4
<1>7. ASSUME NEW c \in Calls, IdentityKept(c)
      PROVE  TypeOK'
  <2>1. call' \in [Calls -> CallType]
    BY <1>7, <1>1, EndCalls, NowCalls DEF IdentityKept, Outcomes, Phases
  <2> QED BY <1>7, <2>1 DEF IdentityKept, TypeOK, CallType, sockets, evidence
<1>8. ASSUME NEW c \in Calls, IdentityChanged(c)
      PROVE  TypeOK'
  <2>1. /\ HangUp({call[c].conn}) /\ Reconnect(c, AfterHangUp({call[c].conn}))
        /\ UNCHANGED <<closing, connection, restored, stale, followed, announced>>
    BY <1>8 DEF IdentityChanged
  <2>2. AfterHangUp({call[c].conn}) \in [Calls -> CallType]
    BY <1>1, HungUpCalls
  <2> QED BY <1>3, <2>1, <2>2, HangUpType, ReconnectType DEF TypeOK, CallType
<1>9. ASSUME NEW c \in Calls, ReconnectSettled(c)
      PROVE  TypeOK'
  <2>1. CASE stage[call[c].conn] = "ready" /\ closing
    <3>1. AfterHangUp({call[c].conn}) \in [Calls -> CallType]
      BY <1>1, HungUpCalls
    <3>2. Ended("notWritten") \in CallType
      BY EndedFields DEF Outcomes
    <3>3. HangUp({call[c].conn}) /\ call' \in [Calls -> CallType]
      BY <1>9, <2>1, <3>1, <3>2 DEF ReconnectSettled
    <3> QED BY <1>9, <1>3, <3>3, HangUpType DEF ReconnectSettled, TypeOK, CallType
  <2>2. CASE ~(stage[call[c].conn] = "ready" /\ closing)
    <3>1. call' \in [Calls -> CallType]
      BY <1>9, <1>1, <2>2, EndCalls, NowCalls DEF ReconnectSettled, Outcomes, Phases
    <3> QED BY <1>9, <2>2, <3>1 DEF ReconnectSettled, TypeOK, CallType
  <2> QED BY <2>1, <2>2
<1>10. ASSUME NEW c \in Calls, GiveUp(c)
      PROVE  TypeOK'
  <2>1. call' \in [Calls -> CallType]
    BY <1>10, <1>1, EndCalls DEF GiveUp, Outcomes
  <2> QED BY <1>10, <2>1 DEF GiveUp, TypeOK, CallType, sockets, evidence
<1>11. ASSUME NEW c \in Calls, Follow(c)
      PROVE  TypeOK'
  <2>1. call' \in [Calls -> CallType]
    <3>1. CASE Alive(call[c].conn)
      BY <1>11, <1>1, <3>1 DEF Follow, CallType, Phases
    <3>2. CASE ~Alive(call[c].conn)
      BY <1>11, <1>1, <3>2, EndCalls DEF Follow, Outcomes
    <3> QED BY <3>1, <3>2
  <2>2. /\ followed' \subseteq Threads /\ unroutable' \subseteq Threads /\ asked' \subseteq Threads
        /\ owner' \in [Threads -> 0..MaxConnections]
    BY <1>11, <1>2, SessionAssumption DEF Follow, TypeOK, NoOwner
  <2> QED BY <1>11, <2>1, <2>2 DEF Follow, TypeOK, CallType, sockets
<1>12. ASSUME NEW c \in Calls, Refresh(c)
      PROVE  TypeOK'
  <2>1. CASE Alive(call[c].conn)
    <3>1. call' \in [Calls -> CallType]
      BY <1>12, <1>1, <2>1, NowCalls DEF Refresh, Phases
    <3> QED BY <1>12, <1>2, <2>1, <3>1 DEF Refresh, TypeOK, CallType, sockets
  <2>2. CASE ~Alive(call[c].conn)
    BY <1>12, <1>2, <2>2, InvalidateType DEF Refresh, TypeOK, CallType, sockets
  <2> QED BY <2>1, <2>2
<1>13. ASSUME NEW c \in Calls, Flushed(c)
      PROVE  TypeOK'
  <2>1. call' \in [Calls -> CallType]
    BY <1>13, <1>1, EndCalls, NowCalls DEF Flushed, Outcomes, Phases
  <2> QED BY <1>13, <2>1 DEF Flushed, TypeOK, CallType, sockets, evidence
<1>14. ASSUME NEW c \in Calls, FlushFails(c)
      PROVE  TypeOK'
  <2>1. CASE call[c].op = "mutate"
    BY <1>14, <1>2, <2>1, InvalidateType DEF FlushFails, TypeOK, CallType, sockets
  <2>2. CASE call[c].op # "mutate"
    <3>1. call' \in [Calls -> CallType]
      BY <1>14, <1>1, <2>2, EndCalls DEF FlushFails, Outcomes
    <3>2. /\ followed' \subseteq Threads /\ unroutable' \subseteq Threads /\ asked' \subseteq Threads
          /\ owner' \in [Threads -> 0..MaxConnections]
      BY <1>14, <1>2, <2>2, SessionAssumption DEF FlushFails, TypeOK, NoOwner, evidence
    <3> QED BY <1>14, <3>1, <3>2 DEF FlushFails, TypeOK, CallType, sockets
  <2> QED BY <2>1, <2>2
<1>15. ASSUME NEW c \in Calls, AskOwner(c)
      PROVE  TypeOK'
  <2>1. CASE Invalidate(Thread[c], {c})
    BY <1>15, <1>2, <2>1, InvalidateType DEF AskOwner, TypeOK, CallType, sockets
  <2>2. CASE ~Invalidate(Thread[c], {c})
    <3>1. owner[Thread[c]] \in 0..MaxConnections
      BY <1>2 DEF TypeOK
    <3>2. [call EXCEPT ![c].phase = "routed", ![c].target = owner[Thread[c]]] \in [Calls -> CallType]
      BY <1>1, <3>1 DEF CallType, Phases
    <3>3. /\ \/ call' = End(c, "notWritten") \/ call' = Now(c, "waiting")
             \/ call' = [call EXCEPT ![c].phase = "routed", ![c].target = owner[Thread[c]]]
          /\ UNCHANGED <<owner, unroutable, asked>> /\ UNCHANGED <<sockets, followed>>
      BY <1>15, <2>2, Zenon DEF AskOwner
    <3>4. End(c, "notWritten") \in [Calls -> CallType] /\ Now(c, "waiting") \in [Calls -> CallType]
      BY <1>1, <1>15, EndCalls, NowCalls DEF Outcomes, Phases
    <3>5. call' \in [Calls -> CallType]
      BY <3>2, <3>3, <3>4, Zenon
    <3> QED BY <3>3, <3>5 DEF TypeOK, CallType, sockets
  <2> QED BY <2>1, <2>2
<1>16. ASSUME NEW c \in Calls, AskAnyone(c)
      PROVE  TypeOK'
  <2>1. owner[Thread[c]] \in 0..MaxConnections /\ NoOwner \in 0..MaxConnections
    BY <1>2, SessionAssumption DEF TypeOK, NoOwner
  <2>2. call' \in [Calls -> CallType]
    BY <1>16, <1>1, <2>1 DEF AskAnyone, CallType, Phases
  <2> QED BY <1>16, <2>2 DEF AskAnyone, TypeOK, CallType, sockets, evidence
<1>17. ASSUME NEW c \in Calls, OwnerTimeout(c)
      PROVE  TypeOK'
  BY <1>17, <1>2, InvalidateType DEF OwnerTimeout, TypeOK, CallType, sockets
<1>18. ASSUME NEW c \in Calls, Submit(c)
      PROVE  TypeOK'
  <2>1. call' \in [Calls -> CallType]
    BY <1>18, <1>1, NowCalls DEF Submit, Phases
  <2> QED BY <1>18, <2>1 DEF Submit, TypeOK, CallType, sockets, evidence
<1>19. ASSUME NEW c \in Calls, Reply(c)
      PROVE  TypeOK'
  <2>1. call' \in [Calls -> CallType]
    <3>1. Ended("rejected") \in CallType
      BY EndedFields DEF Outcomes
    <3>2. Refused(Waiting(Thread[c])) \in [Calls -> CallType]
      BY <1>1, RefusedCalls
    <3> QED BY <1>19, <1>1, <3>1, <3>2, EndCalls DEF Reply, Outcomes
  <2>2. /\ unroutable' \subseteq Threads /\ asked' \subseteq Threads
        /\ owner' \in [Threads -> 0..MaxConnections]
    BY <1>19, <1>2, SessionAssumption DEF Reply, TypeOK, NoOwner
  <2> QED BY <1>19, <2>1, <2>2 DEF Reply, TypeOK, CallType, sockets
<1>20. ASSUME NEW c \in Calls, Unanswered(c)
      PROVE  TypeOK'
  <2>1. call' \in [Calls -> CallType]
    BY <1>20, <1>1, EndCalls DEF Unanswered, Outcomes
  <2> QED BY <1>20, <2>1 DEF Unanswered, TypeOK, CallType, sockets, evidence
<1>21. ASSUME NEW k \in Connections, Connected(k)
      PROVE  TypeOK'
  BY <1>21 DEF Connected, Reached, TypeOK, Opening, evidence
<1>22. ASSUME NEW k \in Connections, Initialized(k)
      PROVE  TypeOK'
  <2>1. CASE k = 1
    BY <1>22, <1>4, <2>1 DEF Initialized, Reached, TypeOK
  <2>2. CASE k # 1
    <3>1. /\ owner' \in [Threads -> 0..MaxConnections]
          /\ unroutable' \subseteq Threads /\ asked' \subseteq Threads
      BY <1>22, <1>1, <2>2, InterruptedType DEF Initialized
    <3>2. call' \in [Calls -> CallType]
      BY <1>22, <1>1, <2>2, RefusedCalls DEF Initialized
    <3>3. stage' \in [Connections -> Opening \cup {"none", "ready", "failed"}]
      BY <1>22, <2>2 DEF Initialized, Reached, TypeOK, Opening
    <3>4. announced' \in 0..MaxConnections
      BY <1>22, <1>4 DEF Initialized
    <3> QED BY <1>22, <2>2, <3>1, <3>2, <3>3, <3>4 DEF Initialized, TypeOK, CallType
  <2> QED BY <2>1, <2>2
<1>23. ASSUME NEW k \in Connections, NEW t \in Threads, Restore(k, t)
      PROVE  TypeOK'
  BY <1>23 DEF Restore, TypeOK
<1>24. ASSUME NEW k \in Connections, Adopt(k)
      PROVE  TypeOK'
  BY <1>24, <1>4, SessionAssumption DEF Adopt, Reached, TypeOK, Opening, evidence
<1>25. ASSUME NEW k \in Connections, OpenFails(k)
      PROVE  TypeOK'
  <2>1. call' \in [Calls -> CallType]
    BY <1>25, <1>1, HungUpCalls DEF OpenFails
  <2>2. /\ reconnecting' \in 0..MaxConnections
        /\ stage' \in [Connections -> Opening \cup {"none", "ready", "failed"}]
    BY <1>25, SessionAssumption DEF OpenFails, Reached, TypeOK, Opening
  <2>3. /\ HangUp({k}) /\ restored' = {}
        /\ UNCHANGED <<closing, connection, opened, stale, followed, announced>>
    BY <1>25 DEF OpenFails
  <2> QED BY <1>4, <2>1, <2>2, <2>3, HangUpType DEF TypeOK, CallType
<1>26. ASSUME NEW k \in Connections, Lose(k)
      PROVE  TypeOK'
  BY <1>26 DEF Lose, TypeOK, evidence
<1>27. ASSUME NEW k \in Connections, Break(k)
      PROVE  TypeOK'
  <2>1. call' \in [Calls -> CallType]
    BY <1>27, <1>1, HungUpCalls DEF Break
  <2>2. /\ HangUp({k})
        /\ UNCHANGED <<closing, connection, reconnecting, opened, stage, restored, stale, followed, announced>>
    BY <1>27 DEF Break
  <2> QED BY <1>4, <2>1, <2>2, HangUpType DEF TypeOK, CallType
<1>28. ASSUME NEW k \in Connections, NEW t \in Threads, Snapshot(k, t)
      PROVE  TypeOK'
  <2>1. Newest \in 0..MaxConnections
    BY SessionAssumption DEF Newest, TypeOK, Connections
  <2>2. call' \in [Calls -> CallType]
    BY <1>28, <1>1, <2>1 DEF Snapshot, CallType, Phases
  <2> QED BY <1>28, <2>1, <2>2 DEF Snapshot, TypeOK, CallType, sockets
<1>29. ASSUME NEW k \in Connections, NEW t \in Threads, AnonymousSnapshot(k, t)
      PROVE  TypeOK'
  BY <1>29, InvalidateType DEF AnonymousSnapshot, TypeOK, CallType, sockets
<1>30. ASSUME Replace
      PROVE  TypeOK'
  BY <1>30, SessionAssumption DEF Replace, TypeOK, Connections, evidence
<1>31. ASSUME Close
      PROVE  TypeOK'
  <2> DEFINE K == {connection} \cup {k \in Connections : stage[k] \in {"handshake", "restoring"}}
  <2>1. call' \in [Calls -> CallType]
    <3>1. AfterHangUp(K) \in [Calls -> CallType]
      BY <1>1, HungUpCalls
    <3>2. Ended("notWritten") \in CallType
      BY EndedFields DEF Outcomes
    <3> QED BY <1>31, <3>1, <3>2 DEF Close
  <2>2. /\ owner' \in [Threads -> 0..MaxConnections]
        /\ unroutable' \subseteq Threads /\ asked' \subseteq Threads
    BY <1>31, <1>1, InterruptedType DEF Close
  <2>3. link' \in [Connections -> {"down", "up", "lost", "ended"}]
    BY <1>31 DEF Close, TypeOK
  <2>4. connection' \in 0..MaxConnections
    BY <1>31, SessionAssumption DEF Close
  <2> QED BY <1>31, <2>1, <2>2, <2>3, <2>4 DEF Close, TypeOK, CallType
<1>32. ASSUME UNCHANGED vars
      PROVE  TypeOK'
  BY <1>32 DEF TypeOK, vars
<1> QED
  BY <1>6, <1>7, <1>8, <1>9, <1>10, <1>11, <1>12, <1>13, <1>14, <1>15, <1>16, <1>17, <1>18, <1>19, <1>20, <1>21, <1>22, <1>23, <1>24, <1>25, <1>26, <1>27, <1>28, <1>29, <1>30, <1>31, <1>32
     DEF Next, Step, Wire

-----------------------------------------------------------------------------
(* What a step can do to a call *)

Stays(c) == call'[c] = call[c]

Unsent == {"notWritten", "followed", "unfollowed"}

\* It has its outcome, which agrees with what was written and answered.
Ends(c) ==
  \/ call[c].phase \notin Outcomes \cup {"sent"} /\ call'[c].phase \in Unsent
  \/ call[c].phase = "sent" /\ call'[c].phase = "unknown"
  \/ call[c].phase = "sent" /\ Alive(call[c].conn)
     /\ call'[c].phase \in {"accepted", "rejected", "malformed"}

\* It remembers the connection in use, or the one the reconnect opens.
Takes(c) ==
  /\ call[c].phase \in {"idle", "identity"}
  /\ \/ call'[c].phase = "identity" /\ call'[c].conn = connection /\ connection # 0
     \/ call'[c].phase = "reconnect" /\ call'[c].conn = reconnecting' /\ reconnecting' # 0

\* It goes on with the connection and the operation it has.
MovesOn(c) ==
  /\ call[c].phase \in (InUse \ {"sent"}) \cup {"reconnect"}
  /\ call'[c].phase \in InUse \ {"identity"}
  /\ call'[c].conn = call[c].conn /\ call'[c].op = call[c].op
  /\ call[c].phase = "reconnect" => stage[call[c].conn] = "ready"
  /\ call'[c].phase = "routed" /\ call[c].op = "mutate" =>
       call'[c].target # NoOwner /\ call'[c].target \in {owner[Thread[c]], Newest}
  /\ call'[c].phase = "sent" => /\ call[c].phase = "routed" /\ Alive(call[c].conn)
                                /\ call'[c].target = call[c].target

Moves(c) == Stays(c) \/ Ends(c) \/ Takes(c) \/ MovesOn(c)

LEMMA RefusedCall ==
  ASSUME NEW S, NEW d \in Calls
  PROVE  /\ d \in S => Refused(S)[d].phase = "notWritten"
         /\ d \notin S => Refused(S)[d] = call[d]
BY EndedFields DEF Refused, Outcomes

LEMMA HungUpCall ==
  ASSUME NEW K, NEW d \in Calls
  PROVE  /\ \/ AfterHangUp(K)[d] = call[d]
            \/ call[d].phase = "sent" /\ AfterHangUp(K)[d].phase = "unknown"
            \/ call[d].phase = "waiting" /\ AfterHangUp(K)[d].phase = "notWritten"
         /\ Ending(K) # {} => AfterHangUp(K)[d].phase # "waiting"
<1>1. Ended("notWritten").phase = "notWritten" /\ Ended("unknown").phase = "unknown"
  BY EndedFields DEF Outcomes
<1> QED BY <1>1 DEF AfterHangUp

LEMMA ReconnectCall ==
  ASSUME NEW c \in Calls, NEW cs \in [Calls -> CallType], Reconnect(c, cs), TypeOK,
         NEW d \in Calls
  PROVE  /\ d # c => call'[d] = cs[d]
         /\ \/ call'[c].phase = "notWritten"
            \/ call'[c].phase = "reconnect" /\ call'[c].conn = reconnecting' /\ reconnecting' # 0
<1>1. Ended("notWritten").phase = "notWritten"
  BY EndedFields DEF Outcomes
<1>2. opened + 1 # 0
  BY DEF TypeOK, Connections
<1> QED BY <1>1, <1>2 DEF Reconnect, CallType

LEMMA InvalidateCall ==
  ASSUME NEW t, NEW S, Invalidate(t, S),
         \A c \in S : call[c].phase \notin Outcomes \cup {"sent"},
         NEW d \in Calls
  PROVE  Moves(d)
BY RefusedCall DEF Invalidate, Waiting, Moves, Stays, Ends, Unsent, Outcomes

LEMMA CallMoves ==
  ASSUME TypeOK, Next, NEW d \in Calls
  PROVE  Moves(d)
<1>1. call \in [Calls -> CallType]
  BY DEF TypeOK, CallType
<1>2. \A o \in Outcomes : Ended(o).phase = o
  BY EndedFields
<1>3. ASSUME NEW c \in Calls, NEW op \in Ops, Begin(c, op)
      PROVE  Moves(d)
  <2>1. [call EXCEPT ![c].op = op] \in [Calls -> CallType]
    BY <1>1 DEF CallType
  <2>2. CASE closing
    BY <1>3, <1>1, <1>2, <2>2 DEF Begin, Moves, Stays, Ends, Unsent, Takes, Phases, Outcomes
  <2>3. CASE ~closing /\ Alive(connection)
    <3>1. PICK cs \in [Calls -> CallType] :
            /\ call' = [cs EXCEPT ![c].phase = "identity", ![c].conn = connection]
            /\ cs = [call EXCEPT ![c].op = op]
      BY <1>3, <2>1, <2>3 DEF Begin
    <3>2. d # c => call'[d] = call[d]
      BY <1>1, <3>1
    <3>3. call'[c].phase = "identity" /\ call'[c].conn = connection
      BY <3>1 DEF CallType
    <3> QED BY <1>3, <2>3, <3>2, <3>3 DEF Begin, Alive, Moves, Stays, Takes
  <2>4. CASE ~closing /\ ~Alive(connection)
    <3>1. Reconnect(c, [call EXCEPT ![c].op = op]) /\ call[c].phase = "idle"
      BY <1>3, <2>4 DEF Begin
    <3>2. d # c => call'[d] = call[d]
      BY <1>1, <2>1, <3>1, ReconnectCall
    <3>3. \/ call'[c].phase = "notWritten"
          \/ call'[c].phase = "reconnect" /\ call'[c].conn = reconnecting' /\ reconnecting' # 0
      BY <2>1, <3>1, ReconnectCall
    <3> QED BY <3>1, <3>2, <3>3 DEF Moves, Stays, Ends, Unsent, Takes, Phases, Outcomes
  <2> QED BY <2>2, <2>3, <2>4
<1>4. ASSUME NEW c \in Calls, IdentityKept(c)
      PROVE  Moves(d)
  BY <1>4, <1>1, <1>2 DEF IdentityKept, End, Now, Moves, Stays, Ends, Unsent, Takes, MovesOn, CallType, Phases, Outcomes, InUse
<1>5. ASSUME NEW c \in Calls, IdentityChanged(c)
      PROVE  Moves(d)
  <2>1. /\ Reconnect(c, AfterHangUp({call[c].conn}))
        /\ call[c].phase = "identity"
    BY <1>5 DEF IdentityChanged
  <2>2. AfterHangUp({call[c].conn}) \in [Calls -> CallType]
    BY <1>1, HungUpCalls
  <2>3. d # c => call'[d] = AfterHangUp({call[c].conn})[d]
    BY <2>1, <2>2, ReconnectCall
  <2>4. \/ call'[c].phase = "notWritten"
        \/ call'[c].phase = "reconnect" /\ call'[c].conn = reconnecting' /\ reconnecting' # 0
    BY <2>1, <2>2, ReconnectCall
  <2> QED BY <2>1, <2>3, <2>4, HungUpCall DEF Moves, Stays, Ends, Unsent, Takes, Outcomes
<1>6. ASSUME NEW c \in Calls, ReconnectSettled(c)
      PROVE  Moves(d)
  <2>1. CASE stage[call[c].conn] = "ready" /\ closing
    <3>1. AfterHangUp({call[c].conn}) \in [Calls -> CallType]
      BY <1>1, HungUpCalls
    <3>2. /\ call' = [AfterHangUp({call[c].conn}) EXCEPT ![c] = Ended("notWritten")]
          /\ call[c].phase = "reconnect"
      BY <1>6, <2>1 DEF ReconnectSettled
    <3> QED BY <1>2, <3>1, <3>2, HungUpCall DEF Moves, Stays, Ends, Unsent, Outcomes
  <2>2. CASE ~(stage[call[c].conn] = "ready" /\ closing)
    BY <1>6, <1>1, <1>2, <2>2 DEF ReconnectSettled, End, Now, Moves, Stays, Ends, Unsent, Takes, MovesOn, CallType, Phases, Outcomes, InUse
  <2> QED BY <2>1, <2>2
<1>7. ASSUME NEW c \in Calls, GiveUp(c)
      PROVE  Moves(d)
  BY <1>7, <1>1, <1>2 DEF GiveUp, End, Now, Moves, Stays, Ends, Unsent, Takes, MovesOn, CallType, Phases, Outcomes, InUse
<1>8. ASSUME NEW c \in Calls, Follow(c)
      PROVE  Moves(d)
  <2>1. CASE Alive(call[c].conn)
    BY <1>8, <1>1, <2>1 DEF Follow, sockets, Moves, Stays, Ends, Unsent, Takes, MovesOn, CallType, Phases, Outcomes, InUse
  <2>2. CASE ~Alive(call[c].conn)
    BY <1>8, <1>1, <1>2, <2>2 DEF Follow, End, sockets, Moves, Stays, Ends, Unsent, Takes, MovesOn, CallType, Phases, Outcomes, InUse
  <2> QED BY <2>1, <2>2
<1>9. ASSUME NEW c \in Calls, Refresh(c)
      PROVE  Moves(d)
  <2>1. CASE ~Alive(call[c].conn)
    <3>1. Invalidate(Thread[c], {c}) /\ call[c].phase \notin Outcomes \cup {"sent"}
      BY <1>9, <2>1 DEF Refresh, Outcomes
    <3> QED BY <3>1, InvalidateCall
  <2>2. CASE Alive(call[c].conn)
    BY <1>9, <1>1, <1>2, <2>2 DEF Refresh, End, Now, Moves, Stays, Ends, Unsent, Takes, MovesOn, CallType, Phases, Outcomes, InUse
  <2> QED BY <2>1, <2>2
<1>10. ASSUME NEW c \in Calls, Flushed(c)
      PROVE  Moves(d)
  BY <1>10, <1>1, <1>2 DEF Flushed, End, Now, Moves, Stays, Ends, Unsent, Takes, MovesOn, CallType, Phases, Outcomes, InUse
<1>11. ASSUME NEW c \in Calls, FlushFails(c)
      PROVE  Moves(d)
  <2>1. CASE call[c].op = "mutate"
    <3>1. Invalidate(Thread[c], {c}) /\ call[c].phase \notin Outcomes \cup {"sent"}
      BY <1>11, <2>1 DEF FlushFails, Outcomes
    <3> QED BY <3>1, InvalidateCall
  <2>2. CASE call[c].op # "mutate"
    BY <1>11, <1>1, <1>2, <2>2 DEF FlushFails, End, Now, Moves, Stays, Ends, Unsent, Takes, MovesOn, CallType, Phases, Outcomes, InUse
  <2> QED BY <2>1, <2>2
<1>12. ASSUME NEW c \in Calls, AskOwner(c)
      PROVE  Moves(d)
  <2>1. CASE Invalidate(Thread[c], {c})
    <3>1. Invalidate(Thread[c], {c}) /\ call[c].phase \notin Outcomes \cup {"sent"}
      BY <1>12, <2>1 DEF AskOwner, Outcomes
    <3> QED BY <3>1, InvalidateCall
  <2>2. CASE ~Invalidate(Thread[c], {c})
    <3>1. /\ \/ call' = End(c, "notWritten") \/ call' = Now(c, "waiting")
             \/ /\ call' = [call EXCEPT ![c].phase = "routed", ![c].target = owner[Thread[c]]]
                /\ owner[Thread[c]] # NoOwner
          /\ call[c].phase \in {"ready", "refreshed"}
      BY <1>12, <2>2, Zenon DEF AskOwner
    <3> QED BY <1>1, <1>2, <3>1 DEF End, Now, Moves, Stays, Ends, Unsent, Takes, MovesOn, CallType, Phases, Outcomes, InUse
  <2> QED BY <2>1, <2>2
<1>13. ASSUME NEW c \in Calls, AskAnyone(c)
      PROVE  Moves(d)
  BY <1>13, <1>1 DEF AskAnyone, Moves, Stays, Ends, Unsent, Takes, MovesOn, CallType, Phases, Outcomes, InUse
<1>14. ASSUME NEW c \in Calls, OwnerTimeout(c)
      PROVE  Moves(d)
  <2>1. Invalidate(Thread[c], {c}) /\ call[c].phase \notin Outcomes \cup {"sent"}
    BY <1>14 DEF OwnerTimeout, Outcomes
  <2> QED BY <2>1, InvalidateCall
<1>15. ASSUME NEW c \in Calls, Submit(c)
      PROVE  Moves(d)
  BY <1>15, <1>1, <1>2 DEF Submit, End, Now, Moves, Stays, Ends, Unsent, Takes, MovesOn, CallType, Phases, Outcomes, InUse
<1>16. ASSUME NEW c \in Calls, Reply(c)
      PROVE  Moves(d)
  <2>1. CASE \E answer \in {"accepted", "malformed"} : call' = End(c, answer)
    BY <1>16, <1>1, <1>2, <2>1 DEF Reply, End, Moves, Stays, Ends, Unsent, Takes, MovesOn, CallType, Phases, Outcomes, InUse
  <2>2. CASE call' = [Refused(Waiting(Thread[c])) EXCEPT ![c] = Ended("rejected")]
    <3>1. call[c].phase = "sent" /\ Alive(call[c].conn)
      BY <1>16 DEF Reply
    <3>2. Refused(Waiting(Thread[c])) \in [Calls -> CallType]
      BY <1>1, RefusedCalls
    <3> QED BY <1>2, <2>2, <3>1, <3>2, RefusedCall DEF Waiting, Moves, Stays, Ends, Unsent, Outcomes
  <2> QED BY <1>16, <2>1, <2>2 DEF Reply
<1>17. ASSUME NEW c \in Calls, Unanswered(c)
      PROVE  Moves(d)
  BY <1>17, <1>1, <1>2 DEF Unanswered, End, Now, Moves, Stays, Ends, Unsent, Takes, MovesOn, CallType, Phases, Outcomes, InUse
<1>18. ASSUME NEW k \in Connections, Connected(k) \/ Lose(k) \/ Adopt(k)
      PROVE  Moves(d)
  BY <1>18 DEF Connected, Lose, Adopt, Moves, Stays
<1>19. ASSUME NEW k \in Connections, Initialized(k)
      PROVE  Moves(d)
  <2>1. CASE k = 1
    BY <1>19, <2>1 DEF Initialized, Moves, Stays
  <2>2. CASE k # 1
    <3>1. call' = Refused({c \in Calls : call[c].phase = "waiting"})
      BY <1>19, <2>2 DEF Initialized
    <3> QED BY <3>1, RefusedCall DEF Moves, Stays, Ends, Unsent, Outcomes
  <2> QED BY <2>1, <2>2
<1>20. ASSUME NEW k \in Connections, OpenFails(k) \/ Break(k)
      PROVE  Moves(d)
  <2>1. call' = AfterHangUp({k})
    BY <1>20 DEF OpenFails, Break
  <2> QED BY <2>1, HungUpCall DEF Moves, Stays, Ends, Unsent, Outcomes
<1>21. ASSUME NEW k \in Connections, NEW t \in Threads, Restore(k, t)
      PROVE  Moves(d)
  BY <1>21 DEF Restore, Moves, Stays
<1>22. ASSUME NEW k \in Connections, NEW t \in Threads, Snapshot(k, t)
      PROVE  Moves(d)
  <2>1. CASE d \in Waiting(t)
    <3>1. call'[d] = [call[d] EXCEPT !.phase = "routed", !.target = Newest]
      BY <1>22, <2>1 DEF Snapshot
    <3>2. /\ call'[d].phase = "routed" /\ call'[d].target = Newest
          /\ call'[d].conn = call[d].conn /\ call'[d].op = call[d].op
      BY <1>1, <3>1 DEF CallType
    <3>3. Newest # NoOwner
      BY DEF Newest, NoOwner, TypeOK, Connections
    <3> QED BY <1>22, <2>1, <3>2, <3>3 DEF Snapshot, Waiting, Moves, MovesOn, InUse
  <2>2. CASE d \notin Waiting(t)
    BY <1>22, <2>2 DEF Snapshot, Moves, Stays
  <2> QED BY <2>1, <2>2
<1>23. ASSUME NEW k \in Connections, NEW t \in Threads, AnonymousSnapshot(k, t)
      PROVE  Moves(d)
  <2>1. Invalidate(t, {})
    BY <1>23 DEF AnonymousSnapshot
  <2> QED BY <2>1, InvalidateCall
<1>24. ASSUME Replace
      PROVE  Moves(d)
  BY <1>24 DEF Replace, Moves, Stays
<1>25. ASSUME Close
      PROVE  Moves(d)
  <2>1. PICK K : /\ call' = [c \in Calls |-> IF call[c].phase = "waiting" THEN Ended("notWritten")
                                                                      ELSE AfterHangUp(K)[c]]
                
    BY <1>25 DEF Close
  <2> QED BY <1>2, <2>1, HungUpCall DEF Moves, Stays, Ends, Unsent, Outcomes
<1> QED
  BY <1>3, <1>4, <1>5, <1>6, <1>7, <1>8, <1>9, <1>10, <1>11, <1>12, <1>13, <1>14, <1>15, <1>16, <1>17, <1>18, <1>19, <1>20, <1>21, <1>22, <1>23, <1>24, <1>25
     DEF Next, Step, Wire

-----------------------------------------------------------------------------
(* Connections *)

\* The stages are settled; only a reconnect or the opening changes them.
Settled == UNCHANGED <<closing, connection, reconnecting, opened, stage>>

LEMMA StageStep ==
  ASSUME TypeOK, StageInv, Next
  PROVE  /\ StageInv'
         /\ \A k \in Connections : stage[k] = "ready" => stage'[k] = "ready"
<1> DEFINE Goal == /\ StageInv'
                   /\ \A k \in Connections : stage[k] = "ready" => stage'[k] = "ready"
<1>1. CASE Settled
  BY <1>1 DEF Settled, StageInv
<1>2. ASSUME NEW c \in Calls, NEW cs, Reconnect(c, cs), UNCHANGED <<closing, connection>>
      PROVE  Goal
  <2>1. CASE UNCHANGED <<reconnecting, opened, stage>>
    BY <1>1, <1>2, <2>1 DEF Settled
  <2>2. CASE /\ reconnecting = 0 /\ ~closing /\ opened < MaxConnections
             /\ opened' = opened + 1 /\ reconnecting' = opened + 1
             /\ Reached(opened + 1, "connecting")
    <3>1. opened \in 1..MaxConnections /\ opened + 1 \in Connections
      BY <2>2, SessionAssumption DEF TypeOK, Connections
    <3>2. /\ stage'[opened + 1] = "connecting"
          /\ \A k \in Connections : k # opened + 1 => stage'[k] = stage[k]
      BY <2>2, <3>1 DEF Reached, TypeOK
    <3>3. stage[opened + 1] = "none"
      BY <3>1 DEF StageInv
    <3>4. \A k \in Connections : stage'[k] = "none" <=> k > opened + 1
      BY <3>1, <3>2 DEF StageInv, Connections
    <3>5. \A k \in Connections : stage'[k] \in Opening => k = 1 \/ reconnecting' = k
      BY <2>2, <3>2 DEF StageInv, Connections
    <3>6. connection # 0 => stage'[connection] = "ready"
      BY <3>2, <3>3 DEF StageInv, TypeOK, Connections
    <3>7. 1 \in Connections /\ opened + 1 # 1
      BY <3>1, SessionAssumption DEF Connections
    <3>8. "connecting" \in Opening
      BY DEF Opening
    <3> QED BY <1>2, <2>2, <3>1, <3>2, <3>3, <3>4, <3>5, <3>6, <3>7, <3>8 DEF StageInv
  <2> QED BY <1>2, <2>1, <2>2 DEF Reconnect
<1>3. ASSUME NEW c \in Calls, NEW op \in Ops, Begin(c, op)
      PROVE  Goal
  <2>1. CASE UNCHANGED <<reconnecting, opened, stage>>
    BY <1>1, <1>3, <2>1 DEF Begin, Settled
  <2>2. CASE ~UNCHANGED <<reconnecting, opened, stage>>
    <3>1. Reconnect(c, [call EXCEPT ![c].op = op]) /\ UNCHANGED <<closing, connection>>
      BY <1>3, <2>2 DEF Begin
    <3> QED BY <1>2, <3>1
  <2> QED BY <2>1, <2>2
<1>4. ASSUME NEW c \in Calls, IdentityChanged(c)
      PROVE  Goal
  <2>1. Reconnect(c, AfterHangUp({call[c].conn})) /\ UNCHANGED <<closing, connection>>
    BY <1>4 DEF IdentityChanged
  <2> QED BY <1>2, <2>1
<1>5. ASSUME NEW c \in Calls, \/ IdentityKept(c) \/ ReconnectSettled(c) \/ GiveUp(c)
                              \/ Follow(c) \/ Refresh(c) \/ Flushed(c) \/ FlushFails(c)
                              \/ AskOwner(c) \/ AskAnyone(c) \/ OwnerTimeout(c)
                              \/ Submit(c) \/ Reply(c) \/ Unanswered(c)
      PROVE  Goal
  <2>1. Settled
    BY <1>5 DEF IdentityKept, ReconnectSettled, GiveUp, Follow, Refresh, Flushed, FlushFails,
                AskOwner, AskAnyone, OwnerTimeout, Submit, Reply, Unanswered, Settled, sockets
  <2> QED BY <1>1, <2>1
<1>6. ASSUME NEW k \in Connections,
             \/ Lose(k) \/ Break(k)
             \/ \E t \in Threads : Restore(k, t) \/ Snapshot(k, t) \/ AnonymousSnapshot(k, t)
      PROVE  Goal
  <2>1. Settled
    BY <1>6 DEF Lose, Break, Restore, Snapshot, AnonymousSnapshot, Settled, sockets
  <2> QED BY <1>1, <2>1
<1>7. CASE Replace
  BY <1>1, <1>7 DEF Replace, Settled
<1>8. ASSUME NEW k \in Connections, Connected(k)
      PROVE  Goal
  BY <1>8, SessionAssumption DEF Connected, Reached, StageInv, Opening, TypeOK, Connections
<1>9. ASSUME NEW k \in Connections, Initialized(k)
      PROVE  Goal
  <2>1. CASE k = 1
    BY <1>9, <2>1, SessionAssumption DEF Initialized, Reached, StageInv, Opening, TypeOK, Connections
  <2>2. CASE k # 1
    BY <1>9, <2>2, SessionAssumption DEF Initialized, Reached, StageInv, Opening, TypeOK, Connections
  <2> QED BY <2>1, <2>2
<1>10. ASSUME NEW k \in Connections, Adopt(k)
       PROVE  Goal
  BY <1>10, SessionAssumption DEF Adopt, Reached, StageInv, Opening, TypeOK, Connections
<1>11. ASSUME NEW k \in Connections, OpenFails(k)
       PROVE  Goal
  BY <1>11, SessionAssumption DEF OpenFails, Reached, StageInv, Opening, TypeOK, Connections
<1>12. CASE Close
  BY <1>12 DEF Close, StageInv
<1> QED
  BY <1>3, <1>4, <1>5, <1>6, <1>7, <1>8, <1>9, <1>10, <1>11, <1>12 DEF Next, Step, Wire

LEMMA HeldStep ==
  ASSUME TypeOK, StageInv, HeldInv, Next
  PROVE  HeldInv'
<1> SUFFICES ASSUME NEW c \in Calls
             PROVE  /\ call'[c].phase \in InUse \cup {"reconnect"} => call'[c].conn # 0
                    /\ call'[c].phase \in InUse => stage'[call'[c].conn] = "ready"
  BY DEF HeldInv
<1>1. Moves(c)
  BY CallMoves
<1>2. \A k \in Connections : stage[k] = "ready" => stage'[k] = "ready"
  BY StageStep
<1>3. call[c].conn \in 0..MaxConnections /\ connection \in 0..MaxConnections
  BY DEF TypeOK
<1>4. \A k \in 1..MaxConnections : stage[k] = "ready" => stage'[k] = "ready"
  BY <1>2 DEF Connections
<1>5. CASE Stays(c)
  BY <1>3, <1>4, <1>5 DEF Stays, HeldInv
<1>6. CASE Ends(c)
  BY <1>6 DEF Ends, Unsent, Outcomes, InUse
<1>7. CASE Takes(c)
  BY <1>3, <1>4, <1>7 DEF Takes, StageInv, InUse
<1>8. CASE MovesOn(c)
  BY <1>3, <1>4, <1>8 DEF MovesOn, HeldInv, InUse
<1> QED BY <1>1, <1>5, <1>6, <1>7, <1>8 DEF Moves

-----------------------------------------------------------------------------
(* Owners *)

\* An owner is kept, forgotten, or learned now.
LEMMA OwnerMoves ==
  ASSUME TypeOK, Next, NEW t \in Threads
  PROVE  owner'[t] \in {owner[t], NoOwner, Newest}
<1>1. ASSUME NEW u \in Threads, NEW S, Invalidate(u, S)
      PROVE  owner'[t] \in {owner[t], NoOwner}
  BY <1>1 DEF Invalidate, TypeOK
<1>2. ASSUME NEW K, HangUp(K)
      PROVE  owner'[t] \in {owner[t], NoOwner}
  BY <1>2 DEF HangUp, Interrupted
<1>3. \A c \in Calls : Thread[c] \in Threads
  BY SessionAssumption
<1>4. ASSUME NEW c \in Calls,
             \/ (\E op \in Ops : Begin(c, op)) \/ IdentityKept(c) \/ GiveUp(c) \/ Flushed(c)
             \/ AskAnyone(c) \/ Submit(c) \/ Unanswered(c)
      PROVE  owner' = owner
  BY <1>4 DEF Begin, IdentityKept, GiveUp, Flushed, AskAnyone, Submit, Unanswered, evidence
<1>5. ASSUME NEW c \in Calls, IdentityChanged(c) \/ ReconnectSettled(c)
      PROVE  owner'[t] \in {owner[t], NoOwner}
  BY <1>2, <1>5 DEF IdentityChanged, ReconnectSettled
<1>6. ASSUME NEW c \in Calls, Follow(c) \/ Reply(c)
      PROVE  owner'[t] \in {owner[t], NoOwner}
  BY <1>6 DEF Follow, Reply, TypeOK
<1>7. ASSUME NEW c \in Calls, Refresh(c) \/ FlushFails(c) \/ AskOwner(c) \/ OwnerTimeout(c)
      PROVE  owner'[t] \in {owner[t], NoOwner}
  <2>1. CASE Invalidate(Thread[c], {c})
    BY <1>1, <1>3, <2>1
  <2>2. CASE owner' = owner
    BY <2>2
  <2>3. CASE owner' = [owner EXCEPT ![Thread[c]] = NoOwner]
    BY <2>3 DEF TypeOK
  <2> QED BY <1>7, <2>1, <2>2, <2>3, Zenon
          DEF Refresh, FlushFails, AskOwner, OwnerTimeout, evidence
<1>8. ASSUME NEW k \in Connections, OpenFails(k) \/ Break(k)
      PROVE  owner'[t] \in {owner[t], NoOwner}
  BY <1>2, <1>8 DEF OpenFails, Break
<1>9. ASSUME NEW k \in Connections, NEW u \in Threads,
             Restore(k, u) \/ Snapshot(k, u) \/ AnonymousSnapshot(k, u)
      PROVE  owner'[t] \in {owner[t], NoOwner, Newest}
  BY <1>1, <1>9 DEF Restore, Snapshot, AnonymousSnapshot, TypeOK
<1>10. ASSUME NEW k \in Connections, Connected(k) \/ Initialized(k) \/ Adopt(k) \/ Lose(k)
       PROVE  owner'[t] \in {owner[t], NoOwner}
  BY <1>10 DEF Connected, Initialized, Adopt, Lose, Interrupted, evidence
<1>11. ASSUME Replace \/ Close
       PROVE  owner'[t] \in {owner[t], NoOwner}
  BY <1>11 DEF Replace, Close, Interrupted, evidence
<1> QED
  BY <1>4, <1>5, <1>6, <1>7, <1>8, <1>9, <1>10, <1>11 DEF Next, Step, Wire

\* A connection is ready or restoring as it was, or has just been initialized.
LEMMA StageMoves ==
  ASSUME TypeOK, StageInv, Next, NEW k \in Connections,
         stage'[k] \in {"restoring", "ready"}
  PROVE  \/ stage[k] \in {"restoring", "ready"}
         \/ stage[k] = "handshake" /\ (k = 1 \/ \A t \in Threads : owner'[t] = NoOwner)
<1> DEFINE Goal == \/ stage[k] \in {"restoring", "ready"}
                   \/ stage[k] = "handshake" /\ (k = 1 \/ \A t \in Threads : owner'[t] = NoOwner)
<1>1. CASE stage' = stage
  BY <1>1
<1>2. ASSUME NEW c \in Calls, NEW cs, Reconnect(c, cs)
      PROVE  Goal
  <2>1. CASE opened < MaxConnections /\ Reached(opened + 1, "connecting")
    <3>1. opened + 1 \in Connections
      BY <2>1, SessionAssumption DEF TypeOK, Connections
    <3> QED BY <2>1, <3>1 DEF Reached, TypeOK
  <2> QED BY <1>1, <1>2, <2>1 DEF Reconnect
<1>3. ASSUME NEW c \in Calls, \/ (\E op \in Ops : Begin(c, op)) \/ IdentityChanged(c)
      PROVE  Goal
  BY <1>1, <1>2, <1>3 DEF Begin, IdentityChanged
<1>4. ASSUME NEW c \in Calls, \/ IdentityKept(c) \/ ReconnectSettled(c) \/ GiveUp(c)
                              \/ Follow(c) \/ Refresh(c) \/ Flushed(c) \/ FlushFails(c)
                              \/ AskOwner(c) \/ AskAnyone(c) \/ OwnerTimeout(c)
                              \/ Submit(c) \/ Reply(c) \/ Unanswered(c)
      PROVE  Goal
  BY <1>1, <1>4 DEF IdentityKept, ReconnectSettled, GiveUp, Follow, Refresh, Flushed, FlushFails,
                    AskOwner, AskAnyone, OwnerTimeout, Submit, Reply, Unanswered, sockets
<1>5. ASSUME NEW j \in Connections,
             \/ Lose(j) \/ Break(j)
             \/ \E t \in Threads : Restore(j, t) \/ Snapshot(j, t) \/ AnonymousSnapshot(j, t)
      PROVE  Goal
  BY <1>1, <1>5 DEF Lose, Break, Restore, Snapshot, AnonymousSnapshot, sockets
<1>6. ASSUME NEW j \in Connections, Connected(j) \/ Adopt(j) \/ OpenFails(j)
      PROVE  Goal
  BY <1>6 DEF Connected, Adopt, OpenFails, Reached, TypeOK
<1>7. ASSUME NEW j \in Connections, Initialized(j)
      PROVE  Goal
  BY <1>7 DEF Initialized, Interrupted, Reached, TypeOK
<1>8. ASSUME Replace \/ Close
      PROVE  Goal
  BY <1>1, <1>8 DEF Replace, Close
<1> QED
  BY <1>3, <1>4, <1>5, <1>6, <1>7, <1>8 DEF Next, Step, Wire

LEMMA OwnerStep ==
  ASSUME TypeOK, StageInv, OwnerInv, Next
  PROVE  OwnerInv'
<1> SUFFICES ASSUME NEW t \in Threads, owner'[t] # NoOwner,
                    NEW k \in Connections, stage'[k] \in {"restoring", "ready"}
             PROVE  k <= owner'[t]
  BY DEF OwnerInv, Connections
<1>1. \/ stage[k] \in {"restoring", "ready"}
      \/ stage[k] = "handshake" /\ k = 1
  BY StageMoves
<1>2. owner'[t] \in {owner[t], Newest}
  BY OwnerMoves
<1>3. k <= opened
  BY <1>1 DEF StageInv, Connections, TypeOK
<1>4. CASE owner'[t] = Newest
  BY <1>3, <1>4 DEF Newest
<1>5. CASE owner'[t] = owner[t]
  <2>1. CASE stage[k] \in {"restoring", "ready"}
    BY <1>5, <2>1 DEF OwnerInv
  <2>2. CASE k = 1
    BY <1>5, <2>2, SessionAssumption DEF TypeOK, NoOwner
  <2> QED BY <1>1, <2>1, <2>2
<1> QED BY <1>2, <1>4, <1>5

LEMMA TargetStep ==
  ASSUME TypeOK, StageInv, HeldInv, OwnerInv, TargetInv, Next
  PROVE  TargetInv'
<1> SUFFICES ASSUME NEW c \in Calls, call'[c].phase \in {"routed", "sent"},
                    call'[c].op = "mutate"
             PROVE  call'[c].target # NoOwner /\ call'[c].target >= call'[c].conn
  BY DEF TargetInv
<1>1. Moves(c)
  BY CallMoves
<1>2. CASE Stays(c)
  BY <1>2 DEF Stays, TargetInv
<1>3. CASE MovesOn(c)
  <2>1. CASE call'[c].phase = "sent"
    BY <1>3, <2>1 DEF MovesOn, TargetInv
  <2>2. CASE call'[c].phase = "routed"
    <3>1. /\ call'[c].target # NoOwner /\ call'[c].target \in {owner[Thread[c]], Newest}
          /\ call'[c].conn = call[c].conn
      BY <1>3, <2>2 DEF MovesOn
    <3>2. call[c].conn # 0 /\ stage[call[c].conn] = "ready"
      BY <1>3 DEF MovesOn, HeldInv
    <3>3. call[c].conn \in Connections /\ Thread[c] \in Threads
      BY <3>2, SessionAssumption DEF TypeOK, Connections
    <3>4. owner[Thread[c]] # NoOwner => call[c].conn <= owner[Thread[c]]
      BY <3>2, <3>3 DEF OwnerInv
    <3>5. call[c].conn <= opened
      BY <3>2, <3>3 DEF StageInv, Connections, TypeOK
    <3>6. owner[Thread[c]] \in Int /\ opened \in Int /\ call[c].conn \in Int
      BY <3>3, SessionAssumption DEF TypeOK, Connections
    <3> QED BY <3>1, <3>4, <3>5, <3>6 DEF Newest
  <2> QED BY <2>1, <2>2
<1> QED BY <1>1, <1>2, <1>3 DEF Moves, Ends, Unsent, Takes, Outcomes

-----------------------------------------------------------------------------
(* Who waits for an owner *)

\* Invalidating an owner answers everyone who waits for it.
LEMMA InvalidateWakes ==
  ASSUME TypeOK, NoLostWakeup, NEW t \in Threads, NEW S, Invalidate(t, S), closing' = closing
  PROVE  NoLostWakeup'
<1> SUFFICES ASSUME NEW c \in Calls, call'[c].phase = "waiting"
             PROVE  ~closing' /\ owner'[Thread[c]] = NoOwner /\ Thread[c] \notin unroutable'
  BY DEF NoLostWakeup
<1>1. c \notin S \cup Waiting(t) /\ call'[c] = call[c]
  BY RefusedCall DEF Invalidate
<1>2. Thread[c] # t
  BY <1>1 DEF Waiting
<1> QED BY <1>1, <1>2 DEF Invalidate, NoLostWakeup, TypeOK

\* A connection that ends answers everyone who waits.
LEMMA HangUpWakes ==
  ASSUME TypeOK, NoLostWakeup, NEW K, HangUp(K), closing' = closing,
         \A c \in Calls : call'[c].phase = "waiting" => call'[c] = AfterHangUp(K)[c]
  PROVE  NoLostWakeup'
<1> SUFFICES ASSUME NEW c \in Calls, call'[c].phase = "waiting"
             PROVE  ~closing' /\ owner'[Thread[c]] = NoOwner /\ Thread[c] \notin unroutable'
  BY DEF NoLostWakeup
<1>1. Ending(K) = {} /\ call'[c] = call[c]
  BY HungUpCall
<1> QED BY <1>1 DEF HangUp, NoLostWakeup

LEMMA WakeStep ==
  ASSUME TypeOK, NoLostWakeup, Next
  PROVE  NoLostWakeup'
<1>1. call \in [Calls -> CallType] /\ \A c \in Calls : Thread[c] \in Threads
  BY SessionAssumption DEF TypeOK, CallType
<1>2. \A o \in Outcomes : Ended(o).phase = o
  BY EndedFields
<1>3. ASSUME UNCHANGED <<closing, owner, unroutable>>,
             \A c \in Calls : call'[c].phase = "waiting" => call[c].phase = "waiting"
      PROVE  NoLostWakeup'
  BY <1>3 DEF NoLostWakeup
<1>4. ASSUME NEW c \in Calls, NEW op \in Ops, Begin(c, op)
      PROVE  NoLostWakeup'
  <2>1. [call EXCEPT ![c].op = op] \in [Calls -> CallType]
    BY <1>1 DEF CallType
  <2>2. PICK cs \in [Calls -> CallType] :
          /\ cs = [call EXCEPT ![c].op = op]
          /\ \/ call' = [cs EXCEPT ![c] = Ended("notWritten")]
             \/ call' = [cs EXCEPT ![c].phase = "identity", ![c].conn = connection]
             \/ Reconnect(c, cs)
    BY <1>4, <2>1 DEF Begin
  <2>3. \A d \in Calls : cs[d].phase = call[d].phase
    BY <1>1, <2>2 DEF CallType
  <2>4. \A d \in Calls : call'[d].phase = "waiting" => cs[d].phase = "waiting"
    <3>1. CASE Reconnect(c, cs)
      BY <3>1, ReconnectCall
    <3> QED BY <1>2, <2>2, <3>1 DEF CallType, Outcomes
  <2> QED BY <1>3, <1>4, <2>3, <2>4 DEF Begin, evidence
<1>5. ASSUME NEW c \in Calls, IdentityKept(c) \/ GiveUp(c) \/ Flushed(c) \/ Submit(c) \/ Unanswered(c)
      PROVE  NoLostWakeup'
  <2>1. \A d \in Calls : call'[d].phase = "waiting" => call[d].phase = "waiting"
    BY <1>1, <1>2, <1>5 DEF IdentityKept, GiveUp, Flushed, Submit, Unanswered, End, Now, CallType, Outcomes
  <2> QED BY <1>3, <1>5, <2>1 DEF IdentityKept, GiveUp, Flushed, Submit, Unanswered, sockets, evidence
<1>6. ASSUME NEW c \in Calls, IdentityChanged(c)
      PROVE  NoLostWakeup'
  <2>1. AfterHangUp({call[c].conn}) \in [Calls -> CallType]
    BY <1>1, HungUpCalls
  <2>2. /\ HangUp({call[c].conn}) /\ closing' = closing
        /\ Reconnect(c, AfterHangUp({call[c].conn}))
    BY <1>6 DEF IdentityChanged
  <2> QED BY <2>1, <2>2, ReconnectCall, HangUpWakes
<1>7. ASSUME NEW c \in Calls, ReconnectSettled(c)
      PROVE  NoLostWakeup'
  <2>1. CASE stage[call[c].conn] = "ready" /\ closing
    <3>1. AfterHangUp({call[c].conn}) \in [Calls -> CallType]
      BY <1>1, HungUpCalls
    <3>2. /\ HangUp({call[c].conn}) /\ closing' = closing
          /\ call' = [AfterHangUp({call[c].conn}) EXCEPT ![c] = Ended("notWritten")]
      BY <1>7, <2>1 DEF ReconnectSettled
    <3>3. \A d \in Calls : call'[d].phase = "waiting" => call'[d] = AfterHangUp({call[c].conn})[d]
      BY <1>2, <3>1, <3>2 DEF Outcomes
    <3> QED BY <3>2, <3>3, HangUpWakes
  <2>2. CASE ~(stage[call[c].conn] = "ready" /\ closing)
    <3>1. \A d \in Calls : call'[d].phase = "waiting" => call[d].phase = "waiting"
      BY <1>1, <1>2, <1>7, <2>2 DEF ReconnectSettled, End, Now, CallType, Outcomes
    <3> QED BY <1>3, <1>7, <2>2, <3>1 DEF ReconnectSettled
  <2> QED BY <2>1, <2>2
<1>8. ASSUME NEW c \in Calls, Follow(c)
      PROVE  NoLostWakeup'
  <2>1. \A d \in Calls : call'[d].phase = "waiting" => call[d].phase = "waiting"
    <3>1. CASE Alive(call[c].conn)
      BY <1>1, <1>8, <3>1 DEF Follow, CallType
    <3>2. CASE ~Alive(call[c].conn)
      BY <1>1, <1>2, <1>8, <3>2 DEF Follow, End, Outcomes
    <3> QED BY <3>1, <3>2
  <2>2. closing' = closing /\ unroutable' \subseteq unroutable
    BY <1>8 DEF Follow, sockets
  <2>3. \A t \in Threads : owner[t] = NoOwner => owner'[t] = NoOwner
    BY <1>8 DEF Follow, TypeOK
  <2> QED BY <1>1, <2>1, <2>2, <2>3 DEF NoLostWakeup
<1>9. ASSUME NEW c \in Calls, Refresh(c)
      PROVE  NoLostWakeup'
  <2>1. CASE Invalidate(Thread[c], {c})
    BY <1>1, <1>9, <2>1, InvalidateWakes DEF Refresh, sockets
  <2>2. CASE /\ unroutable' = unroutable \ {Thread[c]} /\ call' = Now(c, "following")
             /\ UNCHANGED owner
    <3>1. \A d \in Calls : call'[d].phase = "waiting" => call[d].phase = "waiting"
      BY <1>1, <2>2 DEF Now, CallType
    <3> QED BY <1>9, <2>2, <3>1 DEF Refresh, sockets, NoLostWakeup
  <2> QED BY <1>9, <2>1, <2>2 DEF Refresh
<1>10. ASSUME NEW c \in Calls, FlushFails(c)
       PROVE  NoLostWakeup'
  <2>1. CASE call[c].op = "mutate"
    BY <1>1, <1>10, <2>1, InvalidateWakes DEF FlushFails, sockets
  <2>2. CASE call[c].op # "mutate"
    <3>1. \A d \in Calls : call'[d].phase = "waiting" => call[d].phase = "waiting"
      BY <1>1, <1>2, <1>10, <2>2 DEF FlushFails, End, Outcomes
    <3>2. closing' = closing /\ unroutable' \subseteq unroutable
      BY <1>10, <2>2 DEF FlushFails, sockets, evidence
    <3>3. \A t \in Threads : owner[t] = NoOwner => owner'[t] = NoOwner
      BY <1>10, <2>2 DEF FlushFails, evidence, TypeOK
    <3> QED BY <1>1, <3>1, <3>2, <3>3 DEF NoLostWakeup
  <2> QED BY <2>1, <2>2
<1>11. ASSUME NEW c \in Calls, AskOwner(c)
       PROVE  NoLostWakeup'
  <2>1. CASE Invalidate(Thread[c], {c})
    BY <1>1, <1>11, <2>1, InvalidateWakes DEF AskOwner, sockets
  <2>2. CASE ~Invalidate(Thread[c], {c})
    <3>1. /\ \/ call' = End(c, "notWritten")
             \/ call' = [call EXCEPT ![c].phase = "routed", ![c].target = owner[Thread[c]]]
             \/ /\ call' = Now(c, "waiting") /\ ~closing
                /\ owner[Thread[c]] = NoOwner /\ Thread[c] \notin unroutable
          /\ UNCHANGED <<owner, unroutable, asked>> /\ UNCHANGED <<sockets, followed>>
      BY <1>11, <2>2, Zenon DEF AskOwner
    <3>2. \A d \in Calls : call'[d].phase = "waiting" =>
            \/ call[d].phase = "waiting"
            \/ ~closing /\ owner[Thread[d]] = NoOwner /\ Thread[d] \notin unroutable
      BY <1>1, <1>2, <3>1 DEF End, Now, CallType, Outcomes
    <3> QED BY <3>1, <3>2 DEF NoLostWakeup, sockets
  <2> QED BY <2>1, <2>2
<1>12. ASSUME NEW c \in Calls, AskAnyone(c)
       PROVE  NoLostWakeup'
  <2>1. \A d \in Calls : call'[d].phase = "waiting" => call[d].phase = "waiting"
    BY <1>1, <1>12 DEF AskAnyone, CallType
  <2> QED BY <1>3, <1>12, <2>1 DEF AskAnyone, sockets, evidence
<1>13. ASSUME NEW c \in Calls, OwnerTimeout(c)
       PROVE  NoLostWakeup'
  BY <1>1, <1>13, InvalidateWakes DEF OwnerTimeout, sockets
<1>14. ASSUME NEW c \in Calls, Reply(c)
       PROVE  NoLostWakeup'
  <2>1. CASE /\ \E answer \in {"accepted", "malformed"} : call' = End(c, answer)
             /\ UNCHANGED <<owner, unroutable, asked>>
    <3>1. \A d \in Calls : call'[d].phase = "waiting" => call[d].phase = "waiting"
      BY <1>1, <1>2, <2>1 DEF End, CallType, Outcomes
    <3> QED BY <1>3, <1>14, <2>1, <3>1 DEF Reply, sockets
  <2>2. CASE /\ owner' = [owner EXCEPT ![Thread[c]] = NoOwner]
             /\ unroutable' = unroutable \cup {Thread[c]}
             /\ call' = [Refused(Waiting(Thread[c])) EXCEPT ![c] = Ended("rejected")]
    <3>1. Refused(Waiting(Thread[c])) \in [Calls -> CallType]
      BY <1>1, RefusedCalls
    <3>2. \A d \in Calls : call'[d].phase = "waiting" => call[d].phase = "waiting" /\ Thread[d] # Thread[c]
      BY <1>2, <2>2, <3>1, RefusedCall DEF Waiting, Outcomes
    <3> QED BY <1>14, <2>2, <3>2 DEF Reply, sockets, NoLostWakeup, TypeOK
  <2> QED BY <1>14, <2>1, <2>2 DEF Reply
<1>15. ASSUME NEW k \in Connections, Connected(k) \/ Lose(k) \/ Adopt(k) \/ \E t \in Threads : Restore(k, t)
       PROVE  NoLostWakeup'
  BY <1>3, <1>15 DEF Connected, Lose, Adopt, Restore, evidence
<1>16. ASSUME NEW k \in Connections, Initialized(k)
       PROVE  NoLostWakeup'
  <2>1. CASE k = 1
    BY <1>3, <1>16, <2>1 DEF Initialized
  <2>2. CASE k # 1
    <3>1. call' = Refused({c \in Calls : call[c].phase = "waiting"})
      BY <1>16, <2>2 DEF Initialized
    <3>2. \A d \in Calls : call'[d].phase # "waiting"
      BY <3>1, RefusedCall
    <3> QED BY <3>2 DEF NoLostWakeup
  <2> QED BY <2>1, <2>2
<1>17. ASSUME NEW k \in Connections, OpenFails(k) \/ Break(k)
       PROVE  NoLostWakeup'
  BY <1>17, HangUpWakes DEF OpenFails, Break
<1>18. ASSUME NEW k \in Connections, NEW t \in Threads, Snapshot(k, t)
       PROVE  NoLostWakeup'
  <2>1. \A d \in Calls : call'[d].phase = "waiting" => call[d].phase = "waiting" /\ Thread[d] # t
    <3> SUFFICES ASSUME NEW d \in Calls, call'[d].phase = "waiting"
                 PROVE  call[d].phase = "waiting" /\ Thread[d] # t
      OBVIOUS
    <3>1. CASE d \in Waiting(t)
      <4>1. call'[d] = [call[d] EXCEPT !.phase = "routed", !.target = Newest]
        BY <1>18, <3>1 DEF Snapshot
      <4> QED BY <1>1, <4>1 DEF CallType
    <3>2. CASE d \notin Waiting(t)
      BY <1>18, <3>2 DEF Snapshot, Waiting
    <3> QED BY <3>1, <3>2
  <2>2. /\ owner' = [owner EXCEPT ![t] = Newest] /\ unroutable' = unroutable \ {t}
        /\ closing' = closing
    BY <1>18 DEF Snapshot, sockets
  <2> QED BY <1>1, <2>1, <2>2 DEF NoLostWakeup, TypeOK
<1>19. ASSUME NEW k \in Connections, NEW t \in Threads, AnonymousSnapshot(k, t)
       PROVE  NoLostWakeup'
  BY <1>19, InvalidateWakes DEF AnonymousSnapshot, sockets
<1>20. CASE Replace
  BY <1>3, <1>20 DEF Replace, evidence
<1>21. CASE Close
  <2>1. PICK K : call' = [c \in Calls |-> IF call[c].phase = "waiting" THEN Ended("notWritten")
                                                                  ELSE AfterHangUp(K)[c]]
    BY <1>21 DEF Close
  <2>2. \A d \in Calls : call'[d].phase # "waiting"
    BY <1>2, <2>1, HungUpCall DEF Outcomes
  <2> QED BY <2>2 DEF NoLostWakeup
<1> QED
  BY <1>4, <1>5, <1>6, <1>7, <1>8, <1>9, <1>10, <1>11, <1>12, <1>13, <1>14, <1>15, <1>16, <1>17,
     <1>18, <1>19, <1>20, <1>21 DEF Next, Step, Wire

-----------------------------------------------------------------------------
(* Tasks whose owner is not known *)

AllCovered == \A t \in followed : Covered(t)

\* The reconnect is following the tasks again, and has come to some of them.
HalfRestored ==
  /\ reconnecting # 0 /\ stage[reconnecting] = "restoring"
  /\ link[reconnecting] \in {"up", "lost"}
  /\ \A t \in followed \cap restored : Covered(t)

\* What a step does to the tasks that are followed: it covers them no less.
Keeps ==
  \A t \in followed' : Covered(t)' \/ (t \in followed /\ ~Covered(t))

LEMMA InvalidateKeeps ==
  ASSUME TypeOK, NEW t \in Threads, NEW S, Invalidate(t, S), followed' \subseteq followed
  PROVE  Keeps
BY DEF Invalidate, Keeps, Covered, TypeOK

\* A connection that ends marks every followed task.
LEMMA HangUpCovers ==
  ASSUME TypeOK, NEW K, HangUp(K), followed' = followed
  PROVE  /\ Ending(K) # {} => AllCovered'
         /\ Ending(K) = {} => UNCHANGED <<link, owner, unroutable, asked>>
<1>1. CASE Ending(K) # {}
  BY <1>1 DEF HangUp, Interrupted, AllCovered, Covered
<1>2. CASE Ending(K) = {}
  <2>1. link' = link
    BY <1>2 DEF HangUp, TypeOK
  <2> QED BY <1>2, <2>1 DEF HangUp
<1> QED BY <1>1, <1>2

LEMMA ReconnectKeeps ==
  ASSUME TypeOK, RestoringInv, NEW c, NEW cs, Reconnect(c, cs),
         UNCHANGED <<closing, link, restored, evidence>>
  PROVE  RestoringInv'
<1>1. CASE reconnecting = 0
  BY <1>1 DEF RestoringInv, Covered, evidence
<1>2. CASE reconnecting # 0
  BY <1>2 DEF Reconnect, RestoringInv, Covered, evidence
<1> QED BY <1>1, <1>2

LEMMA RestoringStep ==
  ASSUME TypeOK, StageInv, RestoringInv, Next
  PROVE  RestoringInv'
<1>1. \A c \in Calls : Thread[c] \in Threads
  BY SessionAssumption
<1>2. ASSUME Keeps, UNCHANGED <<closing, reconnecting, stage, link, restored>>
      PROVE  RestoringInv'
  BY <1>2 DEF Keeps, RestoringInv
<1>3. ASSUME evidence' = evidence
      PROVE  Keeps /\ followed' = followed /\ \A t : Covered(t)' = Covered(t)
  BY <1>3 DEF evidence, Keeps, Covered
<1>4. AllCovered' => RestoringInv'
  BY DEF AllCovered, RestoringInv
<1>5. ASSUME NEW c \in Calls, NEW op \in Ops, Begin(c, op)
      PROVE  RestoringInv'
  <2>1. CASE UNCHANGED <<reconnecting, stage>>
    BY <1>2, <1>3, <1>5, <2>1 DEF Begin
  <2>2. CASE Reconnect(c, [call EXCEPT ![c].op = op])
    BY <1>5, <2>2, ReconnectKeeps DEF Begin
  <2> QED BY <1>5, <2>1, <2>2 DEF Begin
<1>6. ASSUME NEW c \in Calls, \/ IdentityKept(c) \/ GiveUp(c) \/ Flushed(c) \/ AskAnyone(c)
                              \/ Submit(c) \/ Unanswered(c)
      PROVE  RestoringInv'
  BY <1>2, <1>3, <1>6 DEF IdentityKept, GiveUp, Flushed, AskAnyone, Submit, Unanswered, sockets
<1>7. ASSUME NEW c \in Calls, IdentityChanged(c)
      PROVE  RestoringInv'
  <2> DEFINE K == {call[c].conn}
  <2>1. /\ HangUp(K) /\ Reconnect(c, AfterHangUp(K))
        /\ UNCHANGED <<closing, restored, followed>>
    BY <1>7 DEF IdentityChanged
  <2> HIDE DEF K
  <2>2. CASE Ending(K) # {}
    BY <1>4, <2>1, <2>2, HangUpCovers
  <2>3. CASE Ending(K) = {}
    <3>1. UNCHANGED <<closing, link, restored, evidence>>
      BY <2>1, <2>3, HangUpCovers DEF evidence
    <3> QED BY <2>1, <3>1, ReconnectKeeps
  <2> QED BY <2>2, <2>3
<1>8. ASSUME NEW c \in Calls, ReconnectSettled(c)
      PROVE  RestoringInv'
  <2>1. CASE stage[call[c].conn] = "ready" /\ closing
    BY <1>8, <2>1 DEF ReconnectSettled, RestoringInv
  <2>2. CASE ~(stage[call[c].conn] = "ready" /\ closing)
    <3>1. evidence' = evidence
      BY <1>8, <2>2 DEF ReconnectSettled, evidence
    <3> QED BY <1>2, <1>3, <1>8, <2>2, <3>1 DEF ReconnectSettled
  <2> QED BY <2>1, <2>2
<1>9. ASSUME NEW c \in Calls, Follow(c)
      PROVE  RestoringInv'
  <2>1. Keeps
    <3>1. CASE Alive(call[c].conn)
      BY <1>9, <3>1 DEF Follow, Keeps, Covered
    <3>2. CASE ~Alive(call[c].conn)
      BY <1>9, <3>2 DEF Follow, Keeps, Covered, TypeOK
    <3> QED BY <3>1, <3>2
  <2> QED BY <1>2, <1>9, <2>1 DEF Follow, sockets
<1>10. ASSUME NEW c \in Calls, Refresh(c)
       PROVE  RestoringInv'
  <2>1. Keeps
    <3>1. CASE Alive(call[c].conn)
      BY <1>10, <3>1 DEF Refresh, Keeps, Covered
    <3>2. CASE ~Alive(call[c].conn)
      BY <1>1, <1>10, <3>2, InvalidateKeeps DEF Refresh
    <3> QED BY <3>1, <3>2
  <2> QED BY <1>2, <1>10, <2>1 DEF Refresh, sockets
<1>11. ASSUME NEW c \in Calls, FlushFails(c)
       PROVE  RestoringInv'
  <2>1. Keeps
    <3>1. CASE call[c].op = "mutate"
      BY <1>1, <1>11, <3>1, InvalidateKeeps DEF FlushFails
    <3>2. CASE call[c].op # "mutate" /\ call[c].added
      BY <1>11, <3>2 DEF FlushFails, Keeps, Covered, TypeOK
    <3>3. CASE call[c].op # "mutate" /\ ~call[c].added
      BY <1>3, <1>11, <3>3 DEF FlushFails
    <3> QED BY <3>1, <3>2, <3>3
  <2> QED BY <1>2, <1>11, <2>1 DEF FlushFails, sockets
<1>12. ASSUME NEW c \in Calls, AskOwner(c)
       PROVE  RestoringInv'
  <2>1. Keeps
    <3>1. CASE Invalidate(Thread[c], {c})
      BY <1>1, <1>12, <3>1, InvalidateKeeps DEF AskOwner
    <3>2. CASE ~Invalidate(Thread[c], {c})
      <4>1. UNCHANGED <<owner, unroutable, asked>> /\ followed' = followed
        BY <1>12, <3>2, Zenon DEF AskOwner
      <4> QED BY <1>3, <4>1 DEF evidence
    <3> QED BY <3>1, <3>2
  <2> QED BY <1>2, <1>12, <2>1 DEF AskOwner, sockets
<1>13. ASSUME NEW c \in Calls, OwnerTimeout(c)
       PROVE  RestoringInv'
  <2>1. Keeps
    BY <1>1, <1>13, InvalidateKeeps DEF OwnerTimeout
  <2> QED BY <1>2, <1>13, <2>1 DEF OwnerTimeout, sockets
<1>14. ASSUME NEW c \in Calls, Reply(c)
       PROVE  RestoringInv'
  <2>1. Keeps
    <3>1. CASE UNCHANGED <<owner, unroutable, asked>>
      BY <1>3, <1>14, <3>1 DEF Reply, evidence
    <3>2. CASE /\ owner' = [owner EXCEPT ![Thread[c]] = NoOwner]
               /\ unroutable' = unroutable \cup {Thread[c]} /\ asked' = asked \ {Thread[c]}
      BY <1>14, <3>2 DEF Reply, Keeps, Covered, TypeOK
    <3> QED BY <1>14, <3>1, <3>2 DEF Reply
  <2> QED BY <1>2, <1>14, <2>1 DEF Reply, sockets
<1>15. ASSUME NEW k \in Connections, NEW t \in Threads, Snapshot(k, t)
       PROVE  RestoringInv'
  <2>1. /\ owner' = [owner EXCEPT ![t] = Newest] /\ unroutable' = unroutable \ {t}
        /\ UNCHANGED <<followed, asked>> /\ UNCHANGED sockets
    BY <1>15 DEF Snapshot
  <2>2. Newest # NoOwner
    BY DEF Newest, NoOwner, TypeOK, Connections
  <2>3. Keeps
    BY <2>1, <2>2 DEF Keeps, Covered, TypeOK
  <2> QED BY <1>2, <2>1, <2>3 DEF sockets
<1>16. ASSUME NEW k \in Connections, NEW t \in Threads, AnonymousSnapshot(k, t)
       PROVE  RestoringInv'
  <2>1. Keeps
    BY <1>16, InvalidateKeeps DEF AnonymousSnapshot
  <2> QED BY <1>2, <1>16, <2>1 DEF AnonymousSnapshot, sockets
<1>17. ASSUME NEW k \in Connections, Connected(k)
       PROVE  RestoringInv'
  BY <1>3, <1>17 DEF Connected, RestoringInv, Reached, TypeOK
<1>18. ASSUME NEW k \in Connections, Initialized(k)
       PROVE  RestoringInv'
  <2>1. CASE k = 1
    <3>1. evidence' = evidence
      BY <1>18, <2>1 DEF Initialized, evidence
    <3>2. /\ stage[1] = "handshake" /\ UNCHANGED <<closing, reconnecting, link, restored>>
          /\ \A j \in Connections : j # 1 => stage'[j] = stage[j]
      BY <1>18, <2>1 DEF Initialized, Reached, TypeOK
    <3>3. CASE reconnecting # 0
      BY <1>3, <3>1, <3>2, <3>3 DEF RestoringInv, TypeOK, Connections
    <3>4. CASE reconnecting = 0
      BY <1>3, <3>1, <3>2, <3>4 DEF RestoringInv
    <3> QED BY <3>3, <3>4
  <2>2. CASE k # 1
    <3>1. reconnecting = k /\ k # 0
      BY <1>18, <2>2 DEF Initialized, StageInv, Opening, Connections
    <3>2. /\ reconnecting' = k /\ stage'[k] = "restoring" /\ link'[k] = "up" /\ restored' = {}
      BY <1>18, <2>2, <3>1 DEF Initialized, Reached, Alive, TypeOK
    <3> QED BY <3>1, <3>2 DEF RestoringInv
  <2> QED BY <2>1, <2>2
<1>19. ASSUME NEW k \in Connections, NEW t \in Threads, Restore(k, t)
       PROVE  RestoringInv'
  BY <1>19 DEF Restore, RestoringInv, Covered
<1>20. ASSUME NEW k \in Connections, Adopt(k)
       PROVE  RestoringInv'
  <2>1. evidence' = evidence /\ followed \subseteq restored /\ ~closing
    BY <1>20 DEF Adopt, AllRestored
  <2>2. AllCovered
    BY <2>1 DEF RestoringInv, AllCovered
  <2>3. AllCovered'
    BY <1>3, <2>1, <2>2 DEF AllCovered
  <2> QED BY <1>4, <2>3
<1>21. ASSUME NEW k \in Connections, OpenFails(k) \/ Break(k)
       PROVE  RestoringInv'
  <2>1. HangUp({k}) /\ UNCHANGED <<closing, followed>>
    BY <1>21 DEF OpenFails, Break
  <2>2. CASE Ending({k}) # {}
    BY <1>4, <2>1, <2>2, HangUpCovers
  <2>3. CASE Ending({k}) = {}
    <3>1. evidence' = evidence /\ link' = link
      BY <2>1, <2>3, HangUpCovers DEF evidence
    <3>2. link[k] \notin {"up", "lost"}
      BY <2>3 DEF Ending, Connections
    <3>3. OpenFails(k)
      BY <1>21, <2>3 DEF Break
    <3>4. \A j \in Connections : j # k => stage'[j] = stage[j]
      BY <3>3 DEF OpenFails, Reached, TypeOK
    <3>5. CASE AllCovered
      BY <1>3, <1>4, <3>1, <3>5 DEF AllCovered
    <3>6. CASE HalfRestored
      <4>1. reconnecting # k /\ reconnecting \in Connections
        BY <3>2, <3>6 DEF HalfRestored, TypeOK, Connections
      <4>2. reconnecting' = reconnecting /\ restored' = {}
        BY <3>3, <4>1 DEF OpenFails
      <4> QED BY <3>1, <3>4, <3>6, <4>1, <4>2 DEF HalfRestored, RestoringInv
    <3> QED BY <2>1, <3>5, <3>6 DEF AllCovered, HalfRestored, RestoringInv
  <2> QED BY <2>2, <2>3
<1>22. ASSUME NEW k \in Connections, Lose(k)
       PROVE  RestoringInv'
  BY <1>3, <1>22 DEF Lose, RestoringInv, TypeOK
<1>23. CASE Replace
  BY <1>2, <1>3, <1>23 DEF Replace
<1>24. CASE Close
  BY <1>24 DEF Close, RestoringInv
<1> QED
  BY <1>5, <1>6, <1>7, <1>8, <1>9, <1>10, <1>11, <1>12, <1>13, <1>14, <1>15, <1>16, <1>17, <1>18,
     <1>19, <1>20, <1>21, <1>22, <1>23, <1>24 DEF Next, Step, Wire

-----------------------------------------------------------------------------
(* The connections as those above the session see them *)

\* The announcements follow the openings: only the connection announced last can
\* be restoring, and it is in use once ready, unless the session was closed.
LinksInv ==
  /\ announced <= opened /\ (opened > 1 => announced # 0)
  /\ reconnecting # 0 => reconnecting = opened
  /\ announced # 0 =>
       /\ stage[1] = "ready" /\ stage[announced] \in {"restoring", "ready", "failed"}
       /\ connection = 0 => closing
       /\ stage[announced] = "ready" /\ connection # announced => closing /\ ~Alive(announced)
  /\ \A k \in Connections : stage[k] \in {"restoring", "ready"} => k <= announced
  /\ \A k \in Connections : stage[k] = "restoring" => k = announced

\* The announced connections that are up.
Up == {k \in Connections : stage[k] \in {"restoring", "ready"} /\ Alive(k)}

\* No connection comes up.
Fades == \A k \in Connections : link'[k] = "up" => link[k] = "up"

\* A caller finds no reconnect under way and starts one.
Opens ==
  /\ reconnecting = 0 /\ opened < MaxConnections
  /\ opened' = opened + 1 /\ reconnecting' = opened + 1
  /\ Reached(opened + 1, "connecting")
  /\ \E k \in Connections : stage[k] = "ready"

LEMMA HangUpFades ==
  ASSUME NEW K, HangUp(K)
  PROVE  Fades
BY DEF HangUp, Fades

LEMMA LinkMoves ==
  ASSUME TypeOK, StageInv, HeldInv, Next
  PROVE  \/ /\ UNCHANGED <<closing, connection, announced>> /\ Fades
            /\ UNCHANGED <<reconnecting, opened, stage>> \/ Opens
         \/ \E k \in Connections : Connected(k) \/ Initialized(k) \/ Adopt(k) \/ OpenFails(k)
         \/ Close
<1> DEFINE Calm == /\ UNCHANGED <<closing, connection, announced>> /\ Fades
                   /\ UNCHANGED <<reconnecting, opened, stage>> \/ Opens
<1>1. ASSUME NEW c, NEW cs, Reconnect(c, cs), \E k \in Connections : stage[k] = "ready"
      PROVE  UNCHANGED <<reconnecting, opened, stage>> \/ Opens
  BY <1>1 DEF Reconnect, Opens
<1>2. ASSUME link' = link
      PROVE  Fades
  BY <1>2 DEF Fades
<1>3. ASSUME NEW c \in Calls, NEW op \in Ops, Begin(c, op)
      PROVE  Calm
  <2>1. 1 \in Connections /\ stage[1] = "ready"
    BY <1>3, SessionAssumption DEF Begin, Connections
  <2>2. Fades
    BY <1>2, <1>3 DEF Begin
  <2>3. UNCHANGED <<reconnecting, opened, stage>> \/ Opens
    BY <1>1, <1>3, <2>1 DEF Begin
  <2> QED BY <1>3, <2>2, <2>3 DEF Begin
<1>4. ASSUME NEW c \in Calls, IdentityChanged(c)
      PROVE  Calm
  <2>1. call[c].phase = "identity" /\ HangUp({call[c].conn}) /\ Reconnect(c, AfterHangUp({call[c].conn}))
    BY <1>4 DEF IdentityChanged
  <2>2. call[c].conn \in Connections /\ stage[call[c].conn] = "ready"
    BY <2>1 DEF HeldInv, InUse, TypeOK, Connections
  <2> QED BY <1>1, <1>4, <2>1, <2>2, HangUpFades DEF IdentityChanged
<1>5. ASSUME NEW c \in Calls, ReconnectSettled(c)
      PROVE  Calm
  <2>1. Fades
    BY <1>2, <1>5, HangUpFades DEF ReconnectSettled
  <2> QED BY <1>5, <2>1 DEF ReconnectSettled
<1>6. ASSUME NEW c \in Calls, \/ IdentityKept(c) \/ GiveUp(c)
                              \/ Follow(c) \/ Refresh(c) \/ Flushed(c) \/ FlushFails(c)
                              \/ AskOwner(c) \/ AskAnyone(c) \/ OwnerTimeout(c)
                              \/ Submit(c) \/ Reply(c) \/ Unanswered(c)
      PROVE  Calm
  BY <1>2, <1>6 DEF IdentityKept, GiveUp, Follow, Refresh, Flushed, FlushFails,
                    AskOwner, AskAnyone, OwnerTimeout, Submit, Reply, Unanswered, sockets
<1>7. ASSUME NEW k \in Connections, NEW t \in Threads,
             Restore(k, t) \/ Snapshot(k, t) \/ AnonymousSnapshot(k, t)
      PROVE  Calm
  BY <1>2, <1>7 DEF Restore, Snapshot, AnonymousSnapshot, sockets
<1>8. ASSUME NEW k \in Connections, Break(k)
      PROVE  Calm
  BY <1>8, HangUpFades DEF Break
<1>9. ASSUME NEW k \in Connections, Lose(k)
      PROVE  Calm
  BY <1>9 DEF Lose, Fades, TypeOK
<1>10. CASE Replace
  BY <1>2, <1>10 DEF Replace
<1> QED
  BY <1>3, <1>4, <1>5, <1>6, <1>7, <1>8, <1>9, <1>10 DEF Next, Step, Wire

LEMMA LinksStep ==
  ASSUME TypeOK, StageInv, HeldInv, LinksInv, Next
  PROVE  LinksInv'
<1>1. CASE UNCHANGED <<closing, connection, announced, reconnecting, opened, stage>> /\ Fades
  BY <1>1 DEF LinksInv, Fades, Alive, TypeOK, Connections
<1>2. CASE UNCHANGED <<closing, connection, announced>> /\ Fades /\ Opens
  <2>1. opened + 1 \in Connections /\ opened \in Int /\ announced \in Int
    BY <1>2, SessionAssumption DEF Opens, TypeOK, Connections
  <2>2. /\ stage'[opened + 1] = "connecting"
        /\ \A k \in Connections : k # opened + 1 => stage'[k] = stage[k]
    BY <1>2, <2>1 DEF Opens, Reached, TypeOK
  <2>3. announced # 0 /\ announced \in Connections /\ announced # opened + 1
    BY <1>2, <2>1 DEF Opens, LinksInv, TypeOK, Connections
  <2>4. 1 \in Connections /\ opened + 1 # 1
    BY <2>1, SessionAssumption DEF TypeOK, Connections
  <2> QED BY <1>2, <2>1, <2>2, <2>3, <2>4 DEF Opens, LinksInv, Fades, Alive
<1>3. ASSUME NEW k \in Connections, Connected(k)
      PROVE  LinksInv'
  <2>1. /\ stage[k] = "connecting" /\ stage'[k] = "handshake"
        /\ \A j \in Connections : j # k => stage'[j] = stage[j] /\ link'[j] = link[j]
        /\ UNCHANGED <<closing, connection, reconnecting, opened, announced>>
    BY <1>3 DEF Connected, Reached, TypeOK
  <2>2. announced # 0 => announced \in Connections /\ announced # k /\ 1 \in Connections /\ k # 1
    BY <2>1, SessionAssumption DEF LinksInv, TypeOK, Connections
  <2> QED BY <2>1, <2>2 DEF LinksInv, Alive
<1>4. ASSUME NEW k \in Connections, Initialized(k)
      PROVE  LinksInv'
  <2>1. /\ stage[k] = "handshake" /\ announced' = k /\ ~closing
        /\ \A j \in Connections : j # k => stage'[j] = stage[j]
        /\ UNCHANGED <<closing, reconnecting, opened>>
    BY <1>4 DEF Initialized, Reached, TypeOK
  <2>2. k <= opened /\ \A j \in Connections : stage[j] # "none" => j <= opened
    BY <2>1 DEF StageInv, TypeOK, Connections
  <2>3. announced = 0 => \A j \in Connections : stage[j] \notin {"restoring", "ready"}
    BY DEF LinksInv, Connections
  <2>4. CASE k = 1
    <3>1. stage'[1] = "ready" /\ connection' = 1
      BY <1>4, <2>4 DEF Initialized, Reached, TypeOK
    <3>2. announced = 0
      BY <2>1, <2>4 DEF LinksInv
    <3> QED BY <2>1, <2>2, <2>3, <2>4, <3>1, <3>2 DEF LinksInv, Connections
  <2>5. CASE k # 1
    <3>1. stage'[k] = "restoring" /\ connection' = connection /\ reconnecting = k
      BY <1>4, <2>5 DEF Initialized, Reached, TypeOK, StageInv, Opening
    <3>2. k = opened /\ announced # 0 /\ 1 \in Connections
      BY <2>1, <2>5, <3>1, SessionAssumption DEF LinksInv, Connections
    <3>3. \A j \in Connections : stage[j] # "restoring"
      BY <2>1, <3>1 DEF StageInv, Opening
    <3>4. \A j \in Connections : stage'[j] \in {"restoring", "ready"} => j <= k
      BY <2>1, <2>2, <3>2 DEF Connections
    <3> QED BY <2>1, <2>5, <3>1, <3>2, <3>3, <3>4 DEF LinksInv
  <2> QED BY <2>4, <2>5
<1>5. ASSUME NEW k \in Connections, Adopt(k)
      PROVE  LinksInv'
  <2>1. /\ stage[k] = "restoring" /\ stage'[k] = "ready"
        /\ \A j \in Connections : j # k => stage'[j] = stage[j]
        /\ connection' = k /\ reconnecting' = 0 /\ UNCHANGED <<closing, opened, link, announced>>
    BY <1>5 DEF Adopt, Reached, TypeOK
  <2>2. k = announced /\ k # 0 /\ 1 \in Connections
    BY <2>1, SessionAssumption DEF LinksInv, Connections
  <2> QED BY <2>1, <2>2 DEF LinksInv
<1>6. ASSUME NEW k \in Connections, OpenFails(k)
      PROVE  LinksInv'
  <2>1. /\ stage[k] \in Opening /\ stage'[k] = "failed"
        /\ \A j \in Connections : j # k => stage'[j] = stage[j]
        /\ reconnecting' \in {0, reconnecting} /\ UNCHANGED <<closing, connection, opened, announced>>
    BY <1>6 DEF OpenFails, Reached, TypeOK
  <2>2. Fades
    BY <1>6, HangUpFades DEF OpenFails
  <2>3. announced # 0 => announced \in Connections /\ 1 \in Connections /\ k # 1
    BY <2>1, SessionAssumption DEF LinksInv, Opening, TypeOK, Connections
  <2> QED BY <2>1, <2>2, <2>3 DEF LinksInv, Fades, Alive
<1>7. CASE Close
  <2>1. /\ closing' = TRUE /\ connection' = 0
        /\ UNCHANGED <<announced, reconnecting, opened, stage>> /\ Fades
    BY <1>7 DEF Close, Fades
  <2>2. announced # 0 /\ connection = announced => ~Alive(announced)'
    BY <1>7 DEF Close, Ending, Alive, TypeOK, Connections
  <2>3. announced # 0 => announced \in Connections
    BY DEF TypeOK, Connections
  <2> QED BY <2>1, <2>2, <2>3 DEF LinksInv, Fades, Alive
<1> QED
  BY <1>1, <1>2, <1>3, <1>4, <1>5, <1>6, <1>7, LinkMoves

LEMMA UpFades ==
  ASSUME UNCHANGED <<announced, connection>>, Up' \subseteq Up
  PROVE  UNCHANGED Promise!linkVars \/ Promise!LinksNext
<1>1. CASE Up' = Up
  BY <1>1 DEF Up, Promise!linkVars
<1>2. CASE Up' # Up
  <2>1. Promise!Lose
    BY <1>2 DEF Up, Promise!Lose
  <2> QED BY <2>1 DEF Promise!LinksNext
<1> QED BY <1>1, <1>2

\* What a step does to the connections, those above the session are told.
LEMMA LinksKeepPromise ==
  ASSUME TypeOK, StageInv, HeldInv, LinksInv, Next
  PROVE  UNCHANGED Promise!linkVars \/ Promise!LinksNext
<1>1. ASSUME UNCHANGED <<announced, connection, stage>>, Fades
      PROVE  Up' \subseteq Up
  BY <1>1 DEF Fades, Up, Alive
<1>2. ASSUME UNCHANGED <<announced, connection>>, Fades, Opens
      PROVE  Up' \subseteq Up
  <2>1. \A k \in Connections : stage'[k] \in {"restoring", "ready"} => stage[k] \in {"restoring", "ready"}
    BY <1>2 DEF Opens, Reached, TypeOK
  <2> QED BY <1>2, <2>1 DEF Fades, Up, Alive
<1>3. ASSUME NEW k \in Connections, Connected(k)
      PROVE  Up' \subseteq Up /\ UNCHANGED <<announced, connection>>
  BY <1>3 DEF Connected, Reached, Up, Alive, TypeOK
<1>4. ASSUME NEW k \in Connections, Initialized(k)
      PROVE  Promise!LinksNext
  <2>1. /\ stage[k] = "handshake" /\ announced' = k /\ ~closing /\ Alive(k) /\ link' = link
        /\ stage'[k] \in {"restoring", "ready"}
        /\ \A j \in Connections : j # k => stage'[j] = stage[j]
    BY <1>4 DEF Initialized, Reached, TypeOK
  <2>2. Up' = Up \cup {k}
    BY <2>1 DEF Up, Alive
  <2>3. CASE k = 1
    <3>1. announced = 0 /\ connection' = k
      BY <1>4, <2>1, <2>3 DEF Initialized, LinksInv
    <3>2. Up = {}
      BY <3>1 DEF Up, LinksInv, Connections
    <3>3. Promise!Connect
      BY <2>1, <2>2, <2>3, <3>1, <3>2 DEF Promise!Connect, Up
    <3> QED BY <3>3 DEF Promise!LinksNext
  <2>4. CASE k # 1
    <3>1. connection' = connection /\ reconnecting = k
      BY <1>4, <2>1, <2>4 DEF Initialized, StageInv, Opening
    <3>2. k = opened /\ announced # 0 /\ announced # k
      BY <2>1, <2>4, <3>1 DEF LinksInv, Connections
    <3>3. k > announced
      BY <3>2 DEF LinksInv, TypeOK, Connections
    <3>4. connection # 0
      BY <2>1, <3>2 DEF LinksInv
    <3>5. announced \in Connections /\ stage[announced] # "restoring"
      BY <3>1, <3>2 DEF StageInv, Opening, TypeOK, Connections
    <3>6. announced \in Up => connection = announced
      BY <3>2, <3>5 DEF Up, LinksInv
    <3>7. Promise!Reconnecting
      BY <2>1, <2>2, <3>1, <3>3, <3>4, <3>6 DEF Promise!Reconnecting, Promise!Restoring, Up
    <3> QED BY <3>7 DEF Promise!LinksNext
  <2> QED BY <2>3, <2>4
<1>5. ASSUME NEW k \in Connections, Adopt(k)
      PROVE  Promise!LinksNext
  <2>1. /\ stage[k] = "restoring" /\ stage'[k] = "ready" /\ ~closing
        /\ \A j \in Connections : j # k => stage'[j] = stage[j]
        /\ connection' = k /\ UNCHANGED <<link, announced>>
    BY <1>5 DEF Adopt, Reached, TypeOK
  <2>2. Up' = Up
    BY <2>1 DEF Up, Alive
  <2>3. k = announced /\ k # 0
    BY <2>1 DEF LinksInv, Connections
  <2>4. connection # 0 /\ connection # k
    BY <2>1, <2>3 DEF LinksInv, StageInv
  <2>5. Promise!Reconnected
    BY <2>1, <2>2, <2>3, <2>4 DEF Promise!Reconnected, Up
  <2> QED BY <2>5 DEF Promise!LinksNext
<1>6. ASSUME NEW k \in Connections, OpenFails(k)
      PROVE  Up' \subseteq Up /\ UNCHANGED <<announced, connection>>
  <2>1. /\ stage'[k] = "failed" /\ UNCHANGED <<announced, connection>>
        /\ \A j \in Connections : j # k => stage'[j] = stage[j]
    BY <1>6 DEF OpenFails, Reached, TypeOK
  <2>2. Fades
    BY <1>6, HangUpFades DEF OpenFails
  <2> QED BY <2>1, <2>2 DEF Fades, Up, Alive
<1>7. CASE Close
  <2>1. PICK K : /\ K = {connection} \cup {k \in Connections : stage[k] \in {"handshake", "restoring"}}
                 /\ link' = [k \in Connections |-> IF k \in Ending(K) THEN "ended" ELSE link[k]]
                 /\ connection' = 0 /\ UNCHANGED <<stage, announced>>
    BY <1>7 DEF Close
  <2>2. \A k \in Up : k \in Ending(K) <=> k \in K
    BY DEF Up, Ending, Alive
  <2>3. Up' = Up \ K
    BY <2>1, <2>2 DEF Up, Ending, Alive, TypeOK
  <2>4. \A k \in Up : k \in K <=> k \in {connection, announced}
    <3>1. ASSUME NEW k \in Up
          PROVE  k \in Connections /\ k # 0 /\ stage[k] \in {"restoring", "ready"} /\ Alive(k)
      BY DEF Up, Connections
    <3>2. ASSUME NEW k \in Up, k \in K
          PROVE  k \in {connection, announced}
      BY <2>1, <3>1, <3>2 DEF LinksInv
    <3>3. ASSUME NEW k \in Up, k \in {connection, announced}
          PROVE  k \in K
      <4>1. CASE k = connection
        BY <2>1, <4>1
      <4>2. CASE k = announced /\ k # connection
        <5>1. stage[k] # "ready"
          BY <1>7, <3>1, <4>2 DEF LinksInv, Close
        <5> QED BY <2>1, <3>1, <5>1
      <4> QED BY <3>3, <4>1, <4>2
    <3> QED BY <3>2, <3>3
  <2>5. Promise!Close
    BY <2>1, <2>3, <2>4 DEF Promise!Close, Up
  <2> QED BY <2>5 DEF Promise!LinksNext
<1> QED
  BY <1>1, <1>2, <1>3, <1>4, <1>5, <1>6, <1>7, LinkMoves, UpFades

\* A call's request and outcome, as its caller and the windows see them.
LEMMA CallKeepsPromise ==
  ASSUME TypeOK, HeldInv, LinksInv, Next, NEW c \in Calls
  PROVE  Promise!Step(c)
<1> DEFINE On == IF call[c].phase = "sent" THEN call[c].conn ELSE 0
           Result == IF call[c].phase \in Outcomes THEN call[c].phase ELSE "none"
<1>1. Promise!Step(c) <=>
        \/ On' = On /\ Result' = Result
        \/ Result = "none" /\ On = 0 /\ On' \in {g \in Up : g = announced => connection = announced}
           /\ Result' = "none"
        \/ Result = "none" /\ On = 0 /\ On' = 0 /\ Result' \in Unsent
        \/ On \in Up /\ On' = 0 /\ Result' \in {"accepted", "rejected", "malformed"}
        \/ On # 0 /\ On' = 0 /\ Result' = "unknown"
  BY DEF Promise!Step, Promise!Write, Promise!NotWritten, Promise!Followed, Promise!Answered,
         Promise!Unanswered, Promise!Unwritten, Promise!Over, Promise!Usable, Up, Unsent
<1>2. call[c].phase = "sent" => call[c].conn \in Connections /\ stage[call[c].conn] = "ready"
  BY DEF HeldInv, InUse, TypeOK, Connections
<1>3. Moves(c)
  BY CallMoves
<1>4. CASE Stays(c)
  BY <1>1, <1>4 DEF Stays
<1>5. CASE Ends(c)
  BY <1>1, <1>2, <1>5 DEF Ends, Unsent, Outcomes, Up, Connections
<1>6. CASE Takes(c)
  BY <1>1, <1>6 DEF Takes, Outcomes
<1>7. CASE MovesOn(c)
  <2>1. On = 0 /\ Result = "none" /\ Result' = "none"
    BY <1>7 DEF MovesOn, InUse, Outcomes
  <2>2. CASE call'[c].phase # "sent"
    BY <1>1, <2>1, <2>2
  <2>3. CASE call'[c].phase = "sent"
    <3>1. /\ On' = call[c].conn /\ Alive(call[c].conn)
          /\ call[c].conn \in Connections /\ stage[call[c].conn] = "ready"
      BY <1>7, <2>3 DEF MovesOn, HeldInv, InUse, TypeOK, Connections
    <3>2. On' \in Up /\ (On' = announced => connection = announced)
      BY <3>1 DEF Up, LinksInv, Connections
    <3> QED BY <1>1, <2>1, <3>2
  <2> QED BY <2>2, <2>3
<1> QED BY <1>3, <1>4, <1>5, <1>6, <1>7 DEF Moves

-----------------------------------------------------------------------------
(* One connection, if the lookup's answer is for the connection still in use *)

\* ensureConnection as it would be if it compared the connection again after the
\* lookup, before it ends it and reconnects.
Rechecked == \A c \in Calls : IdentityChanged(c) => call[c].conn = connection

\* Only the connection in use is up, and none is while a reconnect is under way.
OneInv ==
  /\ \A k \in Connections : stage[k] = "ready" /\ Alive(k) => k = connection
  /\ reconnecting # 0 => ~Alive(connection)

\* A reconnect begins when there is no connection, or when the step ends it.
LEMMA OpensWithoutConnection ==
  ASSUME TypeOK, HeldInv, Next, Rechecked, Opens
  PROVE  ~Alive(connection)'
<1>1. opened' # opened
  BY DEF Opens, TypeOK, Connections
<1>2. ASSUME NEW c \in Calls, NEW op \in Ops, Begin(c, op)
      PROVE  ~Alive(connection)'
  <2>1. ~Alive(connection) /\ UNCHANGED <<connection, link>>
    BY <1>1, <1>2 DEF Begin
  <2> QED BY <2>1 DEF Alive
<1>3. ASSUME NEW c \in Calls, IdentityChanged(c)
      PROVE  ~Alive(connection)'
  <2>1. call[c].conn = connection /\ connection' = connection /\ HangUp({connection})
    BY <1>3 DEF Rechecked, IdentityChanged
  <2>2. connection \in Connections
    BY <1>3, <2>1 DEF IdentityChanged, HeldInv, InUse, TypeOK, Connections
  <2>3. link'[connection] # "up"
    BY <2>1, <2>2 DEF HangUp, Ending, Connections
  <2> QED BY <2>1, <2>3 DEF Alive
<1>4. ASSUME NEW c \in Calls, \/ IdentityKept(c) \/ ReconnectSettled(c) \/ GiveUp(c)
                              \/ Follow(c) \/ Refresh(c) \/ Flushed(c) \/ FlushFails(c)
                              \/ AskOwner(c) \/ AskAnyone(c) \/ OwnerTimeout(c)
                              \/ Submit(c) \/ Reply(c) \/ Unanswered(c)
      PROVE  FALSE
  BY <1>1, <1>4 DEF IdentityKept, ReconnectSettled, GiveUp, Follow, Refresh, Flushed, FlushFails,
                    AskOwner, AskAnyone, OwnerTimeout, Submit, Reply, Unanswered, sockets
<1>5. ASSUME NEW k \in Connections, Wire(k)
      PROVE  FALSE
  BY <1>1, <1>5 DEF Wire, Connected, Initialized, Adopt, OpenFails, Lose, Break,
                    Restore, Snapshot, AnonymousSnapshot, sockets
<1>6. CASE Replace \/ Close
  BY <1>1, <1>6 DEF Replace, Close
<1> QED BY <1>2, <1>3, <1>4, <1>5, <1>6 DEF Next, Step

LEMMA OneStep ==
  ASSUME TypeOK, StageInv, HeldInv, LinksInv, OneInv, Next, Rechecked
  PROVE  OneInv'
<1>1. CASE UNCHANGED <<connection, reconnecting, stage>> /\ Fades
  BY <1>1 DEF OneInv, Fades, Alive, TypeOK, Connections
<1>2. CASE UNCHANGED connection /\ Fades /\ Opens
  <2>1. opened + 1 \in Connections
    BY <1>2, SessionAssumption DEF Opens, TypeOK, Connections
  <2>2. \A k \in Connections : stage'[k] = "ready" => stage[k] = "ready"
    BY <1>2, <2>1 DEF Opens, Reached, TypeOK
  <2>3. ~Alive(connection)'
    BY <1>2, OpensWithoutConnection
  <2> QED BY <1>2, <2>2, <2>3 DEF OneInv, Fades, Alive
<1>3. ASSUME NEW k \in Connections, Connected(k)
      PROVE  OneInv'
  <2>1. /\ stage'[k] = "handshake" /\ stage[k] = "connecting"
        /\ \A j \in Connections : j # k => stage'[j] = stage[j] /\ link'[j] = link[j]
        /\ UNCHANGED <<connection, reconnecting>>
    BY <1>3 DEF Connected, Reached, TypeOK
  <2>2. connection # 0 => connection # k /\ connection \in Connections
    BY <2>1 DEF StageInv, TypeOK, Connections
  <2> QED BY <2>1, <2>2 DEF OneInv, Alive
<1>4. ASSUME NEW k \in Connections, Initialized(k)
      PROVE  OneInv'
  <2>1. /\ stage[k] = "handshake" /\ UNCHANGED <<reconnecting, link>>
        /\ \A j \in Connections : j # k => stage'[j] = stage[j]
    BY <1>4 DEF Initialized, Reached, TypeOK
  <2>2. CASE k = 1
    <3>1. announced = 0 /\ connection' = 1
      BY <1>4, <2>1, <2>2 DEF Initialized, LinksInv
    <3>2. \A j \in Connections : stage[j] # "ready"
      BY <3>1 DEF LinksInv, Connections
    <3>3. reconnecting = 0
      BY <3>1 DEF LinksInv, StageInv, TypeOK, Connections
    <3> QED BY <2>1, <2>2, <3>1, <3>2, <3>3 DEF OneInv
  <2>3. CASE k # 1
    BY <1>4, <2>1, <2>3 DEF Initialized, Reached, OneInv, Alive, TypeOK
  <2> QED BY <2>2, <2>3
<1>5. ASSUME NEW k \in Connections, Adopt(k)
      PROVE  OneInv'
  <2>1. /\ stage[k] = "restoring" /\ connection' = k /\ reconnecting' = 0 /\ UNCHANGED link
        /\ \A j \in Connections : j # k => stage'[j] = stage[j]
    BY <1>5 DEF Adopt, Reached, TypeOK
  <2>2. reconnecting # 0
    BY <2>1 DEF StageInv, Opening, Connections
  <2>3. \A j \in Connections : stage[j] = "ready" => ~Alive(j)
    BY <2>2 DEF OneInv
  <2> QED BY <2>1, <2>3 DEF OneInv, Alive
<1>6. ASSUME NEW k \in Connections, OpenFails(k)
      PROVE  OneInv'
  <2>1. /\ stage'[k] = "failed" /\ UNCHANGED connection /\ reconnecting' \in {0, reconnecting}
        /\ \A j \in Connections : j # k => stage'[j] = stage[j]
    BY <1>6 DEF OpenFails, Reached, TypeOK
  <2>2. Fades
    BY <1>6, HangUpFades DEF OpenFails
  <2>3. connection # 0 => connection \in Connections
    BY DEF TypeOK, Connections
  <2> QED BY <2>1, <2>2, <2>3 DEF OneInv, Fades, Alive
<1>7. CASE Close
  <2>1. connection' = 0 /\ UNCHANGED stage /\ Fades
    BY <1>7 DEF Close, Fades
  <2>2. connection # 0 => link'[connection] # "up"
    BY <1>7 DEF Close, Ending, TypeOK, Connections
  <2> QED BY <2>1, <2>2 DEF OneInv, Fades, Alive
<1> QED
  BY <1>1, <1>2, <1>3, <1>4, <1>5, <1>6, <1>7, LinkMoves

-----------------------------------------------------------------------------
(* The theorems *)

\* The inductive invariant.
SessionInv ==
  /\ TypeOK /\ StageInv /\ HeldInv /\ OwnerInv /\ TargetInv
  /\ NoLostWakeup /\ RestoringInv /\ LinksInv

LEMMA SessionInit == Init => SessionInv
<1> SUFFICES ASSUME Init PROVE SessionInv
  OBVIOUS
<1>1. 1 \in Connections /\ 0 \in 0..MaxConnections
  BY SessionAssumption DEF Connections
<1>2. NewCall \in CallType
  BY SessionAssumption DEF NewCall, CallType, Ops, Phases, NoOwner
<1>3. TypeOK
  BY <1>1, <1>2 DEF Init, TypeOK, CallType, Opening, NoOwner
<1>4. StageInv
  BY <1>1 DEF Init, StageInv, Connections, Opening
<1>5. \A c \in Calls : call[c].phase = "idle"
  BY DEF Init, NewCall
<1> QED BY <1>3, <1>4, <1>5
       DEF Init, SessionInv, HeldInv, OwnerInv, TargetInv, NoLostWakeup, RestoringInv, LinksInv,
           InUse, Connections

LEMMA SessionStep == SessionInv /\ [Next]_vars => SessionInv'
<1>1. CASE Next
  BY <1>1, TypeStep, StageStep, HeldStep, OwnerStep, TargetStep, WakeStep, RestoringStep,
     LinksStep
  DEF SessionInv
<1>2. CASE UNCHANGED vars
  <2>1. SessionInv => TypeOK'
    BY <1>2, TypeStep DEF SessionInv
  <2> QED BY <1>2, <2>1
      DEF SessionInv, vars, StageInv, HeldInv, OwnerInv, TargetInv, NoLostWakeup,
          RestoringInv, Covered, LinksInv, Alive
<1> QED BY <1>1, <1>2

\* Every variable has its type: the number of connections opened stays within
\* its bound, and a call has an operation, a place and a connection of the session.
THEOREM TypeCorrect == Spec => []TypeOK
<1>1. SessionInv => TypeOK
  BY DEF SessionInv
<1> QED BY <1>1, SessionInit, SessionStep, PTL DEF Spec

\* A mutation is written only to an owner whose snapshot came after the connection
\* it is written on was opened.
THEOREM EvidenceIsCurrentHolds == Spec => []EvidenceIsCurrent
<1>1. SessionInv => EvidenceIsCurrent
  BY DEF SessionInv, TargetInv, EvidenceIsCurrent
<1> QED BY <1>1, SessionInit, SessionStep, PTL DEF Spec

\* A waiter of thread-owners.ts is told when the owner is learned, invalidated or
\* reset, and none is left when the session is closed.
THEOREM NoLostWakeupHolds == Spec => []NoLostWakeup
<1>1. SessionInv => NoLostWakeup
  BY DEF SessionInv
<1> QED BY <1>1, SessionInit, SessionStep, PTL DEF Spec

\* The tasks whose owner is neither known nor marked have been followed since
\* their owner was given up, once no reconnect is under way.
THEOREM SnapshotExpectedHolds == Spec => []SnapshotExpected
<1>1. SessionInv => SnapshotExpected
  BY DEF SessionInv, StageInv, RestoringInv, Covered, SnapshotExpected, Alive
<1> QED BY <1>1, SessionInit, SessionStep, PTL DEF Spec

\* The session is what SessionPromise says: a caller is told "not written" only of
\* what was not written, and "unknown" only of what was; what it writes goes out on
\* a connection it was given; and connections come and go only as announced.
THEOREM KeepsSessionPromiseHolds == Spec => KeepsSessionPromise
<1>1. Init => Promise!Init
  <2> SUFFICES ASSUME Init PROVE Promise!Init
    OBVIOUS
  <2>1. \A c \in Calls : call[c].phase = "idle"
    BY DEF Init, NewCall
  <2>2. announced = 0 /\ connection = 0 /\ \A k \in Connections : stage[k] \notin {"restoring", "ready"}
    BY DEF Init
  <2> QED BY <2>1, <2>2 DEF Promise!Init, Promise!LinksInit, Outcomes
<1>2. SessionInv /\ SessionInv' /\ [Next]_vars =>
        [Promise!Next]_<<Promise!linkVars, [c \in Calls |-> IF call[c].phase = "sent" THEN call[c].conn ELSE 0],
                         [c \in Calls |-> IF call[c].phase \in Outcomes THEN call[c].phase ELSE "none"]>>
  <2>1. CASE UNCHANGED vars
    BY <2>1 DEF vars, Promise!linkVars, Alive
  <2>2. ASSUME SessionInv, SessionInv', Next
        PROVE  Promise!Next
    <3>1. UNCHANGED Promise!linkVars \/ Promise!LinksNext
      BY <2>2, LinksKeepPromise DEF SessionInv
    <3>2. \A c \in Calls : Promise!Step(c)
      BY <2>2, CallKeepsPromise DEF SessionInv
    <3>3. [c \in Calls |-> IF call'[c].phase = "sent" THEN call'[c].conn ELSE 0] \in [Calls -> Int]
      BY <2>2 DEF SessionInv, TypeOK
    <3> QED BY <3>1, <3>2, <3>3 DEF Promise!Next
  <2> QED BY <2>1, <2>2
<1> QED BY <1>1, <1>2, SessionInit, SessionStep, PTL DEF Spec, KeepsSessionPromise, Promise!Spec

\* Callers share one connection, as desktop-task-protocol.ts means them to, if the
\* answer of the lookup is acted on only for the connection still in use: the late
\* answer is all that lets a second one be opened beside it.
THEOREM OneConnectionIfRechecked == Spec /\ [][Rechecked]_vars => []OneConnection
<1> DEFINE IInv == SessionInv /\ OneInv
<1>1. Init => IInv
  <2>1. Init => OneInv
    BY DEF Init, OneInv
  <2> QED BY <2>1, SessionInit
<1>2. IInv /\ [Next]_vars /\ [Rechecked]_vars => IInv'
  <2>1. CASE UNCHANGED vars
    BY <2>1, SessionStep DEF vars, OneInv, Alive
  <2>2. ASSUME IInv, Next, Rechecked
        PROVE  IInv'
    BY <2>2, SessionStep, OneStep DEF SessionInv
  <2> QED BY <2>1, <2>2
<1>3. IInv => OneConnection
  BY DEF OneInv, OneConnection
<1> QED BY <1>1, <1>2, <1>3, PTL DEF Spec

\* Nor is there a second connection while the endpoint's socket file stays the
\* same: the lookup then never finds another Desktop.
THEOREM OneConnectionIfEndpointStays == Spec /\ [](stale = {}) => []OneConnection
<1>1. stale = {} => [Rechecked]_vars
  BY DEF Rechecked, IdentityChanged
<1> QED BY <1>1, OneConnectionIfRechecked, PTL
=============================================================================

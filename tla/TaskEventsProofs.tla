--------------------------- MODULE TaskEventsProofs ---------------------------
(***************************************************************************)
(* Proofs about TaskEvents: types, that a wait nothing will wake has a     *)
(* reason to sleep, and that a wait which ends well saw what was true.     *)
(***************************************************************************)
EXTENDS TaskEvents, TLAPS

\* The task: at most one turn is active, the list has no holes, and a turn
\* that has not begun is blank.
TaskInv ==
  /\ \A i, j \in Turns : i \in ActiveIn(turn) /\ j \in ActiveIn(turn) => i = j
  /\ \A i \in Turns : turn[i].status = "none" => turn[i] = NoTurn
  /\ \A i, j \in Turns : i < j /\ turn[j].status # "none" => turn[i].status # "none"
  /\ past.idle \/ past.busy
  /\ ActiveIn(turn) # {} => past.busy

Holds(s) == \E j \in 1..Len(queue) : queue[j] = s

\* Something is under way that will have the history read again.
Behind == lines > 0 \/ Holds("refresh")

Later == pc \in {"wait", "reread"}

\* The flags tell the truth about the queue and the world.
FlagInv ==
  /\ farewell \/ removed => deleted
  /\ closed => ~up
  /\ refreshQueued => Holds("refresh")
  /\ pc = "new" => want = 1 /\ view = Blank
  /\ ~Reading /\ pc # "done" => ~reply.sent

\* What is read so far is the task as it is, or it will be read again.
FreshInv ==
  up /\ ~deleted =>
    /\ Reading => (\A i \in Turns : i < want => view[i] = turn[i]) \/ Behind
    /\ Reading /\ reply.sent =>
         \/ /\ reply.turn = turn[want]
            /\ reply.last => \A i \in Turns : i > want => turn[i] = NoTurn
         \/ Behind
    /\ pc = "wait" => previous = turn \/ Behind

\* The wait follows the history, and goes on only while it is not satisfied.
WaitInv ==
  /\ Reading => \A i \in Turns : i >= want => view[i] = NoTurn
  /\ Later => active = ActiveIn(previous)
  /\ Later /\ mode = "idle" => active # {}
  /\ Later /\ mode = "activity" => active # {} \/ ~sawActivity
  /\ Later /\ mode = "reconcile" => ~Marked(previous)

\* While the task was never idle its first turn has been active all along.
IdleInv ==
  ~past.idle =>
    /\ 1 \in ActiveIn(turn)
    /\ Reading /\ want > 1 => 1 \in ActiveIn(view)
    /\ Reading /\ reply.sent /\ want = 1 => reply.turn.status = "active"
    /\ Later => 1 \in active

\* While no turn has ended, a turn that was once seen active is active, and a
\* read that comes to it sees it so.
CycleInv ==
  ~past.cycle =>
    /\ Reading => ActiveIn(view) \subseteq ActiveIn(turn)
    /\ Reading /\ reply.sent /\ reply.turn.status = "active" => want \in ActiveIn(turn)
    /\ Later => active \subseteq ActiveIn(turn)
    /\ Later /\ sawActivity => active # {}
    /\ pc = "reread" =>
         \A b \in active :
           /\ b < want => b \in ActiveIn(view)
           /\ reply.sent /\ b = want => reply.turn.status = "active"
           /\ reply.sent /\ reply.last => b <= want

\* A mark that was read is in the task.
MarkInv ==
  /\ Reading => \A i \in Turns : view[i].marked => turn[i].marked
  /\ Reading /\ reply.sent /\ reply.turn.marked => turn[want].marked

-----------------------------------------------------------------------------
(* Types *)

\* A page that is not the last has one behind it.
TypeInv == TypeOK /\ (reply.sent /\ ~reply.last => want < N)

LEMMA Constants == N \in Nat \ {0} /\ 1 \in Turns /\ Turns \subseteq Nat
BY EventsAssumption DEF Turns

LEMMA BlankTyped == Blank \in [Turns -> Turn] /\ NoReply \in Reply
BY DEF Blank, NoTurn, Turn, NoReply, Reply

LEMMA TypeInit == Init => TypeInv
<1> SUFFICES ASSUME Init PROVE TypeInv
  OBVIOUS
<1>1. turn \in [Turns -> Turn]
  BY BlankTyped DEF Init
<1>2. past \in [idle : BOOLEAN, busy : BOOLEAN, cycle : BOOLEAN]
  BY DEF Init
<1>3. queue \in Seq(Signals)
  BY DEF Init
<1> QED BY <1>1, <1>2, <1>3, BlankTyped, Constants DEF Init, TypeInv, TypeOK, PCs, Verdicts, NoReply

LEMMA TypeTask ==
  ASSUME TypeInv, TaskStep
  PROVE  TypeInv'
<1>1. PICK i \in Turns : BeginTurn(i) \/ TakeMessage(i) \/ EndTurn(i)
  BY DEF TaskStep
<1>2. PICK r \in Turn : Becomes(i, r)
  BY <1>1 DEF BeginTurn, TakeMessage, EndTurn, Turn, TypeInv, TypeOK
<1> QED BY <1>2 DEF Becomes, TypeInv, TypeOK, stream, signals, read, wait

LEMMA OfferTyped ==
  ASSUME queue \in Seq(Signals), NEW s \in Signals, Offer(s)
  PROVE  queue' \in Seq(Signals)
BY DEF Offer

LEMMA TailTyped ==
  ASSUME queue \in Seq(Signals), queue # << >>
  PROVE  Tail(queue) \in Seq(Signals)
OBVIOUS

LEMMA TypeListener ==
  ASSUME TypeInv, Callback \/ GoDown \/ Subscribe
  PROVE  TypeInv'
<1> USE DEF TypeInv, TypeOK
<1>1. queue' \in Seq(Signals)
  <2>1. "refresh" \in Signals /\ "removed" \in Signals /\ "closed" \in Signals
    BY DEF Signals
  <2> QED BY <2>1, OfferTyped
       DEF Callback, Notified, NotifiedOfDeletion, GoDown, Subscribe
<1> USE <1>1, BlankTyped DEF stream, signals, read, wait, task
<1>2. CASE Notified
  <2>1. lines' \in Nat
    BY <1>2 DEF Notified
  <2>2. refreshQueued' \in BOOLEAN
    BY <1>2 DEF Notified
  <2> QED BY <1>2, <2>1, <2>2 DEF Notified
<1>3. CASE NotifiedOfDeletion
  BY <1>3 DEF NotifiedOfDeletion
<1>4. CASE GoDown
  BY <1>4 DEF GoDown, NoReply
<1>5. CASE Subscribe
  BY <1>5 DEF Subscribe, PCs
<1> QED BY <1>2, <1>3, <1>4, <1>5 DEF Callback

LEMMA TypeRead ==
  ASSUME TypeInv, Serve \/ TurnPage \/ PassOn
  PROVE  TypeInv'
<1> USE DEF TypeInv, TypeOK, stream, signals, wait, task
<1>1. CASE Serve
  <2>1. reply' \in Reply
    BY <1>1 DEF Serve, Reply
  <2>2. ~reply'.last => want < N
    BY <1>1, Constants DEF Serve, Turns
  <2> QED BY <1>1, <2>1, <2>2 DEF Serve
<1>2. CASE TurnPage
  <2>1. view' \in [Turns -> Turn]
    BY <1>2 DEF TurnPage, Reply
  <2>2. want' \in Turns
    BY <1>2, Constants DEF TurnPage, NextPage, Turns
  <2> QED BY <1>2, <2>1, <2>2, BlankTyped DEF TurnPage, NoReply
<1>3. CASE PassOn
  <2> DEFINE new == [view EXCEPT ![want] = reply.turn]
  <2>1. new \in [Turns -> Turn]
    BY DEF Reply
  <2>2. view' = new /\ previous' = new /\ reply' = NoReply
    BY <1>3 DEF PassOn
  <2>3. active' \subseteq Turns /\ sawActivity' \in BOOLEAN
    BY <1>3 DEF PassOn, FromSnapshot, Tracked, ActiveIn, ChangedTurns
  <2>4. pc' \in PCs /\ verdict' \in Verdicts
    BY <1>3 DEF PassOn, Ends, PCs, Verdicts
  <2>5. UNCHANGED <<task, up, signals, want, mode>>
    BY <1>3 DEF PassOn
  <2> HIDE DEF new
  <2> QED BY <2>1, <2>2, <2>3, <2>4, <2>5, BlankTyped DEF NoReply
<1> QED BY <1>1, <1>2, <1>3

LEMMA TypeTake ==
  ASSUME TypeInv, TakeRefresh \/ TakeRemoved \/ TakeClosed \/ ReadFails \/ TimeOut \/ Delete
  PROVE  TypeInv'
<1> USE DEF TypeInv, TypeOK, stream, signals, read, wait, task, Ends, PCs, Verdicts
<1>1. CASE TakeRefresh
  <2>1. want' \in Turns /\ view' \in [Turns -> Turn] /\ want' <= want
    BY <1>1, BlankTyped, Constants DEF TakeRefresh, Turns
  <2>2. queue' \in Seq(Signals)
    BY <1>1, TailTyped DEF TakeRefresh
  <2>3. refreshQueued' \in BOOLEAN /\ pc' \in PCs
    BY <1>1 DEF TakeRefresh, FlagAfterTake
  <2>4. UNCHANGED <<task, up, verdict, removed, closed, reply, previous, wait>>
    BY <1>1 DEF TakeRefresh
  <2>5. reply.sent /\ ~reply.last => want' < N
    BY <2>1, Constants
  <2> QED BY <2>1, <2>2, <2>3, <2>4, <2>5
<1>2. CASE TakeRemoved \/ TakeClosed
  <2>1. queue' \in Seq(Signals)
    BY <1>2, TailTyped DEF TakeRemoved, TakeClosed
  <2> QED BY <1>2, <2>1 DEF TakeRemoved, TakeClosed
<1>4. CASE ReadFails \/ TimeOut
  BY <1>4 DEF ReadFails, TimeOut
<1>5. CASE Delete
  BY <1>5 DEF Delete
<1> QED BY <1>1, <1>2, <1>4, <1>5

LEMMA TypeStep == TypeInv /\ [Next]_vars => TypeInv'
<1> SUFFICES ASSUME TypeInv, [Next]_vars PROVE TypeInv'
  OBVIOUS
<1>1. CASE UNCHANGED vars
  BY <1>1 DEF vars, TypeInv, TypeOK
<1> QED BY <1>1, TypeTask, TypeListener, TypeRead, TypeTake DEF Next, Stream, Quiescent

\* Every variable keeps its type; no page beyond the list is asked for.
THEOREM TypeCorrect == Spec => []TypeOK
<1>1. TypeInv => TypeOK
  BY DEF TypeInv
<1> QED BY <1>1, TypeInit, TypeStep, PTL DEF Spec

-----------------------------------------------------------------------------
(* The task and the flags *)

LEMMA TaskInit == Init => TaskInv
<1> SUFFICES ASSUME Init PROVE TaskInv
  OBVIOUS
<1>1. \A i \in Turns : i # 1 => turn[i] = NoTurn
  BY DEF Init, Blank
<1>2. turn[1].status = "none" => turn[1] = NoTurn
  BY Constants DEF Init, Blank
<1>3. past.idle \/ past.busy
  BY DEF Init
<1>4. ActiveIn(turn) # {} => past.busy
  BY DEF Init
<1> QED BY <1>1, <1>2, <1>3, <1>4, Constants DEF TaskInv, ActiveIn, NoTurn, Turns

LEMMA TaskKept ==
  ASSUME TypeOK, TaskInv, TaskStep
  PROVE  TaskInv'
<1> USE DEF TypeOK, TaskInv
<1>1. PICK i \in Turns : BeginTurn(i) \/ TakeMessage(i) \/ EndTurn(i)
  BY DEF TaskStep
<1>2. PICK r \in Turn : Becomes(i, r) /\ r.status \in {"active", "ended"}
                        /\ (r.status = "active" => ActiveIn(turn) \subseteq {i})
  <2>1. CASE BeginTurn(i)
    BY <2>1 DEF BeginTurn, Turn
  <2>2. CASE TakeMessage(i)
    BY <2>2 DEF TakeMessage, Turn, ActiveIn
  <2>3. CASE EndTurn(i)
    BY <2>3 DEF EndTurn, Turn
  <2> QED BY <1>1, <2>1, <2>2, <2>3
<1>3. turn' = [turn EXCEPT ![i] = r]
  BY <1>2 DEF Becomes
<1>4. \A j, k \in Turns : j < k /\ turn'[k].status # "none" => turn'[j].status # "none"
  BY <1>1, <1>2, <1>3, Constants DEF BeginTurn, TakeMessage, EndTurn
<1>5. \A j, k \in Turns : j \in ActiveIn(turn') /\ k \in ActiveIn(turn') => j = k
  BY <1>2, <1>3 DEF ActiveIn
<1>6. \A j \in Turns : turn'[j].status = "none" => turn'[j] = NoTurn
  BY <1>2, <1>3
<1>7. past' = [idle  |-> past.idle \/ ActiveIn(turn') = {},
               busy  |-> past.busy \/ ActiveIn(turn') # {},
               cycle |-> past.cycle \/ (past.busy /\ ActiveIn(turn') = {})]
  BY <1>2 DEF Becomes
<1>8. (past'.idle \/ past'.busy) /\ (ActiveIn(turn') # {} => past'.busy)
  BY <1>7
<1> QED BY <1>4, <1>5, <1>6, <1>8 DEF ActiveIn

LEMMA Still == ASSUME [Next]_vars, ~TaskStep PROVE UNCHANGED <<turn, past>>
BY DEF Next, Delete, Serve, Callback, Notified, NotifiedOfDeletion, GoDown, Stream,
       Subscribe, TurnPage, PassOn, TakeRefresh, TakeRemoved, TakeClosed, ReadFails,
       TimeOut, Quiescent, vars, task

LEMMA TaskHolds == Spec => []TaskInv
<1>1. TypeOK /\ TaskInv /\ [Next]_vars => TaskInv'
  <2> SUFFICES ASSUME TypeOK, TaskInv, [Next]_vars PROVE TaskInv'
    OBVIOUS
  <2>1. CASE TaskStep
    BY <2>1, TaskKept
  <2>2. CASE ~TaskStep
    BY <2>2, Still DEF TaskInv, ActiveIn
  <2> QED BY <2>1, <2>2
<1> QED BY <1>1, TaskInit, TypeCorrect, PTL DEF Spec

LEMMA HoldsOffered ==
  ASSUME queue \in Seq(Signals), NEW s \in Signals, Offer(s)
  PROVE  Holds(s)' /\ (Holds("refresh") => Holds("refresh")')
<1>1. queue' = Append(queue, s)
  BY DEF Offer
<1>2. Len(queue') = Len(queue) + 1 /\ queue'[Len(queue) + 1] = s
  BY <1>1
<1>3. \A j \in 1..Len(queue) : queue'[j] = queue[j]
  BY <1>1
<1> QED BY <1>2, <1>3 DEF Holds

LEMMA HoldsTaken ==
  ASSUME queue \in Seq(Signals), queue # << >>, queue' = Tail(queue),
         Head(queue) # "refresh", Holds("refresh")
  PROVE  Holds("refresh")'
<1>1. PICK j \in 1..Len(queue) : queue[j] = "refresh"
  BY DEF Holds
<1>2. j # 1
  BY <1>1
<1>3. j - 1 \in 1..Len(queue') /\ queue'[j - 1] = "refresh"
  BY <1>1, <1>2
<1> QED BY <1>3 DEF Holds

LEMMA FlagKept ==
  ASSUME TypeOK, FlagInv, [Next]_vars
  PROVE  FlagInv'
<1> USE DEF TypeOK, FlagInv, Reading
<1>1. CASE TaskStep \/ Delete
  <2>1. UNCHANGED <<signals, read, up, pc>> /\ (deleted => deleted')
        /\ (farewell' => farewell \/ deleted')
    BY <1>1 DEF TaskStep, BeginTurn, TakeMessage, EndTurn, Becomes, Delete, stream
  <2> QED BY <2>1 DEF signals, read, Holds
<1>2. CASE Callback \/ GoDown \/ Subscribe
  <2>1. "refresh" \in Signals /\ "removed" \in Signals /\ "closed" \in Signals
    BY DEF Signals
  <2>2. CASE Notified
    BY <2>1, <2>2, HoldsOffered DEF Notified, Holds, stream, read
  <2>3. CASE NotifiedOfDeletion
    BY <2>1, <2>3, HoldsOffered DEF NotifiedOfDeletion, Holds, stream, read
  <2>4. CASE GoDown
    BY <2>1, <2>4, HoldsOffered DEF GoDown, Holds, stream, NoReply
  <2>5. CASE Subscribe
    BY <2>1, <2>5, HoldsOffered DEF Subscribe, Holds, read, task
  <2> QED BY <1>2, <2>2, <2>3, <2>4, <2>5 DEF Callback
<1>3. CASE Serve \/ TurnPage \/ PassOn
  <2>1. UNCHANGED <<signals, task, up>> /\ pc # "new" /\ pc' # "new"
        /\ (~Reading' => pc' = "done" \/ ~reply'.sent)
    <3>1. CASE Serve
      BY <3>1 DEF Serve, stream
    <3>2. CASE TurnPage
      BY <3>2 DEF TurnPage, stream, NoReply
    <3>3. CASE PassOn
      BY <3>3 DEF PassOn, Ends, NoReply
    <3> QED BY <1>3, <3>1, <3>2, <3>3
  <2> QED BY <2>1 DEF signals, task, Holds
<1>4. CASE TakeRefresh \/ TakeRemoved \/ TakeClosed \/ ReadFails \/ TimeOut
  <2>1. UNCHANGED <<task, up, removed, closed, reply>> /\ pc # "done" /\ pc' # "new"
    BY <1>4 DEF TakeRefresh, TakeRemoved, TakeClosed, ReadFails, TimeOut, Ends, stream,
                signals, read
  <2>2. refreshQueued' => Holds("refresh")'
    <3>1. CASE TakeRefresh
      BY <3>1 DEF TakeRefresh, FlagAfterTake
    <3>2. CASE TakeRemoved \/ TakeClosed
      BY <3>2, HoldsTaken DEF TakeRemoved, TakeClosed
    <3>3. CASE ReadFails \/ TimeOut
      BY <3>3 DEF ReadFails, TimeOut, signals, Holds
    <3> QED BY <1>4, <3>1, <3>2, <3>3
  <2>3. pc' \notin {"load", "reread", "done"} => ~Reading
    BY <1>4 DEF TakeRefresh, TakeRemoved, TakeClosed, ReadFails, TimeOut, Ends, stream
  <2> QED BY <2>1, <2>2, <2>3 DEF task
<1>5. CASE UNCHANGED vars
  BY <1>5 DEF vars, Holds
<1> QED BY <1>1, <1>2, <1>3, <1>4, <1>5 DEF Next, Stream, Quiescent

LEMMA FlagHolds == Spec => []FlagInv
<1>1. Init => FlagInv
  BY DEF Init, FlagInv, Reading, NoReply
<1>2. TypeOK /\ FlagInv /\ [Next]_vars => FlagInv'
  BY FlagKept
<1> QED BY <1>1, <1>2, TypeCorrect, PTL DEF Spec

-----------------------------------------------------------------------------
(* The wait goes on only while it is not satisfied *)

LEMMA TrackedAll ==
  ASSUME NEW new \in [Turns -> Turn], previous \in [Turns -> Turn],
         active = ActiveIn(previous)
  PROVE  Tracked(new, ChangedTurns(previous, new)) = ActiveIn(new)
BY DEF Tracked, ChangedTurns, ActiveIn

LEMMA WaitPass ==
  ASSUME TypeOK, WaitInv, PassOn
  PROVE  WaitInv'
<1> DEFINE new == [view EXCEPT ![want] = reply.turn]
           changed == ChangedTurns(previous, new)
           upTo(k) == {i \in changed : i <= k}
           saw(k) == sawActivity \/ \E j \in changed : j <= k /\ Tracked(new, upTo(j)) # {}
           met(k) == Satisfied(Tracked(new, upTo(k)), saw(k), \E j \in upTo(k) : new[j].marked)
<1>1. new \in [Turns -> Turn] /\ previous \in [Turns -> Turn]
  BY DEF TypeOK, Reply
<1>2. Reading /\ previous' = new /\ mode' = mode /\ mode \in {"idle", "activity", "reconcile"}
  BY EventsAssumption DEF PassOn, TypeOK
<1>3. pc' \in {"done", "wait"}
  BY DEF PassOn, Ends
<1> SUFFICES ASSUME pc' = "wait" PROVE WaitInv'
  BY <1>3 DEF WaitInv, Reading, Later
<1>4. CASE pc = "load"
  <2>1. active' = ActiveIn(new) /\ sawActivity' = (active' # {})
    BY <1>4 DEF PassOn, FromSnapshot
  <2>2. ~Satisfied(active', sawActivity', Marked(new))
    BY <1>4 DEF PassOn, Ends
  <2> HIDE DEF new
  <2>3. Satisfied(active', sawActivity', Marked(new)) <=>
          \/ mode = "idle" /\ active' = {}
          \/ mode = "activity" /\ active' = {} /\ sawActivity'
          \/ mode = "reconcile" /\ Marked(new)
    BY <1>2 DEF Satisfied
  <2>4. mode = "idle" => active' # {}
    BY <2>2, <2>3
  <2>5. mode = "activity" => active' # {} \/ ~sawActivity'
    BY <2>2, <2>3
  <2>6. mode = "reconcile" => ~Marked(new)
    BY <2>2, <2>3
  <2> QED BY <1>2, <2>1, <2>4, <2>5, <2>6 DEF WaitInv, Reading, Later, ActiveIn, Marked
<1>5. CASE pc = "reread"
  <2>1. active = ActiveIn(previous) /\ (mode = "idle" => active # {})
        /\ (mode = "activity" => active # {} \/ ~sawActivity)
        /\ (mode = "reconcile" => ~Marked(previous))
    BY <1>5 DEF WaitInv, Later
  <2>2. active' = Tracked(new, changed) /\ sawActivity' = saw(N)
    BY <1>5 DEF PassOn
  <2>3. \A k \in Turns : upTo(k) # {} => ~met(k)
    BY <1>5 DEF PassOn, Ends
  <2>4. changed \subseteq Turns
    BY DEF ChangedTurns
  <2> HIDE DEF new
  <2>5. active' = ActiveIn(new)
    BY <1>1, <2>1, <2>2, TrackedAll
  <2>6. N \in Turns /\ upTo(N) = changed
    BY <2>4, Constants DEF Turns
  <2> HIDE DEF saw, changed
  <2>7. (mode = "idle" => active' # {}) /\ (mode = "activity" => active' # {} \/ ~sawActivity')
        /\ (mode = "reconcile" => ~Marked(new))
    <3>1. CASE changed = {}
      <4>1. active' = active
        BY <2>2, <3>1 DEF Tracked
      <4>2. sawActivity' => sawActivity
        BY <2>2, <3>1 DEF saw
      <4>3. \A i \in Turns : new[i] = previous[i]
        BY <3>1 DEF changed, ChangedTurns
      <4> QED BY <2>1, <4>1, <4>2, <4>3 DEF Marked
    <3>2. CASE changed # {}
      <4>1. ~Satisfied(active', saw(N), \E j \in changed : new[j].marked)
        BY <2>2, <2>3, <2>6, <3>2
      <4>2. mode = "idle" => active' # {}
        BY <4>1 DEF Satisfied
      <4>3. mode = "activity" => active' # {} \/ ~saw(N)
        BY <4>1 DEF Satisfied
      <4>4. mode = "reconcile" => ~(\E j \in changed : new[j].marked)
        BY <4>1 DEF Satisfied
      <4>5. \A i \in Turns : new[i] = previous[i] \/ i \in changed
        BY DEF changed, ChangedTurns
      <4>6. mode = "reconcile" => ~Marked(new)
        BY <2>1, <4>4, <4>5 DEF Marked
      <4> QED BY <2>2, <4>2, <4>3, <4>6
    <3> QED BY <3>1, <3>2
  <2> QED BY <1>2, <2>5, <2>7 DEF WaitInv, Reading, Later, ActiveIn, Marked
<1> QED BY <1>2, <1>4, <1>5 DEF Reading

\* What neither reads nor tracks.
LEMMA World ==
  ASSUME TaskStep \/ Delete \/ Serve \/ Callback \/ GoDown
  PROVE  UNCHANGED <<pc, verdict, want, view, previous, mode, active, sawActivity>>
BY DEF TaskStep, BeginTurn, TakeMessage, EndTurn, Becomes, Delete, Serve, Callback, Notified,
       NotifiedOfDeletion, GoDown, stream, read, wait

LEMMA WaitKept ==
  ASSUME TypeOK, FlagInv, WaitInv, [Next]_vars
  PROVE  WaitInv'
<1> USE DEF WaitInv, Reading, Later
<1>1. CASE TaskStep \/ Delete \/ Serve \/ Callback \/ GoDown
  BY <1>1, World DEF ActiveIn, Marked
<1>2. CASE Subscribe
  BY <1>2 DEF Subscribe, FlagInv, Blank, read
<1>3. CASE TurnPage
  <2>1. pc' = pc /\ want' = want + 1 /\ UNCHANGED <<mode, active, sawActivity, previous>>
    BY <1>3 DEF TurnPage, NextPage, stream, wait
  <2>2. Reading /\ \A i \in Turns : i >= want' => view'[i] = NoTurn
    BY <1>3, <2>1, Constants DEF TurnPage, TypeOK
  <2> QED BY <2>1, <2>2 DEF ActiveIn, Marked
<1>4. CASE PassOn
  BY <1>4, WaitPass
<1>5. CASE TakeRefresh
  BY <1>5 DEF TakeRefresh, Blank, wait, ActiveIn, Marked
<1>6. CASE TakeRemoved \/ TakeClosed \/ ReadFails \/ TimeOut
  BY <1>6 DEF TakeRemoved, TakeClosed, ReadFails, TimeOut, Ends, stream, read, wait,
              ActiveIn, Marked
<1>7. CASE UNCHANGED vars
  BY <1>7 DEF vars, ActiveIn, Marked
<1> QED BY <1>1, <1>2, <1>3, <1>4, <1>5, <1>6, <1>7 DEF Next, Stream, Quiescent

LEMMA WaitHolds == Spec => []WaitInv
<1>1. Init => WaitInv
  BY DEF Init, WaitInv, Reading, Later
<1>2. TypeOK /\ FlagInv /\ WaitInv /\ [Next]_vars => WaitInv'
  BY WaitKept
<1> QED BY <1>1, <1>2, TypeCorrect, FlagHolds, PTL DEF Spec

-----------------------------------------------------------------------------
(* What was read is current, or it will be read again *)

LEMMA FreshWorld ==
  ASSUME TypeOK, TaskInv, FlagInv, FreshInv, TaskStep \/ Delete \/ Serve \/ Callback \/ GoDown
  PROVE  FreshInv'
<1> USE DEF FreshInv
<1>1. CASE TaskStep
  <2>1. up' = up /\ (up => lines' > 0)
    BY <1>1 DEF TaskStep, BeginTurn, TakeMessage, EndTurn, Becomes, TypeOK
  <2> QED BY <2>1 DEF Behind
<1>2. CASE Delete
  BY <1>2 DEF Delete
<1>3. CASE Serve
  <2>1. reply'.turn = turn[want] /\ (reply'.last => \A i \in Turns : i > want => turn[i] = NoTurn)
    BY <1>3 DEF Serve, TaskInv
  <2>2. UNCHANGED <<turn, lines, deleted, up, pc, queue, want, view, previous>>
    BY <1>3 DEF Serve, task, stream, signals
  <2> QED BY <2>1, <2>2 DEF Reading, Behind, Holds
<1>4. CASE Callback
  <2>1. UNCHANGED <<turn, deleted, up, pc, want, reply, view, previous>>
    BY <1>4 DEF Callback, Notified, NotifiedOfDeletion, stream, read
  <2>2. CASE Notified
    <3> SUFFICES ASSUME up, ~deleted, Reading \/ pc = "wait" PROVE Holds("refresh")'
      BY <2>1 DEF Behind, Reading
    <3>1. Subscribed /\ ~removed /\ ~closed
      BY DEF Subscribed, Reading, FlagInv
    <3>2. "refresh" \in Signals
      BY DEF Signals
    <3>3. CASE refreshQueued
      BY <2>2, <3>1, <3>3 DEF Notified, RefreshWanted, FlagInv, Holds
    <3>4. CASE ~refreshQueued
      BY <2>2, <3>1, <3>2, <3>4, HoldsOffered DEF Notified, RefreshWanted, TypeOK
    <3> QED BY <3>3, <3>4
  <2>3. CASE NotifiedOfDeletion
    BY <2>1, <2>3 DEF NotifiedOfDeletion, FlagInv
  <2> QED BY <1>4, <2>2, <2>3 DEF Callback
<1>5. CASE GoDown
  BY <1>5 DEF GoDown
<1> QED BY <1>1, <1>2, <1>3, <1>4, <1>5

LEMMA FreshRead ==
  ASSUME TypeOK, FreshInv, WaitInv, TurnPage \/ PassOn
  PROVE  FreshInv'
<1>1. UNCHANGED <<turn, lines, deleted, up, queue>> /\ Reading /\ reply' = NoReply
  BY DEF TurnPage, PassOn, task, signals
<1> SUFFICES ASSUME up, ~deleted, ~Behind PROVE FreshInv'
  BY <1>1 DEF FreshInv, Behind, Holds
<1>2. /\ \A i \in Turns : i < want => view[i] = turn[i]
      /\ reply.sent => /\ reply.turn = turn[want]
                       /\ reply.last => \A i \in Turns : i > want => turn[i] = NoTurn
  BY <1>1 DEF FreshInv
<1>3. view' = [view EXCEPT ![want] = turn[want]] /\ reply.sent
  BY <1>2 DEF TurnPage, PassOn
<1>4. CASE TurnPage
  <2>1. \A i \in Turns : i < want' => view'[i] = turn[i]
    BY <1>2, <1>3, <1>4, Constants DEF TurnPage, NextPage, TypeOK
  <2>2. pc' # "wait"
    BY <1>1, <1>4 DEF TurnPage, stream, Reading
  <2> QED BY <1>1, <2>1, <2>2 DEF FreshInv, NoReply, Reading
<1>5. CASE PassOn
  <2>1. previous' = view' /\ reply.last /\ ~Reading'
    BY <1>5 DEF PassOn, Ends, Reading
  <2>2. \A i \in Turns : previous'[i] = turn[i]
    BY <1>1, <1>2, <1>3, <2>1, Constants DEF WaitInv, TypeOK
  <2>3. previous' = turn
    BY <1>3, <2>1, <2>2 DEF TypeOK
  <2> QED BY <1>1, <2>1, <2>3 DEF FreshInv
<1> QED BY <1>4, <1>5

LEMMA FreshKept ==
  ASSUME TypeOK, TaskInv, FlagInv, FreshInv, WaitInv, [Next]_vars
  PROVE  FreshInv'
<1>1. CASE TaskStep \/ Delete \/ Serve \/ Callback \/ GoDown
  BY <1>1, FreshWorld
<1>2. CASE TurnPage \/ PassOn
  BY <1>2, FreshRead
<1>3. CASE Subscribe
  BY <1>3, Constants DEF Subscribe, FreshInv, FlagInv, Reading, read, Turns
<1>4. CASE TakeRefresh
  <2>1. CASE removed \/ closed
    BY <1>4, <2>1 DEF TakeRefresh, FreshInv, FlagInv, task
  <2>2. CASE ~(removed \/ closed)
    BY <1>4, <2>2, Constants DEF TakeRefresh, FreshInv, FlagInv, Reading, Turns
  <2> QED BY <2>1, <2>2
<1>5. CASE TakeRemoved
  <2>1. Holds("refresh") => Holds("refresh")'
    BY <1>5, HoldsTaken DEF TakeRemoved, TypeOK
  <2>2. UNCHANGED <<task, up, read>> /\ pc = "wait" /\ pc' \in {"wait", "done"}
    BY <1>5 DEF TakeRemoved, Ends, stream
  <2> QED BY <2>1, <2>2 DEF FreshInv, Reading, Behind, task, read
<1>6. CASE TakeClosed \/ ReadFails \/ TimeOut
  BY <1>6 DEF TakeClosed, ReadFails, TimeOut, Ends, FreshInv, Reading
<1>7. CASE UNCHANGED vars
  BY <1>7 DEF vars, FreshInv, Reading, Behind, Holds
<1> QED BY <1>1, <1>2, <1>3, <1>4, <1>5, <1>6, <1>7 DEF Next, Stream, Quiescent

LEMMA FreshHolds == Spec => []FreshInv
<1>1. Init => FreshInv
  BY DEF Init, FreshInv, Reading
<1>2. TypeOK /\ TaskInv /\ FlagInv /\ FreshInv /\ WaitInv /\ [Next]_vars => FreshInv'
  BY FreshKept
<1> QED BY <1>1, <1>2, TypeCorrect, TaskHolds, FlagHolds, WaitHolds, PTL DEF Spec

\* A wait that nothing on its way can wake has a reason to go on.
THEOREM SleepsForAReasonHolds == Spec => []SleepsForAReason
<1>1. TypeOK /\ FreshInv /\ WaitInv => SleepsForAReason
  <2> SUFFICES ASSUME TypeOK, FreshInv, WaitInv, Asleep
               PROVE  /\ mode = "idle" => ActiveIn(turn) # {}
                      /\ mode = "activity" => ActiveIn(turn) # {} \/ ~sawActivity
                      /\ mode = "reconcile" => ~Marked(turn)
    BY EventsAssumption DEF SleepsForAReason, TypeOK
  <2>1. ~Behind
    BY DEF Asleep, Behind, Holds
  <2>2. previous = turn
    BY <2>1 DEF Asleep, FreshInv
  <2> QED BY <2>2 DEF WaitInv, Later, Asleep
<1> QED BY <1>1, TypeCorrect, FreshHolds, WaitHolds, PTL

-----------------------------------------------------------------------------
(* What a wait saw was the case *)

SawInv == IdleInv /\ CycleInv /\ MarkInv

LEMMA TaskMoves ==
  ASSUME TypeOK, TaskInv, TaskStep
  PROVE  /\ ~past'.idle => ~past.idle /\ (1 \in ActiveIn(turn) => 1 \in ActiveIn(turn'))
         /\ ~past'.cycle => ~past.cycle /\ ActiveIn(turn) \subseteq ActiveIn(turn')
         /\ \A i \in Turns : turn[i].marked => turn'[i].marked
         /\ UNCHANGED <<up, stream, signals, read, wait>>
<1> USE DEF TypeOK, TaskInv
<1>1. PICK i \in Turns : BeginTurn(i) \/ TakeMessage(i) \/ EndTurn(i)
  BY DEF TaskStep
<1>2. PICK r \in Turn : Becomes(i, r)
  BY <1>1 DEF BeginTurn, TakeMessage, EndTurn, Turn
<1>3. /\ turn' = [turn EXCEPT ![i] = r]
      /\ past'.idle = (past.idle \/ ActiveIn(turn') = {})
      /\ past'.cycle = (past.cycle \/ (past.busy /\ ActiveIn(turn') = {}))
      /\ UNCHANGED <<up, stream, signals, read, wait>>
  BY <1>2 DEF Becomes
<1>4. ActiveIn(turn) \subseteq ActiveIn(turn') \/ (ActiveIn(turn') = {} /\ past.busy)
  <2>1. CASE BeginTurn(i)
    BY <2>1 DEF BeginTurn
  <2>2. CASE TakeMessage(i)
    BY <1>3, <2>2 DEF TakeMessage, Becomes, ActiveIn
  <2>3. CASE EndTurn(i)
    BY <1>3, <2>3 DEF EndTurn, Becomes, ActiveIn
  <2> QED BY <1>1, <2>1, <2>2, <2>3
<1>5. \A j \in Turns : turn[j].marked => turn'[j].marked
  BY <1>1, <1>3 DEF BeginTurn, TakeMessage, EndTurn, Becomes, NoTurn
<1> QED BY <1>3, <1>4, <1>5

LEMMA SawWorld ==
  ASSUME TypeOK, TaskInv, SawInv, TaskStep \/ Delete \/ Serve \/ Callback \/ GoDown
  PROVE  SawInv'
<1> USE DEF SawInv, IdleInv, CycleInv, MarkInv, Reading, Later
<1>1. CASE TaskStep
  <2>1. ~past'.idle => IdleInv'
    BY <1>1, TaskMoves DEF read, stream, wait, ActiveIn
  <2>2. ~past'.cycle => CycleInv'
    BY <1>1, TaskMoves DEF read, stream, wait, ActiveIn
  <2>3. MarkInv'
    BY <1>1, TaskMoves DEF read, stream, TypeOK
  <2> QED BY <2>1, <2>2, <2>3
<1>2. CASE Serve
  <2>1. /\ reply'.turn = turn[want]
        /\ reply'.last => \A i \in Turns : i > want => turn[i].status = "none"
        /\ UNCHANGED <<turn, past, pc, want, view, active, sawActivity>>
    BY <1>2 DEF Serve, task, stream, wait
  <2>2. want \in Turns /\ active \subseteq Turns /\ Turns \subseteq Nat
    BY Constants DEF TypeOK
  <2> QED BY <2>1, <2>2 DEF ActiveIn
<1>3. CASE Delete \/ Callback \/ GoDown
  <2>1. /\ UNCHANGED <<turn, past, pc, want, view, active, sawActivity>>
        /\ reply' = reply \/ reply' = NoReply
    BY <1>3 DEF Delete, Callback, Notified, NotifiedOfDeletion, GoDown, stream, read, wait
  <2> QED BY <2>1 DEF ActiveIn, NoReply
<1> QED BY <1>1, <1>2, <1>3

\* What the last page makes of the history.
LEMMA SawNew ==
  ASSUME TypeOK, SawInv, Reading, reply.sent, reply.last,
         NEW new, new = [view EXCEPT ![want] = reply.turn]
  PROVE  /\ new \in [Turns -> Turn]
         /\ ~past.idle => 1 \in ActiveIn(new)
         /\ ~past.cycle => ActiveIn(new) \subseteq ActiveIn(turn)
         /\ ~past.cycle /\ pc = "reread" => active \subseteq ActiveIn(new)
         /\ Marked(new) => Marked(turn)
<1> USE DEF TypeOK, SawInv
<1>1. new \in [Turns -> Turn] /\ new[want] = reply.turn
      /\ \A i \in Turns : i # want => new[i] = view[i]
  BY DEF Reply
<1>2. want \in Turns /\ 1 \in Turns /\ Turns \subseteq Nat /\ (want = 1 \/ want > 1)
  BY Constants DEF Turns
<1>3. ~past.idle => 1 \in ActiveIn(new)
  BY <1>1, <1>2 DEF IdleInv, ActiveIn
<1>4. ~past.cycle => ActiveIn(new) \subseteq ActiveIn(turn)
  BY <1>1 DEF CycleInv, ActiveIn
<1>5. ~past.cycle /\ pc = "reread" => active \subseteq ActiveIn(new)
  <2> SUFFICES ASSUME ~past.cycle, pc = "reread", NEW b \in active PROVE b \in ActiveIn(new)
    OBVIOUS
  <2>1. b < want \/ b = want
    BY <1>2 DEF CycleInv
  <2> QED BY <1>1, <1>2, <2>1 DEF CycleInv, ActiveIn
<1>6. Marked(new) => Marked(turn)
  BY <1>1 DEF MarkInv, Marked
<1> QED BY <1>1, <1>3, <1>4, <1>5, <1>6

LEMMA SawPass ==
  ASSUME TypeOK, WaitInv, SawInv, PassOn
  PROVE  SawInv'
<1> DEFINE new == [view EXCEPT ![want] = reply.turn]
<1>1. /\ Reading /\ reply.sent /\ reply.last
      /\ UNCHANGED <<turn, past>> /\ pc' \in {"wait", "done"} /\ previous' = new
  BY DEF PassOn, Ends, task
<1>2. /\ new \in [Turns -> Turn]
      /\ ~past.idle => 1 \in ActiveIn(new)
      /\ ~past.cycle => ActiveIn(new) \subseteq ActiveIn(turn)
      /\ ~past.cycle /\ pc = "reread" => active \subseteq ActiveIn(new)
  BY <1>1, SawNew
<1>3. active' = ActiveIn(new)
  <2>1. CASE pc = "load"
    BY <2>1 DEF PassOn, FromSnapshot
  <2>2. CASE pc = "reread"
    BY <1>2, <2>2, TrackedAll DEF PassOn, WaitInv, Later, TypeOK
  <2> QED BY <1>1, <2>1, <2>2 DEF Reading
<1> HIDE DEF new
<1>4. ~past.cycle /\ sawActivity' => active' # {}
  <2>1. CASE pc = "load"
    BY <2>1 DEF PassOn
  <2>2. CASE pc = "reread"
    <3>1. sawActivity' => sawActivity \/ \E S \in SUBSET Turns : Tracked(new, S) # {}
      BY <2>2 DEF PassOn, new, ChangedTurns
    <3>2. \A S \in SUBSET Turns : Tracked(new, S) \subseteq active \cup ActiveIn(new)
      BY DEF Tracked
    <3>3. ~past.cycle /\ sawActivity => active # {}
      BY <2>2 DEF SawInv, CycleInv, Later
    <3> QED BY <1>2, <1>3, <2>2, <3>1, <3>2, <3>3
  <2> QED BY <1>1, <2>1, <2>2 DEF Reading
<1> QED BY <1>1, <1>2, <1>3, <1>4 DEF SawInv, IdleInv, CycleInv, MarkInv, Reading, Later, ActiveIn

LEMMA SawKept ==
  ASSUME TypeOK, TaskInv, FlagInv, WaitInv, SawInv, [Next]_vars
  PROVE  SawInv'
<1>1. CASE TaskStep \/ Delete \/ Serve \/ Callback \/ GoDown
  BY <1>1, SawWorld
<1>2. CASE Subscribe
  BY <1>2, Constants DEF Subscribe, FlagInv, SawInv, IdleInv, CycleInv, MarkInv, Reading,
     Later, read, task, wait, Blank, NoTurn, ActiveIn, Turns
<1>3. CASE TurnPage
  <2>1. /\ Reading /\ reply.sent /\ ~reply'.sent /\ want' = want + 1
        /\ view' = [view EXCEPT ![want] = reply.turn]
        /\ UNCHANGED <<turn, past, pc, active, sawActivity>>
    BY <1>3 DEF TurnPage, NextPage, NoReply, task, stream, wait
  <2>2. want \in Turns /\ Turns \subseteq Nat /\ view \in [Turns -> Turn] /\ active \subseteq Turns
    BY Constants DEF TypeOK
  <2>3. view'[want] = reply.turn /\ \A i \in Turns : i # want => view'[i] = view[i]
    BY <2>1, <2>2
  <2>4. IdleInv'
    BY <2>1, <2>2, <2>3, Constants DEF SawInv, IdleInv, Reading, Later, ActiveIn, Turns
  <2>5. CycleInv'
    BY <2>1, <2>2, <2>3 DEF SawInv, CycleInv, Reading, Later, ActiveIn
  <2>6. MarkInv'
    BY <2>1, <2>2, <2>3 DEF SawInv, MarkInv, Reading
  <2> QED BY <2>4, <2>5, <2>6 DEF SawInv
<1>4. CASE PassOn
  BY <1>4, SawPass
<1>5. CASE TakeRefresh
  <2>1. UNCHANGED <<turn, past, reply, active, sawActivity>> /\ ~reply.sent
    BY <1>5 DEF TakeRefresh, task, wait, FlagInv, Reading
  <2>2. \/ UNCHANGED <<pc, want, view>>
        \/ pc = "wait" /\ pc' = "reread" /\ want' = 1 /\ view' = Blank
    BY <1>5 DEF TakeRefresh
  <2>3. ActiveIn(Blank) = {} /\ \A i \in Turns : ~Blank[i].marked
    BY DEF ActiveIn, Blank, NoTurn
  <2>4. active \subseteq Turns /\ \A i \in Turns : ~(i < 1)
    BY Constants DEF Turns, TypeOK
  <2> QED BY <2>1, <2>2, <2>3, <2>4
       DEF SawInv, IdleInv, CycleInv, MarkInv, Reading, Later, ActiveIn
<1>6. CASE TakeRemoved \/ TakeClosed \/ ReadFails \/ TimeOut
  <2>1. UNCHANGED <<task, read, wait>> /\ pc' \in {pc, "done"}
    BY <1>6 DEF TakeRemoved, TakeClosed, ReadFails, TimeOut, Ends, stream
  <2> QED BY <2>1 DEF SawInv, IdleInv, CycleInv, MarkInv, Reading, Later, ActiveIn, task,
       read, wait
<1>7. CASE UNCHANGED vars
  BY <1>7 DEF vars, SawInv, IdleInv, CycleInv, MarkInv, Reading, Later, ActiveIn
<1> QED BY <1>1, <1>2, <1>3, <1>4, <1>5, <1>6, <1>7 DEF Next, Stream, Quiescent

LEMMA SawHolds == Spec => []SawInv
<1>1. Init => SawInv
  <2> SUFFICES ASSUME Init PROVE SawInv
    OBVIOUS
  <2>1. ~past.idle => turn # Blank /\ ActiveIn(turn) # {}
    <3>1. past.idle <=> ActiveIn(turn) = {}
      BY DEF Init
    <3>2. ActiveIn(Blank) = {}
      BY DEF ActiveIn, Blank, NoTurn
    <3> QED BY <3>1, <3>2
  <2>2. turn # Blank => \A i \in Turns : i # 1 => turn[i].status = "none"
    BY DEF Init, Blank, NoTurn
  <2>3. ~past.idle => 1 \in ActiveIn(turn)
    BY <2>1, <2>2 DEF ActiveIn
  <2> QED BY <2>3 DEF Init, SawInv, IdleInv, CycleInv, MarkInv, Reading, Later
<1>2. TypeOK /\ TaskInv /\ FlagInv /\ WaitInv /\ SawInv /\ [Next]_vars => SawInv'
  BY SawKept
<1> QED BY <1>1, <1>2, TypeCorrect, TaskHolds, FlagHolds, WaitHolds, PTL DEF Spec

\* A wait that is satisfied is satisfied by something that was the case.
LEMMA SeenTrue ==
  ASSUME TypeOK, SawInv, PassOn, verdict' = "seen", verdict # "seen"
  PROVE  /\ mode = "idle" => past.idle
         /\ mode = "activity" => past.cycle
         /\ mode = "reconcile" => Marked(turn)
<1> DEFINE new == [view EXCEPT ![want] = reply.turn]
           changed == ChangedTurns(previous, new)
           upTo(k) == {i \in changed : i <= k}
           saw(k) == sawActivity \/ \E j \in changed : j <= k /\ Tracked(new, upTo(j)) # {}
<1>1. Reading /\ reply.sent /\ reply.last
  BY DEF PassOn
<1>2. /\ ~past.idle => 1 \in ActiveIn(new)
      /\ ~past.cycle => ActiveIn(new) \subseteq ActiveIn(turn)
      /\ ~past.cycle /\ pc = "reread" => active \subseteq ActiveIn(new)
      /\ Marked(new) => Marked(turn)
  BY <1>1, SawNew
<1>3. changed \subseteq Turns /\ Turns \subseteq Nat
  BY Constants DEF ChangedTurns
<1>4. CASE pc = "load"
  <2>1. /\ active' = ActiveIn(new) /\ sawActivity' = (active' # {})
        /\ Satisfied(active', sawActivity', Marked(new))
    BY <1>4 DEF PassOn, FromSnapshot
  <2> HIDE DEF new
  <2>2. mode = "idle" => active' = {}
    BY <2>1 DEF Satisfied
  <2>3. mode # "activity"
    BY <2>1 DEF Satisfied
  <2>4. mode = "reconcile" => Marked(new)
    BY <2>1 DEF Satisfied
  <2> QED BY <1>2, <2>1, <2>2, <2>3, <2>4
<1>5. CASE pc = "reread"
  <2>1. PICK k \in Turns :
           Satisfied(Tracked(new, upTo(k)), saw(k), \E j \in upTo(k) : new[j].marked)
    BY <1>5 DEF PassOn
  <2> HIDE DEF new
  <2>2. mode = "idle" => Tracked(new, upTo(k)) = {}
    BY <2>1 DEF Satisfied
  <2>3. mode = "activity" => Tracked(new, upTo(k)) = {} /\ saw(k)
    BY <2>1 DEF Satisfied
  <2>4. mode = "reconcile" => Marked(new)
    <3>1. mode = "reconcile" => \E j \in upTo(k) : new[j].marked
      BY <2>1 DEF Satisfied
    <3> QED BY <1>3, <3>1 DEF Marked
  <2>5. ~past.idle => 1 \in active
    BY <1>5 DEF SawInv, IdleInv, Later
  <2>6. ~past.idle => 1 \in Tracked(new, upTo(k))
    BY <1>2, <2>5 DEF Tracked
  <2>7. ~past.cycle /\ saw(k) => Tracked(new, upTo(k)) # {}
    <3> SUFFICES ASSUME ~past.cycle, saw(k) PROVE Tracked(new, upTo(k)) # {}
      OBVIOUS
    <3>1. active \subseteq Tracked(new, upTo(k))
      BY <1>2, <1>5 DEF Tracked
    <3>2. CASE sawActivity
      BY <1>5, <3>1, <3>2 DEF SawInv, CycleInv, Later
    <3>3. CASE ~sawActivity
      <4>1. PICK j \in changed : j <= k /\ Tracked(new, upTo(j)) # {}
        BY <3>3
      <4>2. upTo(j) \subseteq upTo(k)
        <5>1. j \in Nat /\ k \in Nat /\ \A i \in changed : i \in Nat
          BY <1>3
        <5> HIDE DEF changed
        <5>2. \A i \in changed : i <= j => i <= k
          BY <4>1, <5>1
        <5> QED BY <5>2
      <4> QED BY <3>1, <4>1, <4>2 DEF Tracked
    <3> QED BY <3>2, <3>3
  <2> QED BY <1>2, <2>2, <2>3, <2>4, <2>6, <2>7
<1> QED BY <1>1, <1>4, <1>5 DEF Reading

\* A wait ends well only for something that was the case since it was asked for.
THEOREM VerdictWasTrueHolds == Spec => []VerdictWasTrue
<1> DEFINE Seen == verdict = "seen" =>
             /\ mode = "idle" => past.idle
             /\ mode = "activity" => past.cycle
             /\ mode = "reconcile" => Marked(turn)
<1>1. Init => Seen
  BY DEF Init
<1>2. TypeOK /\ TaskInv /\ SawInv /\ Seen /\ [Next]_vars => Seen'
  <2> SUFFICES ASSUME TypeOK, TaskInv, SawInv, Seen, [Next]_vars, verdict' = "seen"
               PROVE  /\ mode' = "idle" => past'.idle
                      /\ mode' = "activity" => past'.cycle
                      /\ mode' = "reconcile" => Marked(turn')
    BY DEF Marked
  <2>1. mode' = mode
    BY DEF Next, TaskStep, BeginTurn, TakeMessage, EndTurn, Becomes, Delete, Serve, Callback,
       Notified, NotifiedOfDeletion, GoDown, Stream, Subscribe, TurnPage, PassOn, TakeRefresh,
       TakeRemoved, TakeClosed, ReadFails, TimeOut, Quiescent, vars, wait
  <2>2. CASE PassOn /\ verdict # "seen"
    BY <2>1, <2>2, SeenTrue DEF PassOn, task
  <2>3. CASE verdict = "seen"
    <3>1. CASE TaskStep
      <4>1. (past.idle => past'.idle) /\ (past.cycle => past'.cycle)
            /\ (Marked(turn) => Marked(turn'))
        <5>1. (~past'.idle => ~past.idle) /\ (~past'.cycle => ~past.cycle)
              /\ \A i \in Turns : turn[i].marked => turn'[i].marked
          BY <3>1, TaskMoves
        <5> QED BY <5>1 DEF Marked
      <4> QED BY <2>1, <2>3, <4>1
    <3>2. CASE ~TaskStep
      BY <2>1, <2>3, <3>2, Still
    <3> QED BY <3>1, <3>2
  <2>4. PassOn \/ verdict = "seen"
    BY World DEF Next, Stream, Subscribe, TurnPage, TakeRefresh, TakeRemoved, TakeClosed,
       ReadFails, TimeOut, Quiescent, Ends, vars, stream
  <2> QED BY <2>2, <2>3, <2>4
<1>3. TypeOK /\ Seen => VerdictWasTrue
  BY EventsAssumption DEF TypeOK, VerdictWasTrue
<1> QED BY <1>1, <1>2, <1>3, TypeCorrect, TaskHolds, SawHolds, PTL DEF Spec

=============================================================================

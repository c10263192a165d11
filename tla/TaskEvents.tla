------------------------------ MODULE TaskEvents ------------------------------
(***************************************************************************)
(* The snapshot-first event stream of a task and a wait on it.  The        *)
(* app-server only says that something changed; the stream then reads the  *)
(* history, page by page, and passes on what differs from the last time.   *)
(* Waits of the coordinator: for an idle task, for a cycle of activity,    *)
(* and for the turn that holds a delivery.                                 *)
(***************************************************************************)
EXTENDS Naturals, Sequences

CONSTANTS N,    \* turns the task may come to have
          Modes \* the waits considered

ASSUME EventsAssumption ==
  N \in Nat \ {0} /\ Modes \subseteq {"idle", "activity", "reconcile"}

Turns == 1..N

VARIABLES
  turn,     \* the task: the status of each turn and whether it holds the delivery
  deleted,  \* the task is gone
  lines,    \* notifications of a change still on their way
  farewell, \* the notification of the deletion is on its way, behind them
  up,       \* the peer has not gone down
  mode,     \* which wait this is
  pc,       \* the stream
  queue,    \* the queue of signals
  refreshQueued, removed, closed,
  want,     \* the page asked for
  reply,    \* a page on its way back
  view,     \* the history as far as it is read
  previous, \* the history passed on last
  active,   \* the wait: the turns it holds for active
  sawActivity,
  verdict,  \* how it ended
  past      \* history: what the task has been since the wait was asked for

task == <<turn, deleted, lines, farewell, past>>
signals == <<queue, refreshQueued, removed, closed>>
read == <<want, reply, view, previous>>
wait == <<mode, active, sawActivity>>
stream == <<pc, verdict>>
vars == <<turn, deleted, lines, farewell, up, mode, pc, queue, refreshQueued, removed,
          closed, want, reply, view, previous, active, sawActivity, verdict, past>>

Turn     == [status : {"none", "active", "ended"}, marked : BOOLEAN]
NoTurn   == [status |-> "none", marked |-> FALSE]
Reply    == [turn : Turn, last : BOOLEAN, sent : BOOLEAN]
NoReply  == [turn |-> NoTurn, last |-> FALSE, sent |-> FALSE]
Blank    == [i \in Turns |-> NoTurn]
PCs      == {"new", "load", "reread", "wait", "done"}
Signals  == {"refresh", "removed", "closed"}
Verdicts == {"none", "seen", "removed", "failed", "timeout"}

ActiveIn(t) == {i \in Turns : t[i].status = "active"}
Marked(t) == \E i \in Turns : t[i].marked

-----------------------------------------------------------------------------
(* Faulty variants, each in the place of one definition below *)

FlagStays == refreshQueued          \* the flag is not reset by the refresh
OnlyNewTurns(old, new) ==           \* a turn that is known is taken for unchanged
  {i \in Turns : old[i].status = "none" /\ new[i].status # "none"}
SkipsActive(t) == {}                \* the snapshot's active turns are not tracked

-----------------------------------------------------------------------------
\* What Desktop or an earlier delivery left behind: at most one turn.
Init ==
  /\ \/ turn = Blank
     \/ \E r \in Turn : r.status # "none" /\ turn = [Blank EXCEPT ![1] = r]
  /\ deleted = FALSE /\ lines = 0 /\ farewell = FALSE /\ up = TRUE
  /\ mode \in Modes
  /\ pc = "new" /\ verdict = "none"
  /\ queue = << >> /\ refreshQueued = FALSE /\ removed = FALSE /\ closed = FALSE
  /\ want = 1 /\ reply = NoReply /\ view = Blank /\ previous = Blank
  /\ active = {} /\ sawActivity = FALSE
  /\ past = [idle |-> ActiveIn(turn) = {}, busy |-> ActiveIn(turn) # {}, cycle |-> FALSE]

-----------------------------------------------------------------------------
(* The task, in the app-server *)

\* Every change is notified.
Becomes(i, r) ==
  /\ ~deleted
  /\ turn' = [turn EXCEPT ![i] = r]
  /\ lines' = IF up THEN lines + 1 ELSE lines
  /\ past' = [idle  |-> past.idle \/ ActiveIn(turn') = {},
              busy  |-> past.busy \/ ActiveIn(turn') # {},
              cycle |-> past.cycle \/ (past.busy /\ ActiveIn(turn') = {})]
  /\ UNCHANGED <<deleted, farewell, up, stream, signals, read, wait>>

\* One turn at a time.
BeginTurn(i) ==
  /\ turn[i].status = "none" /\ ActiveIn(turn) = {}
  /\ \A j \in Turns : j < i => turn[j].status # "none"
  /\ \E m \in BOOLEAN :
       (m => ~Marked(turn)) /\ Becomes(i, [status |-> "active", marked |-> m])

\* The delivery's message enters a running turn.
TakeMessage(i) ==
  /\ turn[i].status = "active" /\ ~Marked(turn)
  /\ Becomes(i, [status |-> "active", marked |-> TRUE])

EndTurn(i) ==
  /\ turn[i].status = "active"
  /\ Becomes(i, [status |-> "ended", marked |-> turn[i].marked])

Delete ==
  /\ ~deleted
  /\ deleted' = TRUE /\ farewell' = up
  /\ UNCHANGED <<turn, lines, past, up, stream, signals, read, wait>>

Reading == pc \in {"load", "reread"}

\* The page asked for, as it is at this moment.
Serve ==
  /\ Reading /\ up /\ ~deleted /\ ~reply.sent
  /\ reply' = [turn |-> turn[want],
               last |-> \A i \in Turns : i > want => turn[i].status = "none",
               sent |-> TRUE]
  /\ UNCHANGED <<task, up, stream, signals, want, view, previous, wait>>

-----------------------------------------------------------------------------
(* The stream's listener, between any two steps of the stream *)

Offer(s) == queue' = Append(queue, s)

Subscribed == pc \notin {"new", "done"}

RefreshWanted == ~removed /\ ~closed /\ ~refreshQueued

Notified ==
  /\ lines > 0
  /\ lines' = lines - 1
  /\ IF Subscribed /\ RefreshWanted
     THEN refreshQueued' = TRUE /\ Offer("refresh")
     ELSE UNCHANGED <<refreshQueued, queue>>
  /\ UNCHANGED <<turn, deleted, farewell, past, up, stream, removed, closed, read, wait>>

NotifiedOfDeletion ==
  /\ lines = 0 /\ farewell
  /\ farewell' = FALSE
  /\ IF Subscribed /\ ~removed /\ ~closed
     THEN removed' = TRUE /\ Offer("removed")
     ELSE UNCHANGED <<removed, queue>>
  /\ UNCHANGED <<turn, deleted, lines, past, up, stream, refreshQueued, closed, read, wait>>

\* The peer goes down: what is on its way is lost, the listeners are told.
GoDown ==
  /\ up
  /\ up' = FALSE /\ lines' = 0 /\ farewell' = FALSE /\ reply' = NoReply
  /\ IF Subscribed THEN closed' = TRUE /\ Offer("closed") ELSE UNCHANGED <<closed, queue>>
  /\ UNCHANGED <<turn, deleted, past, stream, refreshQueued, removed, want, view, previous, wait>>

-----------------------------------------------------------------------------
(* The stream and the wait *)

\* The listener first, then the snapshot; a fanout that is closed says so.
Subscribe ==
  /\ pc = "new"
  /\ pc' = "load"
  /\ IF up THEN UNCHANGED <<closed, queue>> ELSE closed' = TRUE /\ Offer("closed")
  /\ UNCHANGED <<task, up, verdict, refreshQueued, removed, read, wait>>

Ends(v) == pc' = "done" /\ verdict' = v

NextPage == want + 1

\* A page that is not the last.
TurnPage ==
  /\ Reading /\ reply.sent /\ ~reply.last
  /\ view' = [view EXCEPT ![want] = reply.turn]
  /\ want' = NextPage
  /\ reply' = NoReply
  /\ UNCHANGED <<task, up, stream, signals, previous, wait>>

\* trackActive of a snapshot
FromSnapshot(t) == ActiveIn(t)

\* changedTurns
ChangedTurns(old, new) == {i \in Turns : new[i] # old[i]}

\* awaitState's condition, and that of reconcileDelivery
Satisfied(a, saw, marked) ==
  CASE mode = "idle" -> a = {}
    [] mode = "activity" -> a = {} /\ saw
    [] mode = "reconcile" -> marked

\* What the wait holds for active after the first events of a later history.
Tracked(new, events) == (active \ events) \cup (events \cap ActiveIn(new))

\* The stream passes on what it read: the snapshot as one event, a later
\* history as one event per turn that differs, in order, until one of them
\* satisfies the wait.
PassOn ==
  LET new == [view EXCEPT ![want] = reply.turn]
      changed == ChangedTurns(previous, new)
      upTo(k) == {i \in changed : i <= k}
      saw(k) == sawActivity \/ \E j \in changed : j <= k /\ Tracked(new, upTo(j)) # {}
  IN /\ Reading /\ reply.sent /\ reply.last
     /\ reply' = NoReply /\ view' = new /\ previous' = new
     /\ \/ /\ pc = "load"
           /\ active' = FromSnapshot(new)
           /\ sawActivity' = (active' # {})
           /\ IF Satisfied(active', sawActivity', Marked(new))
              THEN Ends("seen") ELSE pc' = "wait" /\ UNCHANGED verdict
        \/ /\ pc = "reread"
           /\ active' = Tracked(new, changed)
           /\ sawActivity' = saw(N)
           /\ IF \E k \in Turns :
                   /\ upTo(k) # {}
                   /\ Satisfied(Tracked(new, upTo(k)), saw(k), \E j \in upTo(k) : new[j].marked)
              THEN Ends("seen") ELSE pc' = "wait" /\ UNCHANGED verdict
     /\ UNCHANGED <<task, up, signals, want, mode>>

\* A request of the read times out or is refused, or the peer is down.
ReadFails ==
  /\ Reading
  /\ Ends("failed")
  /\ UNCHANGED <<task, up, signals, read, wait>>

FlagAfterTake == FALSE

\* A refresh: reads the history again, unless there is no use in it any more.
TakeRefresh ==
  /\ pc = "wait" /\ queue # << >> /\ Head(queue) = "refresh"
  /\ queue' = Tail(queue)
  /\ refreshQueued' = FlagAfterTake
  /\ IF removed \/ closed
     THEN UNCHANGED <<pc, want, view>>
     ELSE pc' = "reread" /\ want' = 1 /\ view' = Blank
  /\ UNCHANGED <<task, up, verdict, removed, closed, reply, previous, wait>>

\* The removal ends a wait for idleness; the search for a delivery goes on.
TakeRemoved ==
  /\ pc = "wait" /\ queue # << >> /\ Head(queue) = "removed"
  /\ queue' = Tail(queue)
  /\ IF mode = "reconcile" THEN UNCHANGED stream ELSE Ends("removed")
  /\ UNCHANGED <<task, up, refreshQueued, removed, closed, read, wait>>

TakeClosed ==
  /\ pc = "wait" /\ queue # << >> /\ Head(queue) = "closed"
  /\ queue' = Tail(queue)
  /\ Ends("failed")
  /\ UNCHANGED <<task, up, refreshQueued, removed, closed, read, wait>>

TimeOut ==
  /\ pc # "done"
  /\ Ends("timeout")
  /\ UNCHANGED <<task, up, signals, read, wait>>

-----------------------------------------------------------------------------
TaskStep == \E i \in Turns : BeginTurn(i) \/ TakeMessage(i) \/ EndTurn(i)
Callback == Notified \/ NotifiedOfDeletion
Stream ==
  Subscribe \/ TurnPage \/ PassOn \/ TakeRefresh \/ TakeRemoved \/ TakeClosed

Quiescent == pc = "done" /\ UNCHANGED vars

Next ==
  \/ TaskStep \/ Delete \/ Serve \/ Callback \/ GoDown
  \/ Stream \/ ReadFails \/ TimeOut \/ Quiescent

Spec == Init /\ [][Next]_vars

\* Lines are delivered, the fiber runs, and a request is answered or fails.
\* Nothing is assumed of the task, nor that the wait's timeout comes.
FairSpec ==
  /\ Spec
  /\ WF_vars(Callback) /\ WF_vars(Stream)
  /\ WF_vars(Serve \/ (~reply.sent /\ ReadFails))

-----------------------------------------------------------------------------
(* Properties *)

TypeOK ==
  /\ turn \in [Turns -> Turn] /\ deleted \in BOOLEAN
  /\ lines \in Nat /\ farewell \in BOOLEAN /\ up \in BOOLEAN
  /\ mode \in Modes /\ pc \in PCs /\ verdict \in Verdicts
  /\ queue \in Seq(Signals)
  /\ refreshQueued \in BOOLEAN /\ removed \in BOOLEAN /\ closed \in BOOLEAN
  /\ want \in Turns /\ reply \in Reply
  /\ view \in [Turns -> Turn] /\ previous \in [Turns -> Turn]
  /\ active \subseteq Turns /\ sawActivity \in BOOLEAN
  /\ past \in [idle : BOOLEAN, busy : BOOLEAN, cycle : BOOLEAN]

\* Nothing is on its way that could wake the wait.
Asleep ==
  pc = "wait" /\ queue = << >> /\ lines = 0 /\ ~farewell /\ up /\ ~deleted

\* No change is lost between a notification and a read: a wait that nothing
\* will wake waits for something that is not the case, whatever changed
\* while the history was read page by page.
SleepsForAReason ==
  Asleep =>
    CASE mode = "idle" -> ActiveIn(turn) # {}
      [] mode = "activity" -> ActiveIn(turn) # {} \/ ~sawActivity
      [] mode = "reconcile" -> ~Marked(turn)

\* A wait ends well only if what it waited for was the case at one moment
\* since it was asked for, although no read sees the task at one moment.
VerdictWasTrue ==
  verdict = "seen" =>
    CASE mode = "idle" -> past.idle
      [] mode = "activity" -> past.cycle
      [] mode = "reconcile" -> Marked(turn)

\* A task that stays idle ends the wait for idleness, and a delivery that is in
\* the history ends its reconciliation, also without the timeout.
Noticed ==
  /\ mode = "idle" /\ <>[](ActiveIn(turn) = {}) => <>(pc = "done")
  /\ mode = "reconcile" /\ Marked(turn) ~> pc = "done" \/ deleted

\* A wait for a cycle of activity does not sleep through one.
ActivityNoticed ==
  Asleep /\ mode = "activity" => ~past.cycle
=============================================================================

---------------------------- MODULE DeliveryLanes ----------------------------
(***************************************************************************)
(* The Delivery service between the HTTP listener and the coordinator: a   *)
(* FIFO lane with one worker per task for queue messages, a bounded set of *)
(* concurrent steer fibers, and the drain at shutdown.  A lane is made by  *)
(* the first message of a task and removed by its worker when nothing is   *)
(* pending; requests, workers and the drain interleave between the atomic  *)
(* updates of the two SynchronizedRefs, lanes and control.                 *)
(***************************************************************************)
EXTENDS Integers, Sequences, FiniteSets

CONSTANTS Jobs,          \* accepted HTTP requests, each with its own delivery id
          Threads,       \* Codex tasks
          ThreadOf,      \* the task of a job's hook
          Mode,          \* the hook's mode, "queue" or "steer"
          MaxLanes,      \* MAX_LANES
          LaneCapacity,  \* LANE_CAPACITY
          SteerCapacity, \* STEER_CAPACITY
          NoJob          \* not a job

ASSUME LanesAssumption ==
  /\ IsFiniteSet(Jobs)
  /\ ThreadOf \in [Jobs -> Threads]
  /\ Mode \in [Jobs -> {"queue", "steer"}]
  /\ MaxLanes \in Nat \ {0} /\ LaneCapacity \in Nat \ {0} /\ SteerCapacity \in Nat \ {0}
  /\ NoJob \notin Jobs

VARIABLES
  stage,        \* how far a job is: its submit, its place in a lane, its run
  lane,         \* lanes: task -> queue object, named by the job it was made for
  pending,      \* lane.pending
  queue,        \* what each queue object holds
  hand,         \* the job the worker of a queue object has taken
  working,      \* that worker is still in its loop
  accepting,    \* control.accepting
  steerPending, \* control.steerPending
  drain,        \* where the shutdown is
  counted,      \* drain's sum over the lanes was positive in this pass
  overdue,      \* drain's deadline has passed
  arrivals,     \* queue jobs in the order offer accepted them
  late          \* jobs offer accepted since drain last counted the lanes

lanes   == <<lane, pending, queue, hand, working>>
control == <<accepting, steerPending>>
stop    == <<drain, counted, overdue>>
vars    == <<stage, lane, pending, queue, hand, working, accepting, steerPending,
             drain, counted, overdue, arrivals, late>>

Stages == {"new", "admitting", "refused", "queued", "running", "settling", "finished"}
Accepted == {"queued", "running", "settling", "finished"}
Started  == {"running", "settling", "finished"}
Drains == {"serving", "count-lanes", "count-control", "drained", "gave-up"}

QueueJobs == {j \in Jobs : Mode[j] = "queue"}
Steers    == {j \in Jobs : Mode[j] = "steer"}
Move(j, to) == stage' = [stage EXCEPT ![j] = to]

-----------------------------------------------------------------------------
(* Faulty variants, each in the place of one definition below *)

LeavesAtOnce(t) == TRUE                   \* forgets what waits behind its job
LeavesTooLate(t) == pending[t] <= 0       \* compares before it counts down
CountsWaiting(t) == queue[lane[t]] # <<>> \* the job in hand is not counted

-----------------------------------------------------------------------------
Init ==
  /\ stage = [j \in Jobs |-> "new"]
  /\ lane = [t \in Threads |-> NoJob]
  /\ pending = [t \in Threads |-> 0]
  /\ queue = [j \in Jobs |-> <<>>]
  /\ hand = [j \in Jobs |-> NoJob]
  /\ working = [j \in Jobs |-> FALSE]
  /\ accepting = TRUE
  /\ steerPending = 0
  /\ drain = "serving"
  /\ counted = FALSE
  /\ overdue = FALSE
  /\ arrivals = <<>>
  /\ late = {}

-----------------------------------------------------------------------------
(* submit *)

\* enqueue looks at accepting before it takes either branch.
Submit(j) ==
  /\ stage[j] = "new"
  /\ Move(j, IF accepting THEN "admitting" ELSE "refused")
  /\ UNCHANGED <<lanes, control, stop, arrivals, late>>

Open == {t \in Threads : lane[t] # NoJob}

\* Queue.dropping: a full queue drops the offer.
HasRoom(q) == Len(queue[q]) < LaneCapacity

\* offer, under the lanes ref: the job joins its task's lane, or makes it and
\* forks the lane's worker, or is refused.
Offer(j) ==
  LET t == ThreadOf[j]
      q == IF lane[t] = NoJob THEN j ELSE lane[t]
      fits == IF lane[t] = NoJob THEN Cardinality(Open) < MaxLanes ELSE HasRoom(q)
  IN
  /\ stage[j] = "admitting" /\ Mode[j] = "queue"
  /\ \/ /\ fits
        /\ Move(j, "queued")
        /\ lane' = [lane EXCEPT ![t] = q]
        /\ pending' = [pending EXCEPT ![t] = @ + 1]
        /\ queue' = [queue EXCEPT ![q] = Append(@, j)]
        /\ working' = [working EXCEPT ![q] = TRUE]
        /\ arrivals' = Append(arrivals, j)
        /\ late' = late \cup {j}
     \/ /\ ~fits
        /\ Move(j, "refused")
        /\ UNCHANGED <<lane, pending, queue, working, arrivals, late>>
  /\ UNCHANGED <<hand, control, stop>>

SteerRoom == steerPending < SteerCapacity

\* reserveSteer looks at accepting again, in one step with the reservation.
ReserveSteer(j) ==
  /\ stage[j] = "admitting" /\ Mode[j] = "steer"
  /\ IF accepting /\ SteerRoom
     THEN Move(j, "queued") /\ steerPending' = steerPending + 1
     ELSE Move(j, "refused") /\ UNCHANGED steerPending
  /\ UNCHANGED <<lanes, accepting, stop, arrivals, late>>

-----------------------------------------------------------------------------
(* worker, and the steer fiber *)

\* Faulty: the worker forks its job and takes the next one.
TakeWithoutWaiting(q) ==
  /\ working[q] /\ queue[q] # <<>>
  /\ LET j == Head(queue[q])
     IN  Move(j, "running") /\ hand' = [hand EXCEPT ![q] = j]
  /\ queue' = [queue EXCEPT ![q] = Tail(@)]
  /\ UNCHANGED <<lane, pending, working, control, stop, arrivals, late>>

Take(q) ==
  /\ working[q] /\ hand[q] = NoJob /\ queue[q] # <<>>
  /\ LET j == Head(queue[q])
     IN  Move(j, "running") /\ hand' = [hand EXCEPT ![q] = j]
  /\ queue' = [queue EXCEPT ![q] = Tail(@)]
  /\ UNCHANGED <<lane, pending, working, control, stop, arrivals, late>>

StartSteer(j) ==
  /\ stage[j] = "queued" /\ Mode[j] = "steer"
  /\ Move(j, "running")
  /\ UNCHANGED <<lanes, control, stop, arrivals, late>>

\* runJob ends: the coordinator answered or the task could not be resolved.
FinishJob(j) ==
  /\ stage[j] = "running"
  /\ Move(j, "settling")
  /\ UNCHANGED <<lanes, control, stop, arrivals, late>>

\* The lane goes when nothing is pending.
NothingLeft(t) == pending[t] <= 1

\* The worker accounts for its job and goes on while something is pending.
Settle(q) ==
  LET t == ThreadOf[hand[q]]
      last == lane[t] = NoJob \/ NothingLeft(t)
  IN
  /\ hand[q] # NoJob /\ stage[hand[q]] = "settling"
  /\ Move(hand[q], "finished")
  /\ hand' = [hand EXCEPT ![q] = NoJob]
  /\ working' = [working EXCEPT ![q] = ~last]
  /\ lane' = IF last THEN [lane EXCEPT ![t] = NoJob] ELSE lane
  /\ pending' = [pending EXCEPT ![t] = IF last THEN 0 ELSE @ - 1]
  /\ UNCHANGED <<queue, control, stop, arrivals, late>>

SettleSteer(j) ==
  /\ stage[j] = "settling" /\ Mode[j] = "steer"
  /\ Move(j, "finished")
  /\ steerPending' = IF steerPending = 0 THEN 0 ELSE steerPending - 1
  /\ UNCHANGED <<lanes, accepting, stop, arrivals, late>>

-----------------------------------------------------------------------------
(* stopAccepting, then drain *)

StopAccepting ==
  /\ drain = "serving"
  /\ accepting' = FALSE
  /\ drain' = "count-lanes"
  /\ UNCHANGED <<stage, lanes, steerPending, counted, overdue, arrivals, late>>

Busy(t) == pending[t] > 0

\* pendingCount reads the lanes, then control: the sum is positive when one
\* of the counts is.
CountLanes ==
  /\ drain = "count-lanes"
  /\ counted' = \E t \in Open : Busy(t)
  /\ drain' = "count-control"
  /\ late' = {}
  /\ UNCHANGED <<stage, lanes, control, overdue, arrivals>>

Due == overdue

\* Nothing pending ends the drain, the deadline gives up, else it sleeps.
CountControl ==
  /\ drain = "count-control"
  /\ drain' = IF ~counted /\ steerPending = 0 THEN "drained"
              ELSE IF Due THEN "gave-up" ELSE "count-lanes"
  /\ UNCHANGED <<stage, lanes, control, counted, overdue, arrivals, late>>

PassDeadline ==
  /\ drain \in {"count-lanes", "count-control"} /\ ~overdue
  /\ overdue' = TRUE
  /\ UNCHANGED <<stage, lanes, control, drain, counted, arrivals, late>>
-----------------------------------------------------------------------------
JobStep(j) ==
  \/ Submit(j) \/ Offer(j) \/ ReserveSteer(j) \/ Take(j) \/ StartSteer(j)
  \/ FinishJob(j) \/ Settle(j) \/ SettleSteer(j)

DrainStep == CountLanes \/ CountControl \/ PassDeadline

\* Every request is over and the shutdown has left the drain.
Quiescent ==
  /\ \A j \in Jobs : stage[j] \in {"refused", "finished"}
  /\ drain \in {"drained", "gave-up"}
  /\ UNCHANGED vars

Next == (\E j \in Jobs : JobStep(j)) \/ StopAccepting \/ DrainStep \/ Quiescent

Spec == Init /\ [][Next]_vars
-----------------------------------------------------------------------------
(* Properties *)

TypeOK ==
  /\ stage \in [Jobs -> Stages]
  /\ lane \in [Threads -> Jobs \cup {NoJob}]
  /\ pending \in [Threads -> Nat]
  /\ queue \in [Jobs -> Seq(Jobs)] /\ \A j \in Jobs : Len(queue[j]) <= LaneCapacity
  /\ hand \in [Jobs -> Jobs \cup {NoJob}]
  /\ working \in [Jobs -> BOOLEAN]
  /\ accepting \in BOOLEAN /\ counted \in BOOLEAN /\ overdue \in BOOLEAN
  /\ steerPending \in Nat
  /\ drain \in Drains
  /\ arrivals \in Seq(QueueJobs)
  /\ late \subseteq QueueJobs

\* Queue messages of a task run one at a time in the order they were
\* accepted, also when the task's lane was removed and made again between.
Fifo ==
  \A k \in DOMAIN arrivals : \A i \in 1..(k - 1) :
    /\ ThreadOf[arrivals[i]] = ThreadOf[arrivals[k]]
    /\ stage[arrivals[k]] \in Started
    => stage[arrivals[i]] = "finished"

\* No accepted message is stranded and no worker is left waiting for ever: a
\* waiting job is in the queue of its task's lane, whose worker is at work,
\* and a worker at work has a job in hand or in its queue.
LaneAlive ==
  /\ \A j \in QueueJobs : stage[j] = "queued" =>
       LET q == lane[ThreadOf[j]]
       IN  q # NoJob /\ working[q] /\ \E i \in DOMAIN queue[q] : queue[q][i] = j
  /\ \A q \in Jobs : working[q] => hand[q] # NoJob \/ queue[q] # <<>>

Unfinished(S) == {j \in S : stage[j] \in Accepted \ {"finished"}}

\* The limits hold for what is under way, whoever counts it: a job counts
\* until its worker or fiber has accounted for it.
Bounded ==
  /\ Cardinality({ThreadOf[j] : j \in Unfinished(QueueJobs)}) <= MaxLanes
  /\ \A t \in Threads : Cardinality({j \in Unfinished(QueueJobs) : ThreadOf[j] = t})
                        <= LaneCapacity + 1
  /\ Cardinality(Unfinished(Steers)) <= SteerCapacity

\* When drain reports success, everything accepted before its last count is
\* over, steers included; only a queue job that had passed the accepting check
\* before the shutdown and joined its lane after the count may be left.
DrainedMeansDone ==
  drain = "drained" => Unfinished(Jobs) \subseteq late
=============================================================================

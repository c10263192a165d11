----------------------------- MODULE DaemonProofs -----------------------------
(***************************************************************************)
(* Proofs about the delivery lanes and the daemon around them: that a lane *)
(* never strands a message, keeps its order and its limits, what a drain   *)
(* that succeeds leaves behind, and what the daemon's stop owes clients.   *)
(***************************************************************************)
EXTENDS Daemon, FiniteSetTheorems, TLAPS

-----------------------------------------------------------------------------
(* Lanes, workers and their jobs *)

\* A lane has its worker and counts what it has not accounted for.
LaneInv(t) ==
  /\ lane[t] # NoJob =>
       /\ ThreadOf[lane[t]] = t /\ Mode[lane[t]] = "queue" /\ working[lane[t]]
       /\ pending[t] = Len(queue[lane[t]]) + (IF hand[lane[t]] = NoJob THEN 0 ELSE 1)
       /\ pending[t] > 0
  /\ lane[t] = NoJob => pending[t] = 0

\* A worker belongs to the lane of its task, and holds jobs of that task only.
WorkerInv(q) ==
  /\ working[q] => lane[ThreadOf[q]] = q
  /\ ~working[q] => hand[q] = NoJob /\ queue[q] = <<>>
  /\ hand[q] # NoJob => /\ Mode[hand[q]] = "queue" /\ ThreadOf[hand[q]] = ThreadOf[q]
                        /\ stage[hand[q]] \in {"running", "settling"}
  /\ \A i \in DOMAIN queue[q] :
       /\ Mode[queue[q][i]] = "queue" /\ ThreadOf[queue[q][i]] = ThreadOf[q]
       /\ stage[queue[q][i]] = "queued"
  /\ \A i, k \in DOMAIN queue[q] : queue[q][i] = queue[q][k] => i = k

\* A queue job under way is in the lane of its task.
JobInv(j) ==
  LET q == lane[ThreadOf[j]]
  IN  Mode[j] = "queue" =>
        /\ stage[j] = "queued" => q # NoJob /\ \E i \in DOMAIN queue[q] : queue[q][i] = j
        /\ stage[j] \in {"running", "settling"} => q # NoJob /\ hand[q] = j

SInv ==
  /\ \A t \in Threads : LaneInv(t)
  /\ \A q \in Jobs : WorkerInv(q)
  /\ \A j \in Jobs : JobInv(j)

LEMMA StructureInit == Init => TypeOK /\ SInv
<1> SUFFICES ASSUME Init PROVE TypeOK /\ SInv
  OBVIOUS
<1> USE DEF Init
<1>1. /\ arrivals \in Seq(QueueJobs) /\ queue \in [Jobs -> Seq(Jobs)]
      /\ \A j \in Jobs : Len(queue[j]) = 0 /\ DOMAIN queue[j] = {}
  OBVIOUS
<1>2. TypeOK
  <2>1. /\ stage \in [Jobs -> Stages] /\ lane \in [Threads -> Jobs \cup {NoJob}]
        /\ pending \in [Threads -> Nat] /\ hand \in [Jobs -> Jobs \cup {NoJob}]
        /\ working \in [Jobs -> BOOLEAN] /\ steerPending \in Nat /\ drain \in Drains
    BY DEF Stages, Drains
  <2>2. \A j \in Jobs : Len(queue[j]) <= LaneCapacity
    BY <1>1, LanesAssumption
  <2> QED BY <1>1, <2>1, <2>2 DEF TypeOK
<1>3. SInv
  BY <1>1, LanesAssumption DEF SInv, LaneInv, WorkerInv, JobInv
<1> QED BY <1>2, <1>3

\* What an accepted offer finds: the queue it appends to, and its count.
Target(j) == IF lane[ThreadOf[j]] = NoJob THEN j ELSE lane[ThreadOf[j]]

Joins(j) ==
  LET t == ThreadOf[j]
      q == Target(j)
  IN  /\ stage[j] = "admitting" /\ Mode[j] = "queue"
      /\ IF lane[t] = NoJob THEN Cardinality(Open) < MaxLanes ELSE HasRoom(q)
      /\ Move(j, "queued")
      /\ lane' = [lane EXCEPT ![t] = q]
      /\ pending' = [pending EXCEPT ![t] = @ + 1]
      /\ queue' = [queue EXCEPT ![q] = Append(@, j)]
      /\ working' = [working EXCEPT ![q] = TRUE]
      /\ arrivals' = Append(arrivals, j)
      /\ late' = late \cup {j}
      /\ UNCHANGED <<hand, control, stop>>

TurnedAway(j) ==
  /\ stage[j] = "admitting" /\ Move(j, "refused")
  /\ UNCHANGED <<lanes, control, stop, arrivals, late>>

\* An offer joins a lane or is turned away.
LEMMA OfferSplits ==
  ASSUME NEW j \in Jobs, Offer(j)
  PROVE  Joins(j) \/ TurnedAway(j)
BY DEF Offer, Joins, TurnedAway, Target, lanes

Joining(j, t, q) ==
  /\ t = ThreadOf[j] /\ Mode[j] = "queue" /\ stage[j] = "admitting"
  /\ Mode[q] = "queue" /\ ThreadOf[q] = t /\ lane[t] \in {q, NoJob}
  /\ Len(queue[q]) < LaneCapacity
  /\ pending[t] = Len(queue[q]) + (IF hand[q] = NoJob THEN 0 ELSE 1)
  /\ lane[t] = NoJob => queue[q] = <<>> /\ hand[q] = NoJob /\ ~working[q]
  /\ \A i \in DOMAIN queue[q] : queue[q][i] # j
  /\ \A p \in Jobs : hand[p] # j
  /\ lane' = [lane EXCEPT ![t] = q] /\ pending' = [pending EXCEPT ![t] = @ + 1]
  /\ queue' = [queue EXCEPT ![q] = Append(@, j)] /\ working' = [working EXCEPT ![q] = TRUE]
  /\ arrivals' = Append(arrivals, j) /\ late' = late \cup {j}
  /\ stage' = [stage EXCEPT ![j] = "queued"]
  /\ UNCHANGED <<hand, accepting, steerPending, drain, counted, overdue>>

LEMMA TargetFacts ==
  ASSUME TypeOK, SInv, NEW j \in Jobs, Joins(j)
  PROVE  \E t \in Threads, q \in Jobs : Joining(j, t, q)
<1> DEFINE t == ThreadOf[j]
           q == Target(j)
<1>1. t \in Threads /\ LaneInv(t) /\ WorkerInv(j) /\ Mode[j] = "queue" /\ stage[j] = "admitting"
  BY LanesAssumption DEF SInv, Joins
<1>2. q \in Jobs /\ Mode[q] = "queue" /\ ThreadOf[q] = t /\ lane[t] \in {q, NoJob}
  BY <1>1 DEF Target, LaneInv, TypeOK
<1>3. WorkerInv(q) /\ queue[q] \in Seq(Jobs)
  BY <1>2 DEF SInv, TypeOK
<1>4. lane[t] = NoJob => queue[q] = <<>> /\ hand[q] = NoJob /\ ~working[q]
  BY <1>1, <1>2, LanesAssumption DEF Target, WorkerInv
<1>5. Len(queue[q]) < LaneCapacity
  BY <1>1, <1>3, <1>4, LanesAssumption DEF Joins, HasRoom
<1>6. pending[t] = Len(queue[q]) + (IF hand[q] = NoJob THEN 0 ELSE 1)
  <2>1. CASE lane[t] = NoJob
    <3>1. Len(queue[q]) = 0
      BY <1>4, <2>1
    <3> QED BY <1>1, <1>4, <2>1, <3>1 DEF LaneInv
  <2>2. CASE lane[t] # NoJob
    BY <1>1, <1>2, <2>2 DEF LaneInv
  <2> QED BY <2>1, <2>2
<1>7. \A i \in DOMAIN queue[q] : queue[q][i] # j
  BY <1>1, <1>3 DEF WorkerInv
<1>8. \A p \in Jobs : hand[p] # j
  BY <1>1, LanesAssumption DEF SInv, WorkerInv
<1>9. /\ lane' = [lane EXCEPT ![t] = q] /\ pending' = [pending EXCEPT ![t] = @ + 1]
      /\ queue' = [queue EXCEPT ![q] = Append(@, j)] /\ working' = [working EXCEPT ![q] = TRUE]
      /\ arrivals' = Append(arrivals, j) /\ late' = late \cup {j}
      /\ stage' = [stage EXCEPT ![j] = "queued"]
      /\ UNCHANGED <<hand, accepting, steerPending, drain, counted, overdue>>
  BY Zenon DEF Joins, Move, control, stop
<1> HIDE DEF q, t
<1>10. Joining(j, t, q)
  BY <1>1, <1>2, <1>4, <1>5, <1>6, <1>7, <1>8, <1>9 DEF Joining, t
<1> QED BY <1>1, <1>2, <1>10

LEMMA StructureJoins ==
  ASSUME TypeOK, SInv, NEW j \in Jobs, NEW t \in Threads, NEW q \in Jobs, Joining(j, t, q)
  PROVE  TypeOK' /\ SInv'
<1> USE DEF Joining
<1>1. queue[q] \in Seq(Jobs) /\ lane'[t] = q /\ queue'[q] = Append(queue[q], j) /\ working'[q]
  BY DEF TypeOK
<1>3. /\ queue'[q] \in Seq(Jobs) /\ Len(queue'[q]) = Len(queue[q]) + 1
      /\ DOMAIN queue'[q] = DOMAIN queue[q] \cup {Len(queue[q]) + 1}
      /\ queue'[q][Len(queue[q]) + 1] = j
      /\ \A i \in DOMAIN queue[q] : queue'[q][i] = queue[q][i] /\ i \in 1..Len(queue[q])
  BY <1>1
<1>4. TypeOK'
  <2>1. queue' \in [Jobs -> Seq(Jobs)] /\ \A p \in Jobs : Len(queue'[p]) <= LaneCapacity
    BY <1>1, <1>3, LanesAssumption DEF TypeOK
  <2>2. stage' \in [Jobs -> Stages] /\ pending' \in [Threads -> Nat]
    BY DEF TypeOK, Stages
  <2>3. lane' \in [Threads -> Jobs \cup {NoJob}] /\ working' \in [Jobs -> BOOLEAN]
    BY DEF TypeOK
  <2>4. arrivals' \in Seq(QueueJobs) /\ late' \subseteq QueueJobs
    BY DEF TypeOK, QueueJobs
  <2> QED BY <2>1, <2>2, <2>3, <2>4 DEF TypeOK
<1>5. ASSUME NEW s \in Threads PROVE LaneInv(s)'
  <2>1. LaneInv(s)
    BY DEF SInv
  <2>2. CASE s = t
    <3>1. pending'[t] = Len(queue'[q]) + (IF hand'[q] = NoJob THEN 0 ELSE 1) /\ pending'[t] > 0
      BY <1>1, <1>3 DEF TypeOK
    <3> QED BY <1>1, <2>2, <3>1, LanesAssumption DEF LaneInv
  <2>3. CASE s # t
    <3>1. lane'[s] = lane[s] /\ pending'[s] = pending[s] /\ lane[s] \in Jobs \cup {NoJob}
      BY <2>3 DEF TypeOK
    <3>2. lane[s] # NoJob => lane[s] # q
      BY <2>1, <2>3 DEF LaneInv
    <3>3. lane[s] # NoJob => queue'[lane[s]] = queue[lane[s]] /\ working'[lane[s]] = working[lane[s]]
      BY <3>1, <3>2 DEF TypeOK
    <3> QED BY <2>1, <3>1, <3>3 DEF LaneInv
  <2> QED BY <2>2, <2>3
<1>6. ASSUME NEW p \in Jobs PROVE WorkerInv(p)'
  <2>1. WorkerInv(p) /\ WorkerInv(q)
    BY DEF SInv
  <2>2. hand'[p] = hand[p] /\ (hand[p] # NoJob => stage'[hand[p]] = stage[hand[p]])
    BY DEF TypeOK
  <2>3. CASE p = q
    <3>1. \A i \in DOMAIN queue[q] : stage'[queue[q][i]] = stage[queue[q][i]]
      BY <2>1 DEF TypeOK
    <3>2. \A i \in DOMAIN queue'[q] :
            /\ Mode[queue'[q][i]] = "queue" /\ ThreadOf[queue'[q][i]] = ThreadOf[q]
            /\ stage'[queue'[q][i]] = "queued"
      BY <1>1, <1>3, <2>1, <3>1 DEF WorkerInv, TypeOK
    <3>3. \A i, k \in DOMAIN queue'[q] : queue'[q][i] = queue'[q][k] => i = k
      BY <1>1, <1>3, <2>1 DEF WorkerInv
    <3>4. hand'[q] # NoJob => /\ Mode[hand'[q]] = "queue" /\ ThreadOf[hand'[q]] = ThreadOf[q]
                              /\ stage'[hand'[q]] \in {"running", "settling"}
      BY <2>1, <2>2, <2>3 DEF WorkerInv
    <3> HIDE DEF Joining
    <3> QED BY <1>1, <2>3, <3>2, <3>3, <3>4 DEF WorkerInv, Joining
  <2>4. CASE p # q
    <3>1. queue'[p] = queue[p] /\ working'[p] = working[p]
      BY <2>4 DEF TypeOK
    <3>2. working[p] => lane'[ThreadOf[p]] = p
      <4>1. working[p] /\ ThreadOf[p] = t => lane[t] = p
        BY <2>1 DEF WorkerInv
      <4>2. lane[t] \in {q, NoJob} /\ ThreadOf[p] \in Threads
        BY LanesAssumption
      <4> QED BY <2>1, <2>4, <4>1, <4>2, LanesAssumption DEF WorkerInv, TypeOK
    <3>3. \A i \in DOMAIN queue[p] : stage'[queue[p][i]] = stage[queue[p][i]]
      BY <2>1 DEF WorkerInv, TypeOK
    <3>4. \A i \in DOMAIN queue'[p] : stage'[queue'[p][i]] = stage[queue[p][i]]
      BY <3>1, <3>3
    <3> HIDE DEF Joining
    <3> QED BY <2>1, <2>2, <3>1, <3>2, <3>4 DEF WorkerInv
  <2> QED BY <2>3, <2>4
<1>7. ASSUME NEW e \in Jobs PROVE JobInv(e)'
  <2> DEFINE s == ThreadOf[e]
  <2>1. JobInv(e) /\ s \in Threads /\ LaneInv(s)
    BY LanesAssumption DEF SInv
  <2>2. CASE e = j
    <3>1. stage'[j] = "queued" /\ Len(queue[q]) + 1 \in DOMAIN queue'[q]
      BY <1>1, <1>3 DEF TypeOK
    <3> QED BY <1>1, <1>3, <2>2, <3>1, LanesAssumption DEF JobInv
  <2>3. CASE e # j /\ s = t
    <3>1. stage'[e] = stage[e] /\ lane'[s] = q
      BY <1>1, <2>3 DEF TypeOK
    <3>2. lane[s] # NoJob => lane[s] = q
      BY <2>3
    <3> QED BY <1>1, <1>3, <2>1, <3>1, <3>2, LanesAssumption DEF JobInv
  <2>4. CASE e # j /\ s # t
    <3>1. stage'[e] = stage[e] /\ lane'[s] = lane[s] /\ (lane[s] # NoJob => lane[s] \in Jobs)
      BY <2>1, <2>4 DEF TypeOK
    <3>2. lane[s] # NoJob => queue'[lane[s]] = queue[lane[s]]
      BY <1>1, <2>1, <2>4, <3>1 DEF LaneInv, TypeOK
    <3> QED BY <2>1, <3>1, <3>2 DEF JobInv
  <2> QED BY <2>2, <2>3, <2>4
<1> QED BY <1>4, <1>5, <1>6, <1>7 DEF SInv

\* A worker takes the first job of its queue.
LEMMA StructureTake ==
  ASSUME TypeOK, SInv, NEW q \in Jobs, Take(q)
  PROVE  TypeOK' /\ SInv'
<1>1. PICK j \in Jobs : j = Head(queue[q]) /\ queue[q] # <<>>
  BY DEF Take, TypeOK
<1>2. /\ working[q] /\ hand[q] = NoJob
      /\ stage' = [stage EXCEPT ![j] = "running"] /\ hand' = [hand EXCEPT ![q] = j]
      /\ queue' = [queue EXCEPT ![q] = Tail(@)]
      /\ UNCHANGED <<lane, pending, working, accepting, steerPending, drain, counted, overdue,
                     arrivals, late>>
  BY <1>1, Zenon DEF Take, Move, control, stop
<1>3. /\ queue[q] \in Seq(Jobs) /\ Len(queue[q]) > 0 /\ queue'[q] = Tail(queue[q])
      /\ hand'[q] = j /\ j = queue[q][1] /\ stage'[j] = "running"
  BY <1>1, <1>2 DEF TypeOK
<1>4. /\ queue'[q] \in Seq(Jobs) /\ Len(queue'[q]) = Len(queue[q]) - 1
      /\ \A i \in DOMAIN queue'[q] : i + 1 \in DOMAIN queue[q] /\ queue'[q][i] = queue[q][i + 1]
      /\ \A i \in DOMAIN queue[q] : i # 1 => /\ i - 1 \in DOMAIN queue'[q]
                                             /\ queue'[q][i - 1] = queue[q][i]
      /\ 1 \in DOMAIN queue[q] /\ \A i \in DOMAIN queue[q] : i \in Int
      /\ \A i \in DOMAIN queue'[q] : i \in Int /\ i > 0
  BY <1>3
<1>5. WorkerInv(q) /\ LaneInv(ThreadOf[q]) /\ ThreadOf[q] \in Threads /\ q # NoJob /\ j # NoJob
  BY LanesAssumption DEF SInv
<1>6. /\ lane[ThreadOf[q]] = q /\ ThreadOf[j] = ThreadOf[q] /\ Mode[j] = "queue"
      /\ stage[j] = "queued" /\ pending[ThreadOf[q]] = Len(queue[q])
  <2>1. lane[ThreadOf[q]] = q
    BY <1>2, <1>5 DEF WorkerInv
  <2>2. ThreadOf[j] = ThreadOf[q] /\ Mode[j] = "queue" /\ stage[j] = "queued"
    BY <1>3, <1>4, <1>5 DEF WorkerInv
  <2>3. pending[ThreadOf[q]] = Len(queue[q])
    BY <1>2, <1>3, <1>5, <2>1 DEF LaneInv
  <2> QED BY <2>1, <2>2, <2>3
<1>7. TypeOK'
  <2>1. queue' \in [Jobs -> Seq(Jobs)] /\ \A p \in Jobs : Len(queue'[p]) <= LaneCapacity
    BY <1>2, <1>3, <1>4, LanesAssumption DEF TypeOK
  <2>2. stage' \in [Jobs -> Stages] /\ hand' \in [Jobs -> Jobs \cup {NoJob}]
    BY <1>2 DEF TypeOK, Stages
  <2> QED BY <1>2, <2>1, <2>2 DEF TypeOK
<1>8. ASSUME NEW s \in Threads PROVE LaneInv(s)'
  <2>1. LaneInv(s)
    BY DEF SInv
  <2>2. CASE lane[s] = q
    <3>1. s = ThreadOf[q] /\ pending'[s] = Len(queue'[q]) + 1
      BY <1>2, <1>3, <1>4, <1>5, <1>6, <2>1, <2>2 DEF LaneInv
    <3>2. pending[s] > 0 /\ pending'[s] = pending[s] /\ lane'[s] = q /\ working'[q]
          /\ ThreadOf[q] = s /\ Mode[q] = "queue"
      BY <1>2, <1>5, <2>1, <2>2 DEF LaneInv
    <3> QED BY <1>3, <1>5, <3>1, <3>2 DEF LaneInv
  <2>3. CASE lane[s] # q /\ lane[s] # NoJob
    <3>1. queue'[lane[s]] = queue[lane[s]] /\ hand'[lane[s]] = hand[lane[s]]
      BY <1>2, <2>3 DEF TypeOK
    <3> QED BY <1>2, <2>1, <2>3, <3>1 DEF LaneInv
  <2>4. CASE lane[s] = NoJob
    BY <1>2, <2>1, <2>4 DEF LaneInv
  <2> QED BY <2>2, <2>3, <2>4
<1>9. ASSUME NEW p \in Jobs PROVE WorkerInv(p)'
  <2>1. WorkerInv(p)
    BY DEF SInv
  <2>2. CASE p = q
    <3>1. \A i \in DOMAIN queue'[q] :
            /\ Mode[queue'[q][i]] = "queue" /\ ThreadOf[queue'[q][i]] = ThreadOf[q]
            /\ stage'[queue'[q][i]] = "queued"
      <4> SUFFICES ASSUME NEW i \in DOMAIN queue'[q]
                   PROVE  /\ Mode[queue'[q][i]] = "queue" /\ ThreadOf[queue'[q][i]] = ThreadOf[q]
                          /\ stage'[queue'[q][i]] = "queued"
        OBVIOUS
      <4>1. i + 1 \in DOMAIN queue[q] /\ queue'[q][i] = queue[q][i + 1] /\ i + 1 # 1
        BY <1>4
      <4>2. queue[q][i + 1] # j /\ queue[q][i + 1] \in Jobs
        BY <1>3, <1>4, <1>5, <4>1 DEF WorkerInv
      <4> QED BY <1>2, <1>5, <4>1, <4>2 DEF WorkerInv, TypeOK
    <3>2. \A i, k \in DOMAIN queue'[q] : queue'[q][i] = queue'[q][k] => i = k
      <4> SUFFICES ASSUME NEW i \in DOMAIN queue'[q], NEW k \in DOMAIN queue'[q],
                          queue'[q][i] = queue'[q][k]
                   PROVE  i = k
        OBVIOUS
      <4>1. i + 1 = k + 1
        BY <1>4, <1>5 DEF WorkerInv
      <4> QED BY <1>4, <4>1
    <3> QED BY <1>2, <1>3, <1>5, <1>6, <2>2, <3>1, <3>2 DEF WorkerInv
  <2>3. CASE p # q
    <3>1. queue'[p] = queue[p] /\ hand'[p] = hand[p] /\ hand[p] # j
      BY <1>2, <1>5, <1>6, <2>1, <2>3 DEF TypeOK, WorkerInv
    <3>2. hand[p] # NoJob => stage'[hand[p]] = stage[hand[p]]
      BY <1>2, <3>1 DEF TypeOK
    <3>3. \A i \in DOMAIN queue[p] : queue[p][i] \in Jobs /\ queue[p][i] # j
      <4> SUFFICES ASSUME NEW i \in DOMAIN queue[p], queue[p][i] = j PROVE FALSE
        BY DEF TypeOK
      <4>1. ThreadOf[p] = ThreadOf[q] /\ ~working[p]
        BY <1>6, <2>1, <2>3 DEF WorkerInv
      <4> QED BY <2>1, <4>1 DEF WorkerInv
    <3>4. \A i \in DOMAIN queue[p] : stage'[queue[p][i]] = stage[queue[p][i]]
      BY <1>2, <3>3 DEF TypeOK
    <3> QED BY <1>2, <2>1, <3>1, <3>2, <3>4 DEF WorkerInv
  <2> QED BY <2>2, <2>3
<1>10. ASSUME NEW e \in Jobs PROVE JobInv(e)'
  <2>1. JobInv(e) /\ ThreadOf[e] \in Threads /\ LaneInv(ThreadOf[e])
    BY LanesAssumption DEF SInv
  <2>2. CASE e = j
    BY <1>2, <1>3, <1>5, <1>6, <2>2 DEF JobInv
  <2>3. CASE e # j /\ lane[ThreadOf[e]] = q
    <3>1. stage'[e] = stage[e]
      BY <1>2, <2>3 DEF TypeOK
    <3>2. Mode[e] = "queue" => stage[e] \notin {"running", "settling"}
      BY <1>2, <1>5, <2>1, <2>3, LanesAssumption DEF JobInv
    <3>3. Mode[e] = "queue" /\ stage[e] = "queued" => \E i \in DOMAIN queue[q] : queue[q][i] = e /\ i # 1
      BY <1>3, <2>1, <2>3 DEF JobInv
    <3>4. Mode[e] = "queue" /\ stage[e] = "queued" => \E i \in DOMAIN queue'[q] : queue'[q][i] = e
      BY <1>4, <3>3
    <3> QED BY <1>2, <1>5, <2>3, <3>1, <3>2, <3>4 DEF JobInv
  <2>4. CASE e # j /\ lane[ThreadOf[e]] # q
    <3>1. stage'[e] = stage[e] /\ (lane[ThreadOf[e]] # NoJob => lane[ThreadOf[e]] \in Jobs)
      BY <1>2, <2>1, <2>4 DEF TypeOK
    <3>2. lane[ThreadOf[e]] # NoJob =>
            /\ queue'[lane[ThreadOf[e]]] = queue[lane[ThreadOf[e]]]
            /\ hand'[lane[ThreadOf[e]]] = hand[lane[ThreadOf[e]]]
      BY <1>2, <2>4, <3>1 DEF TypeOK
    <3> QED BY <1>2, <2>1, <3>1, <3>2 DEF JobInv
  <2> QED BY <2>2, <2>3, <2>4
<1> QED BY <1>7, <1>8, <1>9, <1>10 DEF SInv

\* What a worker that settles knows of its lane.
Settling(q, j, t) ==
  /\ j = hand[q] /\ j # NoJob /\ q # NoJob /\ Mode[j] = "queue" /\ stage[j] = "settling"
  /\ t = ThreadOf[j] /\ t = ThreadOf[q] /\ lane[t] = q /\ working[q]
  /\ pending[t] = Len(queue[q]) + 1
  /\ stage' = [stage EXCEPT ![j] = "finished"] /\ hand' = [hand EXCEPT ![q] = NoJob]
  /\ working' = [working EXCEPT ![q] = pending[t] > 1]
  /\ lane' = IF pending[t] > 1 THEN lane ELSE [lane EXCEPT ![t] = NoJob]
  /\ pending' = [pending EXCEPT ![t] = pending[t] - 1]
  /\ UNCHANGED <<queue, accepting, steerPending, drain, counted, overdue, arrivals, late>>

LEMMA SettleFacts ==
  ASSUME TypeOK, SInv, NEW q \in Jobs, Settle(q)
  PROVE  \E j \in Jobs, t \in Threads : Settling(q, j, t)
<1> DEFINE j == hand[q]
           t == ThreadOf[j]
<1>1. j \in Jobs /\ j # NoJob /\ q # NoJob /\ stage[j] = "settling" /\ t \in Threads
  BY LanesAssumption DEF Settle, TypeOK
<1>2. WorkerInv(q) /\ LaneInv(t)
  BY <1>1 DEF SInv
<1>3. Mode[j] = "queue" /\ t = ThreadOf[q] /\ working[q] /\ lane[t] = q
  BY <1>1, <1>2 DEF WorkerInv
<1>4. pending[t] = Len(queue[q]) + 1 /\ queue[q] \in Seq(Jobs) /\ pending[t] \in Nat
  BY <1>1, <1>2, <1>3 DEF LaneInv, TypeOK
<1>5. /\ stage' = [stage EXCEPT ![j] = "finished"] /\ hand' = [hand EXCEPT ![q] = NoJob]
      /\ UNCHANGED <<queue, accepting, steerPending, drain, counted, overdue, arrivals, late>>
  BY Zenon DEF Settle, Move, control, stop
<1>6. (lane[t] = NoJob \/ NothingLeft(t)) <=> ~(pending[t] > 1)
  BY <1>1, <1>3, <1>4 DEF NothingLeft
<1>7. /\ working' = [working EXCEPT ![q] = pending[t] > 1]
      /\ lane' = IF pending[t] > 1 THEN lane ELSE [lane EXCEPT ![t] = NoJob]
  <2>1. (~(lane[t] = NoJob \/ NothingLeft(t))) = (pending[t] > 1)
    BY <1>6
  <2>2. /\ working' = [working EXCEPT ![q] = ~(lane[t] = NoJob \/ NothingLeft(t))]
        /\ lane' = IF lane[t] = NoJob \/ NothingLeft(t) THEN [lane EXCEPT ![t] = NoJob] ELSE lane
    BY Zenon DEF Settle
  <2> QED BY <1>6, <2>1, <2>2
<1>8. pending' = [pending EXCEPT ![t] = pending[t] - 1]
  <2>1. pending' = [pending EXCEPT ![t] = IF lane[t] = NoJob \/ NothingLeft(t) THEN 0 ELSE pending[t] - 1]
    BY Zenon DEF Settle
  <2>2. ~(pending[t] > 1) => pending[t] - 1 = 0
    BY <1>4
  <2> QED BY <1>6, <2>1, <2>2
<1> HIDE DEF j, t
<1>9. Settling(q, j, t)
  BY <1>1, <1>3, <1>4, <1>5, <1>7, <1>8 DEF Settling, j, t
<1> QED BY <1>1, <1>9

LEMMA StructureSettle ==
  ASSUME TypeOK, SInv, NEW q \in Jobs, Settle(q)
  PROVE  TypeOK' /\ SInv'
<1>1. PICK j \in Jobs, t \in Threads : Settling(q, j, t)
  BY SettleFacts
<1> USE DEF Settling
<1>2. queue[q] \in Seq(Jobs) /\ pending[t] \in Nat /\ queue'[q] = queue[q] /\ hand'[q] = NoJob
  BY <1>1 DEF TypeOK
<1>3. TypeOK'
  BY <1>1, <1>2 DEF TypeOK, Stages
<1>4. pending[t] > 1 <=> queue[q] # <<>>
  BY <1>1, <1>2
<1>5. ASSUME NEW s \in Threads PROVE LaneInv(s)'
  <2>1. LaneInv(s)
    BY DEF SInv
  <2>2. CASE s = t /\ pending[t] > 1
    <3>1. pending'[s] = Len(queue'[q]) + (IF hand'[q] = NoJob THEN 0 ELSE 1) /\ pending'[s] > 0
      BY <1>1, <1>2, <2>2 DEF TypeOK
    <3>2. lane'[s] = q /\ working'[q] /\ ThreadOf[q] = s /\ Mode[q] = "queue" /\ q # NoJob
      BY <1>1, <2>1, <2>2 DEF LaneInv, TypeOK
    <3> QED BY <3>1, <3>2 DEF LaneInv
  <2>3. CASE s = t /\ ~(pending[t] > 1)
    <3>1. pending'[s] = pending[t] - 1 /\ lane'[s] = NoJob
      BY <1>1, <2>3 DEF TypeOK
    <3>2. pending[t] - 1 = 0
      BY <1>1, <1>2, <2>3
    <3> QED BY <3>1, <3>2 DEF LaneInv
  <2>4. CASE s # t
    <3>1. lane'[s] = lane[s] /\ pending'[s] = pending[s] /\ (lane[s] # NoJob => lane[s] \in Jobs)
      BY <1>1, <2>4 DEF TypeOK
    <3>2. lane[s] # NoJob => lane[s] # q
      BY <1>1, <2>1, <2>4 DEF LaneInv
    <3>3. lane[s] # NoJob => hand'[lane[s]] = hand[lane[s]] /\ working'[lane[s]] = working[lane[s]]
      BY <1>1, <3>1, <3>2 DEF TypeOK
    <3> QED BY <1>1, <2>1, <3>1, <3>3 DEF LaneInv
  <2> QED BY <2>2, <2>3, <2>4
<1>6. ASSUME NEW p \in Jobs PROVE WorkerInv(p)'
  <2>1. WorkerInv(p)
    BY DEF SInv
  <2>2. \A i \in DOMAIN queue[p] : stage'[queue[p][i]] = "queued"
    BY <1>1, <2>1 DEF WorkerInv, TypeOK
  <2>3. CASE p = q
    <3>1. working'[q] <=> pending[t] > 1
      BY <1>1 DEF TypeOK
    <3>2. working'[q] => lane'[ThreadOf[q]] = q
      BY <1>1, <3>1
    <3>3. ~working'[q] => queue'[q] = <<>>
      BY <1>2, <1>4, <3>1
    <3> QED BY <1>1, <1>2, <2>1, <2>2, <2>3, <3>2, <3>3 DEF WorkerInv
  <2>4. CASE p # q
    <3>1. hand'[p] = hand[p] /\ working'[p] = working[p] /\ queue'[p] = queue[p]
      BY <1>1, <2>4 DEF TypeOK
    <3>2. hand[p] # NoJob => hand[p] # j /\ hand[p] \in Jobs
      <4>1. hand[p] # NoJob => lane[ThreadOf[p]] = p /\ ThreadOf[hand[p]] = ThreadOf[p]
        BY <2>1 DEF WorkerInv
      <4> QED BY <1>1, <2>4, <4>1 DEF TypeOK
    <3>3. hand[p] # NoJob => stage'[hand[p]] = stage[hand[p]]
      BY <1>1, <3>2 DEF TypeOK
    <3>4. working[p] => lane'[ThreadOf[p]] = p
      <4>1. ThreadOf[p] \in Threads
        BY LanesAssumption
      <4> QED BY <1>1, <2>1, <2>4, <4>1 DEF WorkerInv, TypeOK
    <3> QED BY <2>1, <2>2, <3>1, <3>3, <3>4 DEF WorkerInv
  <2> QED BY <2>3, <2>4
<1>7. ASSUME NEW e \in Jobs PROVE JobInv(e)'
  <2>1. JobInv(e) /\ ThreadOf[e] \in Threads /\ LaneInv(ThreadOf[e])
    BY LanesAssumption DEF SInv
  <2>2. CASE e = j
    BY <1>1, <2>2 DEF JobInv, TypeOK
  <2>3. CASE e # j /\ ThreadOf[e] = t
    <3>1. stage'[e] = stage[e]
      BY <1>1, <2>3 DEF TypeOK
    <3>2. Mode[e] = "queue" => stage[e] \notin {"running", "settling"}
      BY <1>1, <2>1, <2>3 DEF JobInv
    <3>3. Mode[e] = "queue" /\ stage[e] = "queued" => pending[t] > 1
      <4>1. Mode[e] = "queue" /\ stage[e] = "queued" => \E i \in DOMAIN queue[q] : queue[q][i] = e
        BY <1>1, <2>1, <2>3 DEF JobInv
      <4> QED BY <1>2, <1>4, <4>1
    <3> QED BY <1>1, <1>2, <2>1, <2>3, <3>1, <3>2, <3>3 DEF JobInv
  <2>4. CASE e # j /\ ThreadOf[e] # t
    <3>1. /\ stage'[e] = stage[e] /\ lane'[ThreadOf[e]] = lane[ThreadOf[e]]
          /\ lane[ThreadOf[e]] # NoJob => lane[ThreadOf[e]] \in Jobs \ {q}
      BY <1>1, <2>1, <2>4 DEF TypeOK, LaneInv
    <3>2. lane[ThreadOf[e]] # NoJob => hand'[lane[ThreadOf[e]]] = hand[lane[ThreadOf[e]]]
      BY <1>1, <3>1 DEF TypeOK
    <3> QED BY <1>1, <2>1, <3>1, <3>2 DEF JobInv
  <2> QED BY <2>2, <2>3, <2>4
<1> QED BY <1>3, <1>5, <1>6, <1>7 DEF SInv

\* What every other step does to the lanes: nothing, but that a job without a
\* place in a lane moves, or a running one ends.
Apart(j) ==
  \/ Mode[j] # "queue" \/ stage'[j] = stage[j]
  \/ stage[j] \in {"new", "admitting"} /\ stage'[j] \in {"admitting", "refused"}
  \/ stage[j] = "running" /\ stage'[j] = "settling"

LEMMA StructureStays ==
  ASSUME TypeOK, SInv, UNCHANGED lanes, \A j \in Jobs : Apart(j)
  PROVE  SInv'
<1> USE DEF lanes
<1>1. ASSUME NEW s \in Threads PROVE LaneInv(s)'
  BY DEF SInv, LaneInv
<1>2. ASSUME NEW p \in Jobs PROVE WorkerInv(p)'
  <2>1. WorkerInv(p) /\ hand[p] \in Jobs \cup {NoJob} /\ queue[p] \in Seq(Jobs)
    BY DEF SInv, TypeOK
  <2>2. hand[p] # NoJob => stage'[hand[p]] \in {"running", "settling"}
    BY <2>1 DEF WorkerInv, Apart
  <2>3. \A i \in DOMAIN queue[p] : stage'[queue[p][i]] = "queued"
    BY <2>1 DEF WorkerInv, Apart
  <2> QED BY <2>1, <2>2, <2>3 DEF WorkerInv
<1>3. ASSUME NEW e \in Jobs PROVE JobInv(e)'
  <2>1. JobInv(e) /\ Apart(e)
    BY DEF SInv
  <2> QED BY <2>1 DEF JobInv, Apart
<1> QED BY <1>1, <1>2, <1>3 DEF SInv

\* The steps of a job that are neither of its lane nor its worker's.
Aside(j) ==
  \/ Submit(j) \/ TurnedAway(j) \/ ReserveSteer(j) \/ StartSteer(j) \/ FinishJob(j)
  \/ SettleSteer(j)

LEMMA AsideApart ==
  ASSUME TypeOK, NEW j \in Jobs, Aside(j), NEW e \in Jobs
  PROVE  UNCHANGED lanes /\ Apart(e)
<1> USE DEF Move, TypeOK, Apart, lanes
<1>1. CASE Submit(j)       BY <1>1 DEF Submit
<1>2. CASE TurnedAway(j)   BY <1>2 DEF TurnedAway
<1>3. CASE ReserveSteer(j) BY <1>3 DEF ReserveSteer
<1>4. CASE StartSteer(j)   BY <1>4 DEF StartSteer
<1>5. CASE FinishJob(j)    BY <1>5 DEF FinishJob
<1>6. CASE SettleSteer(j)  BY <1>6 DEF SettleSteer
<1> QED BY <1>1, <1>2, <1>3, <1>4, <1>5, <1>6 DEF Aside

LEMMA AsideTypes ==
  ASSUME TypeOK, NEW j \in Jobs, Aside(j)
  PROVE  TypeOK'
<1> USE DEF Move, TypeOK, Stages, lanes, control, stop
<1>1. CASE Submit(j)       BY <1>1 DEF Submit
<1>2. CASE TurnedAway(j)   BY <1>2 DEF TurnedAway
<1>3. CASE ReserveSteer(j)
  <2>1. \/ stage' = [stage EXCEPT ![j] = "queued"] /\ steerPending' = steerPending + 1
        \/ stage' = [stage EXCEPT ![j] = "refused"] /\ steerPending' = steerPending
    BY <1>3 DEF ReserveSteer
  <2>2. UNCHANGED <<lane, pending, queue, hand, working, accepting, drain, counted, overdue,
                    arrivals, late>>
    BY <1>3 DEF ReserveSteer
  <2>3. stage' \in [Jobs -> Stages]
    BY <2>1
  <2>4. steerPending' \in Nat
    BY <2>1
  <2> QED BY <2>2, <2>3, <2>4
<1>4. CASE StartSteer(j)   BY <1>4 DEF StartSteer
<1>5. CASE FinishJob(j)    BY <1>5 DEF FinishJob
<1>6. CASE SettleSteer(j)  BY <1>6 DEF SettleSteer
<1> QED BY <1>1, <1>2, <1>3, <1>4, <1>5, <1>6 DEF Aside

LEMMA DrainTypes ==
  ASSUME TypeOK, StopAccepting \/ DrainStep
  PROVE  TypeOK' /\ UNCHANGED <<stage, lanes, steerPending, arrivals>>
BY DEF StopAccepting, DrainStep, CountLanes, CountControl, PassDeadline, TypeOK, Drains, lanes,
       control, stop

\* Every step of the lanes, by what it does to them.
LEMMA LanesSteps ==
  ASSUME [Next]_vars
  PROVE  \/ \E j \in Jobs : Joins(j) \/ Take(j) \/ Settle(j) \/ Aside(j)
         \/ StopAccepting \/ DrainStep \/ UNCHANGED vars
BY OfferSplits DEF Next, JobStep, Quiescent, Aside

LEMMA StructureStep == TypeOK /\ SInv /\ [Next]_vars => TypeOK' /\ SInv'
<1> SUFFICES ASSUME TypeOK, SInv, [Next]_vars PROVE TypeOK' /\ SInv'
  OBVIOUS
<1>1. ASSUME NEW j \in Jobs, Joins(j) PROVE TypeOK' /\ SInv'
  BY <1>1, TargetFacts, StructureJoins
<1>2. ASSUME NEW q \in Jobs, Take(q) \/ Settle(q) PROVE TypeOK' /\ SInv'
  BY <1>2, StructureTake, StructureSettle
<1>3. ASSUME NEW j \in Jobs, Aside(j) PROVE TypeOK' /\ SInv'
  BY <1>3, AsideApart, AsideTypes, StructureStays
<1>4. CASE StopAccepting \/ DrainStep
  BY <1>4, DrainTypes, StructureStays DEF Apart
<1>5. CASE UNCHANGED vars
  <2>1. TypeOK'
    BY <1>5 DEF vars, TypeOK
  <2>2. UNCHANGED lanes /\ \A j \in Jobs : Apart(j)
    BY <1>5 DEF vars, lanes, Apart
  <2> QED BY <2>1, <2>2, StructureStays
<1> QED BY <1>1, <1>2, <1>3, <1>4, <1>5, LanesSteps

\* The structure of the lanes is kept, so no accepted message is stranded.
LEMMA StructureHolds == Spec => [](TypeOK /\ SInv)
BY StructureInit, StructureStep, PTL DEF Spec

LEMMA AliveFollows == TypeOK /\ SInv => LaneAlive
<1> SUFFICES ASSUME TypeOK, SInv PROVE LaneAlive
  OBVIOUS
<1>1. ASSUME NEW j \in QueueJobs, stage[j] = "queued"
      PROVE  LET q == lane[ThreadOf[j]]
             IN  q # NoJob /\ working[q] /\ \E i \in DOMAIN queue[q] : queue[q][i] = j
  <2>1. j \in Jobs /\ Mode[j] = "queue" /\ ThreadOf[j] \in Threads
    BY LanesAssumption DEF QueueJobs
  <2>2. JobInv(j) /\ LaneInv(ThreadOf[j])
    BY <2>1 DEF SInv
  <2> QED BY <1>1, <2>1, <2>2 DEF JobInv, LaneInv
<1>2. ASSUME NEW q \in Jobs, working[q] PROVE hand[q] # NoJob \/ queue[q] # <<>>
  <2>1. WorkerInv(q) /\ ThreadOf[q] \in Threads /\ LaneInv(ThreadOf[q]) /\ q # NoJob
    BY LanesAssumption DEF SInv
  <2>2. pending[ThreadOf[q]] = Len(queue[q]) + (IF hand[q] = NoJob THEN 0 ELSE 1)
        /\ pending[ThreadOf[q]] > 0
    BY <1>2, <2>1 DEF WorkerInv, LaneInv
  <2>3. CASE hand[q] = NoJob
    <3>1. Len(queue[q]) > 0
      BY <2>2, <2>3
    <3> QED BY <3>1
  <2> QED BY <2>3
<1> QED BY <1>1, <1>2 DEF LaneAlive

-----------------------------------------------------------------------------
(* Order *)

\* What is in a queue came in that order.
InOrder(q) ==
  \A a, b \in DOMAIN queue[q] : \A i, k \in DOMAIN arrivals :
    arrivals[i] = queue[q][a] /\ arrivals[k] = queue[q][b] /\ a < b => i < k

OInv ==
  /\ \A k \in DOMAIN arrivals : stage[arrivals[k]] \in Accepted
  /\ \A i, k \in DOMAIN arrivals : arrivals[i] = arrivals[k] => i = k
  /\ \A q \in Jobs : InOrder(q)
  /\ Fifo

LEMMA ArrivalFacts ==
  ASSUME TypeOK, NEW k \in DOMAIN arrivals
  PROVE  arrivals[k] \in Jobs /\ Mode[arrivals[k]] = "queue" /\ k \in Nat
BY DEF TypeOK, QueueJobs

LEMMA OrderJoins ==
  ASSUME TypeOK, SInv, OInv, NEW j \in Jobs, NEW t \in Threads, NEW q \in Jobs, Joining(j, t, q)
  PROVE  OInv'
<1> DEFINE n == Len(arrivals) + 1
<1>1. /\ arrivals \in Seq(Jobs) /\ arrivals' = Append(arrivals, j) /\ stage[j] = "admitting"
      /\ stage' = [stage EXCEPT ![j] = "queued"] /\ queue' = [queue EXCEPT ![q] = Append(@, j)]
      /\ \A i \in DOMAIN queue[q] : queue[q][i] # j
  BY DEF Joining, TypeOK, QueueJobs
<1>2. /\ DOMAIN arrivals' = DOMAIN arrivals \cup {n} /\ arrivals'[n] = j /\ n \notin DOMAIN arrivals
      /\ \A k \in DOMAIN arrivals : arrivals'[k] = arrivals[k] /\ k < n
      /\ \A k \in DOMAIN arrivals' : k \in Nat
  BY <1>1
<1>3. \A k \in DOMAIN arrivals : /\ arrivals[k] # j /\ arrivals[k] \in Jobs
                                 /\ stage'[arrivals[k]] = stage[arrivals[k]]
  BY <1>1, ArrivalFacts DEF OInv, Accepted, TypeOK
<1> HIDE DEF n
<1>4. \A k \in DOMAIN arrivals' : stage'[arrivals'[k]] \in Accepted
  BY <1>1, <1>2, <1>3 DEF OInv, Accepted, TypeOK
<1>5. \A i, k \in DOMAIN arrivals' : arrivals'[i] = arrivals'[k] => i = k
  BY <1>2, <1>3 DEF OInv
<1>6. ASSUME NEW p \in Jobs PROVE InOrder(p)'
  <2> SUFFICES ASSUME NEW a \in DOMAIN queue'[p], NEW b \in DOMAIN queue'[p],
                      NEW i \in DOMAIN arrivals', NEW k \in DOMAIN arrivals',
                      arrivals'[i] = queue'[p][a], arrivals'[k] = queue'[p][b], a < b
               PROVE  i < k
    BY DEF InOrder
  <2>1. InOrder(p) /\ WorkerInv(p) /\ queue[p] \in Seq(Jobs)
    BY DEF OInv, SInv, TypeOK
  <2>2. CASE p = q
    <3>0. queue'[p] = Append(queue[p], j)
      BY <1>1, <2>2 DEF TypeOK
    <3>1. /\ DOMAIN queue'[p] = 1..(Len(queue[p]) + 1)
          /\ queue'[p][Len(queue[p]) + 1] = j
          /\ \A c \in DOMAIN queue[p] : queue'[p][c] = queue[p][c]
      BY <2>1, <3>0
    <3>2. a \in DOMAIN queue[p] /\ queue[p][a] # j /\ queue'[p][a] = queue[p][a]
      BY <1>1, <2>1, <2>2, <3>1
    <3>3. i \in DOMAIN arrivals /\ arrivals[i] = queue[p][a]
      BY <1>2, <3>2
    <3>4. CASE b \in DOMAIN queue[p]
      <4>1. k \in DOMAIN arrivals /\ arrivals[k] = queue[p][b]
        BY <1>1, <1>2, <2>2, <3>1, <3>4
      <4> QED BY <2>1, <3>2, <3>3, <3>4, <4>1 DEF InOrder
    <3>5. CASE b = Len(queue[p]) + 1
      <4>1. arrivals'[k] = j
        BY <3>1, <3>5
      <4>2. k = n
        BY <1>2, <1>3, <4>1
      <4> QED BY <1>2, <3>3, <4>2
    <3> QED BY <2>1, <3>1, <3>4, <3>5
  <2>3. CASE p # q
    <3>1. queue'[p] = queue[p]
      BY <1>1, <2>3 DEF TypeOK
    <3>2. \A c \in DOMAIN queue[p] : queue[p][c] # j
      BY <1>1, <2>1 DEF WorkerInv
    <3>3. /\ i \in DOMAIN arrivals /\ arrivals[i] = queue[p][a]
          /\ k \in DOMAIN arrivals /\ arrivals[k] = queue[p][b]
      BY <1>2, <3>1, <3>2
    <3> QED BY <2>1, <3>1, <3>3 DEF InOrder
  <2> QED BY <2>2, <2>3
<1>7. Fifo'
  <2> SUFFICES ASSUME NEW k \in DOMAIN arrivals', NEW i \in 1..(k - 1),
                      ThreadOf[arrivals'[i]] = ThreadOf[arrivals'[k]],
                      stage'[arrivals'[k]] \in Started
               PROVE  stage'[arrivals'[i]] = "finished"
    BY DEF Fifo
  <2>1. k # n
    BY <1>1, <1>2 DEF Started, TypeOK
  <2>2. k \in DOMAIN arrivals /\ i \in DOMAIN arrivals
    BY <1>1, <1>2, <2>1
  <2> QED BY <1>2, <1>3, <2>2 DEF OInv, Fifo
<1> QED BY <1>4, <1>5, <1>6, <1>7 DEF OInv

LEMMA OrderTake ==
  ASSUME TypeOK, SInv, OInv, NEW q \in Jobs, Take(q)
  PROVE  OInv'
<1>1. PICK j \in Jobs : j = Head(queue[q]) /\ queue[q] # <<>>
  BY DEF Take, TypeOK
<1>2. /\ working[q] /\ hand[q] = NoJob /\ stage' = [stage EXCEPT ![j] = "running"]
      /\ queue' = [queue EXCEPT ![q] = Tail(@)] /\ UNCHANGED arrivals
  BY <1>1, Zenon DEF Take, Move
<1>3. /\ queue[q] \in Seq(Jobs) /\ Len(queue[q]) > 0 /\ queue'[q] = Tail(queue[q])
      /\ j = queue[q][1] /\ stage'[j] = "running"
  BY <1>1, <1>2 DEF TypeOK
<1>4. /\ \A a \in DOMAIN queue'[q] : /\ a \in Nat /\ a + 1 \in DOMAIN queue[q]
                                     /\ queue'[q][a] = queue[q][a + 1]
      /\ 1 \in DOMAIN queue[q] /\ \A a \in DOMAIN queue[q] : a # 1 => 1 < a
  BY <1>3
<1>5. WorkerInv(q) /\ ThreadOf[q] \in Threads /\ NoJob \notin Jobs
  BY LanesAssumption DEF SInv
<1>6. lane[ThreadOf[q]] = q /\ ThreadOf[j] = ThreadOf[q] /\ stage[j] = "queued"
  BY <1>2, <1>3, <1>4, <1>5 DEF WorkerInv
<1>7. ASSUME NEW k \in DOMAIN arrivals, arrivals[k] # j
      PROVE  stage'[arrivals[k]] = stage[arrivals[k]]
  BY <1>2, <1>7, ArrivalFacts DEF TypeOK
<1>8. \A k \in DOMAIN arrivals' : stage'[arrivals'[k]] \in Accepted
  BY <1>2, <1>3, <1>7 DEF OInv, Accepted
<1>9. ASSUME NEW p \in Jobs PROVE InOrder(p)'
  <2>1. InOrder(p)
    BY DEF OInv
  <2>2. CASE p = q
    BY <1>2, <1>4, <2>1, <2>2 DEF InOrder
  <2>3. CASE p # q
    <3>1. queue'[p] = queue[p]
      BY <1>2, <2>3 DEF TypeOK
    <3>2. arrivals' = arrivals
      BY <1>2
    <3> QED BY <2>1, <3>1, <3>2 DEF InOrder
  <2> QED BY <2>2, <2>3
<1>10. Fifo'
  <2> SUFFICES ASSUME NEW k \in DOMAIN arrivals, NEW i \in 1..(k - 1),
                      ThreadOf[arrivals[i]] = ThreadOf[arrivals[k]],
                      stage'[arrivals[k]] \in Started
               PROVE  stage'[arrivals[i]] = "finished"
    BY <1>2 DEF Fifo
  <2>1. i \in DOMAIN arrivals /\ i < k
    BY DEF TypeOK
  <2>2. CASE arrivals[k] # j
    <3>1. stage[arrivals[i]] = "finished"
      BY <1>7, <2>2 DEF OInv, Fifo
    <3> QED BY <1>6, <1>7, <2>1, <3>1
  <2>3. CASE arrivals[k] = j
    <3> DEFINE e == arrivals[i]
    <3>1. e # j /\ e \in Jobs /\ Mode[e] = "queue" /\ stage[e] \in Accepted /\ JobInv(e)
      BY <2>1, <2>3, ArrivalFacts DEF OInv, SInv
    <3>2. lane[ThreadOf[e]] = q
      BY <1>6, <2>3
    <3>3. stage[e] \notin {"running", "settling"}
      BY <1>2, <1>5, <3>1, <3>2 DEF JobInv
    <3>4. stage[e] # "queued"
      <4> SUFFICES ASSUME stage[e] = "queued" PROVE FALSE
        OBVIOUS
      <4>1. PICK b \in DOMAIN queue[q] : queue[q][b] = e
        BY <3>1, <3>2 DEF JobInv
      <4>2. 1 < b
        BY <1>3, <1>4, <3>1, <4>1
      <4>3. InOrder(q)
        BY DEF OInv
      <4>4. k < i
        BY <1>3, <1>4, <2>1, <2>3, <4>1, <4>2, <4>3 DEF InOrder
      <4> QED BY <2>1, <4>4, ArrivalFacts
    <3>5. stage[e] = "finished"
      BY <3>1, <3>3, <3>4 DEF Accepted
    <3> QED BY <1>7, <2>1, <3>1, <3>5
  <2> QED BY <2>2, <2>3
<1> QED BY <1>2, <1>8, <1>9, <1>10 DEF OInv

\* A step that leaves queues and arrivals alone and takes no job from a queue.
LEMMA OrderStays ==
  ASSUME TypeOK, OInv, UNCHANGED <<queue, arrivals>>,
         \A j \in Jobs : \/ Apart(j)
                         \/ stage[j] = "settling" /\ stage'[j] = "finished"
  PROVE  OInv'
<1>1. \A k \in DOMAIN arrivals :
        /\ stage'[arrivals[k]] \in Accepted
        /\ stage'[arrivals[k]] \in Started => stage[arrivals[k]] \in Started
        /\ stage[arrivals[k]] = "finished" => stage'[arrivals[k]] = "finished"
  BY ArrivalFacts DEF Apart, OInv, Accepted, Started
<1>2. \A q \in Jobs : InOrder(q)'
  BY DEF OInv, InOrder
<1>3. Fifo'
  <2> SUFFICES ASSUME NEW k \in DOMAIN arrivals, NEW i \in 1..(k - 1),
                      ThreadOf[arrivals[i]] = ThreadOf[arrivals[k]],
                      stage'[arrivals[k]] \in Started
               PROVE  stage'[arrivals[i]] = "finished"
    BY DEF Fifo
  <2>1. i \in DOMAIN arrivals
    BY DEF TypeOK
  <2> QED BY <1>1, <2>1 DEF OInv, Fifo
<1> QED BY <1>1, <1>2, <1>3 DEF OInv

LEMMA SettleApart ==
  ASSUME TypeOK, SInv, NEW q \in Jobs, Settle(q), NEW e \in Jobs
  PROVE  /\ UNCHANGED <<queue, arrivals>>
         /\ \/ stage'[e] = stage[e]
            \/ stage[e] = "settling" /\ stage'[e] = "finished"
<1>1. PICK j \in Jobs, t \in Threads : Settling(q, j, t)
  BY SettleFacts
<1>2. UNCHANGED <<queue, arrivals>>
  BY <1>1 DEF Settling
<1>3. stage[j] = "settling" /\ stage' = [stage EXCEPT ![j] = "finished"]
  BY <1>1 DEF Settling
<1>4. stage'[e] = IF e = j THEN "finished" ELSE stage[e]
  BY <1>3 DEF TypeOK
<1> QED BY <1>2, <1>3, <1>4

LEMMA OrderStep == TypeOK /\ SInv /\ OInv /\ [Next]_vars => OInv'
<1> SUFFICES ASSUME TypeOK, SInv, OInv, [Next]_vars PROVE OInv'
  OBVIOUS
<1>1. ASSUME NEW j \in Jobs, Joins(j) PROVE OInv'
  BY <1>1, TargetFacts, OrderJoins
<1>2. ASSUME NEW q \in Jobs, Take(q) PROVE OInv'
  BY <1>2, OrderTake
<1>3. ASSUME NEW q \in Jobs, Settle(q) PROVE OInv'
  <2>1. UNCHANGED <<queue, arrivals>>
    BY <1>3, SettleApart
  <2>2. \A j \in Jobs : \/ Apart(j)
                        \/ stage[j] = "settling" /\ stage'[j] = "finished"
    BY <1>3, SettleApart DEF Apart
  <2> QED BY <2>1, <2>2, OrderStays
<1>4. ASSUME NEW j \in Jobs, Aside(j) PROVE OInv'
  <2>1. UNCHANGED <<queue, arrivals>>
    BY <1>4, AsideApart DEF Aside, Submit, TurnedAway, ReserveSteer, StartSteer, FinishJob,
                            SettleSteer, lanes
  <2> QED BY <1>4, <2>1, AsideApart, OrderStays
<1>5. CASE StopAccepting \/ DrainStep \/ UNCHANGED vars
  <2>1. UNCHANGED <<stage, queue, arrivals>>
    BY <1>5, DrainTypes DEF lanes, vars
  <2> QED BY <2>1, OrderStays DEF Apart
<1> QED BY <1>1, <1>2, <1>3, <1>4, <1>5, LanesSteps

-----------------------------------------------------------------------------
(* Limits *)

UnfinishedOf(t) == {j \in Unfinished(QueueJobs) : ThreadOf[j] = t}

\* Every counter counts what is under way.
CInv ==
  /\ \A t \in Threads : pending[t] = Cardinality(UnfinishedOf(t))
  /\ steerPending = Cardinality(Unfinished(Steers)) /\ steerPending <= SteerCapacity
  /\ Cardinality(Open) <= MaxLanes

LEMMA FiniteSets ==
  ASSUME TypeOK, SInv
  PROVE  /\ IsFiniteSet(Unfinished(Steers)) /\ IsFiniteSet(Open)
         /\ \A t \in Threads : IsFiniteSet(UnfinishedOf(t))
<1> DEFINE S == {j \in Jobs : ThreadOf[j] \in Open}
           f == [j \in S |-> ThreadOf[j]]
<1>1. \A t \in Open : lane[t] \in S /\ ThreadOf[lane[t]] = t
  <2> SUFFICES ASSUME NEW t \in Open PROVE lane[t] \in S /\ ThreadOf[lane[t]] = t
    OBVIOUS
  <2>1. t \in Threads /\ lane[t] # NoJob /\ LaneInv(t) /\ lane[t] \in Jobs
    BY DEF Open, SInv, TypeOK
  <2> QED BY <2>1 DEF LaneInv
<1>2. f \in Surjection(S, Open)
  <2>1. f \in [S -> Open]
    OBVIOUS
  <2>2. \A t \in Open : \E j \in S : f[j] = t
    BY <1>1
  <2> QED BY <2>1, <2>2 DEF Surjection
<1>3. IsFiniteSet(S)
  BY FS_Subset, LanesAssumption
<1>4. IsFiniteSet(Open)
  BY <1>2, <1>3, FS_Surjection, Zenon
<1>5. Unfinished(Steers) \in SUBSET Jobs /\ \A t \in Threads : UnfinishedOf(t) \in SUBSET Jobs
  BY DEF Unfinished, UnfinishedOf, Steers, QueueJobs
<1> QED BY <1>4, <1>5, FS_Subset, LanesAssumption

LEMMA CountsInit == Init => CInv
<1> SUFFICES ASSUME Init PROVE CInv
  OBVIOUS
<1>1. Unfinished(Steers) = {} /\ Open = {} /\ \A t \in Threads : UnfinishedOf(t) = {}
  BY DEF Init, Unfinished, UnfinishedOf, Open, Accepted, Steers, QueueJobs
<1>2. Cardinality(Unfinished(Steers)) = 0 /\ Cardinality(Open) = 0
      /\ \A t \in Threads : Cardinality(UnfinishedOf(t)) = 0
  BY <1>1, FS_EmptySet
<1>3. steerPending = 0 /\ \A t \in Threads : pending[t] = 0
  BY DEF Init
<1> QED BY <1>2, <1>3, LanesAssumption DEF CInv

\* Unfinished jobs after a step, from what it does to each.
LEMMA CountsJoins ==
  ASSUME TypeOK, SInv, CInv, NEW j \in Jobs, NEW t \in Threads, NEW q \in Jobs, Joining(j, t, q),
         lane[t] = NoJob => Cardinality(Open) < MaxLanes
  PROVE  CInv'
<1> USE DEF Joining
<1>1. \A e \in Jobs : stage'[e] = IF e = j THEN "queued" ELSE stage[e]
  BY DEF TypeOK
<1>2. Unfinished(Steers)' = Unfinished(Steers)
  BY <1>1 DEF Unfinished, Steers, Accepted
<1>3. UnfinishedOf(t)' = UnfinishedOf(t) \cup {j} /\ j \notin UnfinishedOf(t)
  BY <1>1 DEF Unfinished, UnfinishedOf, QueueJobs, Accepted
<1>4. \A s \in Threads : s # t => UnfinishedOf(s)' = UnfinishedOf(s)
  BY <1>1 DEF Unfinished, UnfinishedOf, QueueJobs, Accepted
<1>5. \A s \in Threads : pending'[s] = IF s = t THEN pending[s] + 1 ELSE pending[s]
  BY DEF TypeOK
<1>6. ASSUME NEW s \in Threads PROVE pending'[s] = Cardinality(UnfinishedOf(s)')
  <2>1. IsFiniteSet(UnfinishedOf(t)) /\ pending[s] = Cardinality(UnfinishedOf(s))
    BY FiniteSets DEF CInv
  <2>2. Cardinality(UnfinishedOf(t) \cup {j}) = Cardinality(UnfinishedOf(t)) + 1
    BY <1>3, <2>1, FS_AddElement
  <2> QED BY <1>3, <1>4, <1>5, <2>1, <2>2
<1>7. Open' = Open \cup {t}
  BY LanesAssumption DEF Open, TypeOK
<1>8. t \in Open <=> lane[t] # NoJob
  BY DEF Open
<1>9. Cardinality(Open') = IF t \in Open THEN Cardinality(Open) ELSE Cardinality(Open) + 1
  BY <1>7, FS_AddElement, FiniteSets
<1>10. Cardinality(Open') <= MaxLanes
  <2>1. Cardinality(Open) \in Nat
    BY FS_CardinalityType, FiniteSets
  <2> QED BY <1>8, <1>9, <2>1, LanesAssumption DEF CInv
<1> QED BY <1>2, <1>6, <1>10 DEF CInv

LEMMA CountsSettle ==
  ASSUME TypeOK, SInv, CInv, NEW q \in Jobs, NEW j \in Jobs, NEW t \in Threads, Settling(q, j, t)
  PROVE  CInv'
<1> USE DEF Settling
<1>1. \A e \in Jobs : stage'[e] = IF e = j THEN "finished" ELSE stage[e]
  BY DEF TypeOK
<1>2. Unfinished(Steers)' = Unfinished(Steers)
  <2>1. \A e \in Steers : e \in Jobs /\ e # j
    BY DEF Steers
  <2> QED BY <1>1, <2>1 DEF Unfinished, Steers, Accepted
<1>0. stage[j] = "settling" /\ Mode[j] = "queue" /\ ThreadOf[j] = t
  OBVIOUS
<1> HIDE DEF Settling
<1>3. UnfinishedOf(t)' = UnfinishedOf(t) \ {j} /\ j \in UnfinishedOf(t)
  BY <1>1, <1>0 DEF Unfinished, UnfinishedOf, QueueJobs, Accepted
<1>4. \A s \in Threads : s # t => UnfinishedOf(s)' = UnfinishedOf(s)
  BY <1>1, <1>0 DEF Unfinished, UnfinishedOf, QueueJobs, Accepted
<1> USE DEF Settling
<1>5. \A s \in Threads : pending'[s] = IF s = t THEN pending[s] - 1 ELSE pending[s]
  BY DEF TypeOK
<1>6. ASSUME NEW s \in Threads PROVE pending'[s] = Cardinality(UnfinishedOf(s)')
  <2>1. IsFiniteSet(UnfinishedOf(t)) /\ pending[s] = Cardinality(UnfinishedOf(s))
    BY FiniteSets DEF CInv
  <2>2. Cardinality(UnfinishedOf(t) \ {j}) = Cardinality(UnfinishedOf(t)) - 1
    BY <1>3, <2>1, FS_RemoveElement
  <2> QED BY <1>3, <1>4, <1>5, <2>1, <2>2
<1>7. Open' \in SUBSET Open
  BY DEF Open, TypeOK
<1>8. Cardinality(Open') <= MaxLanes
  <2>1. Cardinality(Open) \in Nat /\ IsFiniteSet(Open')
    BY <1>7, FS_CardinalityType, FS_Subset, FiniteSets
  <2>2. Cardinality(Open') <= Cardinality(Open) /\ Cardinality(Open') \in Nat
    BY <1>7, <2>1, FS_Subset, FS_CardinalityType, FiniteSets
  <2> QED BY <2>1, <2>2, LanesAssumption DEF CInv
<1> QED BY <1>2, <1>6, <1>8 DEF CInv

\* The lanes and what is unfinished in them stay as they are.
LEMMA CountsStay ==
  ASSUME TypeOK, CInv, UNCHANGED <<lane, pending>>,
         \A j \in QueueJobs : (stage'[j] \in Accepted \ {"finished"})
                                <=> (stage[j] \in Accepted \ {"finished"}),
         \/ UNCHANGED steerPending /\ Unfinished(Steers)' = Unfinished(Steers)
         \/ steerPending' = Cardinality(Unfinished(Steers)') /\ steerPending' <= SteerCapacity
  PROVE  CInv'
<1>1. \A t \in Threads : UnfinishedOf(t)' = UnfinishedOf(t)
  BY DEF UnfinishedOf, Unfinished
<1>2. Open' = Open
  BY DEF Open
<1> QED BY <1>1, <1>2 DEF CInv

LEMMA CountsSteer ==
  ASSUME TypeOK, SInv, CInv, NEW j \in Jobs, ReserveSteer(j) \/ SettleSteer(j)
  PROVE  CInv'
<1>1. /\ UNCHANGED <<lane, pending>> /\ j \in Steers /\ j \notin QueueJobs
      /\ \A e \in Jobs : e # j => stage'[e] = stage[e]
  BY DEF ReserveSteer, SettleSteer, lanes, Steers, QueueJobs, Move, TypeOK
<1>2. \A e \in QueueJobs : stage'[e] = stage[e]
  BY <1>1 DEF QueueJobs
<1>3. IsFiniteSet(Unfinished(Steers)) /\ steerPending \in Nat
      /\ steerPending = Cardinality(Unfinished(Steers)) /\ steerPending <= SteerCapacity
  BY FiniteSets DEF CInv, TypeOK
<1>4. CASE ReserveSteer(j) /\ accepting /\ SteerRoom
  <2>1. stage[j] = "admitting" /\ stage'[j] = "queued" /\ steerPending' = steerPending + 1
    BY <1>4 DEF ReserveSteer, Move, TypeOK
  <2>2. Unfinished(Steers)' = Unfinished(Steers) \cup {j} /\ j \notin Unfinished(Steers)
    BY <1>1, <2>1 DEF Unfinished, Steers, Accepted
  <2>3. Cardinality(Unfinished(Steers)') = steerPending + 1
    BY <1>3, <2>2, FS_AddElement
  <2>4. steerPending + 1 <= SteerCapacity
    BY <1>3, <1>4, LanesAssumption DEF SteerRoom
  <2> QED BY <1>1, <1>2, <2>1, <2>3, <2>4, CountsStay
<1>5. CASE ReserveSteer(j) /\ ~(accepting /\ SteerRoom)
  <2>1. stage[j] = "admitting" /\ stage'[j] = "refused" /\ steerPending' = steerPending
    BY <1>5 DEF ReserveSteer, Move, TypeOK
  <2>2. Unfinished(Steers)' = Unfinished(Steers)
    BY <1>1, <2>1 DEF Unfinished, Steers, Accepted
  <2> QED BY <1>1, <1>2, <2>1, <2>2, CountsStay
<1>6. CASE SettleSteer(j)
  <2>1. stage[j] = "settling" /\ stage'[j] = "finished"
    BY <1>6 DEF SettleSteer, Move, TypeOK
  <2>2. Unfinished(Steers)' = Unfinished(Steers) \ {j} /\ j \in Unfinished(Steers)
    BY <1>1, <2>1 DEF Unfinished, Steers, Accepted
  <2>3. Cardinality(Unfinished(Steers)') = steerPending - 1 /\ steerPending # 0
    BY <1>3, <2>2, FS_RemoveElement, FS_EmptySet
  <2>4. steerPending' = steerPending - 1
    BY <1>6, <2>3 DEF SettleSteer
  <2>5. steerPending - 1 <= SteerCapacity
    BY <1>3, LanesAssumption
  <2> QED BY <1>1, <1>2, <2>3, <2>4, <2>5, CountsStay
<1> QED BY <1>4, <1>5, <1>6

LEMMA CountsStep == TypeOK /\ SInv /\ CInv /\ [Next]_vars => CInv'
<1> SUFFICES ASSUME TypeOK, SInv, CInv, [Next]_vars PROVE CInv'
  OBVIOUS
<1>1. ASSUME NEW j \in Jobs, Joins(j) PROVE CInv'
  <2>1. PICK t \in Threads, q \in Jobs : Joining(j, t, q)
    BY <1>1, TargetFacts
  <2>2. lane[t] = NoJob => Cardinality(Open) < MaxLanes
    BY <1>1, <2>1 DEF Joins, Joining
  <2> QED BY <2>1, <2>2, CountsJoins
<1>2. ASSUME NEW q \in Jobs, Settle(q) PROVE CInv'
  BY <1>2, SettleFacts, CountsSettle
<1>3. ASSUME NEW j \in Jobs, ReserveSteer(j) \/ SettleSteer(j) PROVE CInv'
  BY <1>3, CountsSteer
<1>4. ASSUME NEW j \in Jobs,
             Take(j) \/ Submit(j) \/ TurnedAway(j) \/ StartSteer(j) \/ FinishJob(j)
      PROVE  CInv'
  <2>1. UNCHANGED <<lane, pending, steerPending>>
    BY <1>4 DEF Take, Submit, TurnedAway, StartSteer, FinishJob, lanes, control
  <2>2. CASE Take(j)
    <3>1. Head(queue[j]) \in Jobs /\ stage[Head(queue[j])] = "queued"
          /\ stage' = [stage EXCEPT ![Head(queue[j])] = "running"]
      <4>1. queue[j] \in Seq(Jobs) /\ queue[j] # <<>> /\ WorkerInv(j)
        BY <2>2 DEF Take, TypeOK, SInv
      <4>2. Head(queue[j]) = queue[j][1] /\ 1 \in DOMAIN queue[j] /\ Head(queue[j]) \in Jobs
        BY <4>1
      <4> QED BY <2>2, <4>1, <4>2 DEF WorkerInv, Take, Move
    <3>2. \A e \in Jobs : \/ stage'[e] = stage[e]
                          \/ stage[e] = "queued" /\ stage'[e] = "running"
      BY <3>1 DEF TypeOK
    <3> QED BY <2>1, <3>2, CountsStay DEF Unfinished, Accepted, Steers, QueueJobs
  <2>3. CASE ~Take(j)
    <3>1. \A e \in Jobs : \/ stage'[e] = stage[e]
                          \/ stage[e] \in {"new", "admitting"} /\ stage'[e] \in {"admitting", "refused"}
                          \/ stage[e] = "queued" /\ stage'[e] = "running"
                          \/ stage[e] = "running" /\ stage'[e] = "settling"
      BY <1>4, <2>3 DEF Submit, TurnedAway, StartSteer, FinishJob, Move, TypeOK
    <3> QED BY <2>1, <3>1, CountsStay DEF Unfinished, Accepted, Steers, QueueJobs
  <2> QED BY <2>2, <2>3
<1>5. CASE StopAccepting \/ DrainStep \/ UNCHANGED vars
  <2>1. UNCHANGED <<stage, lane, pending, steerPending>>
    BY <1>5, DrainTypes DEF lanes, vars
  <2> QED BY <2>1, CountsStay DEF Unfinished
<1> QED BY <1>1, <1>2, <1>3, <1>4, <1>5, LanesSteps DEF Aside

LEMMA BoundedFollows == TypeOK /\ SInv /\ CInv => Bounded
<1> SUFFICES ASSUME TypeOK, SInv, CInv PROVE Bounded
  OBVIOUS
<1> DEFINE B == {ThreadOf[j] : j \in Unfinished(QueueJobs)}
<1>1. B \in SUBSET Open
  BY LanesAssumption DEF B, Unfinished, QueueJobs, Accepted, Open, SInv, JobInv
<1>2. Cardinality(B) <= MaxLanes
  <2>1. IsFiniteSet(Open) /\ Cardinality(Open) \in Nat
    BY FiniteSets, FS_CardinalityType
  <2>2. Cardinality(B) <= Cardinality(Open) /\ IsFiniteSet(B)
    BY <1>1, <2>1, FS_Subset
  <2>3. Cardinality(B) \in Nat
    BY <2>2, FS_CardinalityType
  <2> HIDE DEF B
  <2> QED BY <2>1, <2>2, <2>3, LanesAssumption DEF CInv
<1>3. ASSUME NEW t \in Threads PROVE pending[t] <= LaneCapacity + 1
  <2>1. LaneInv(t) /\ (lane[t] # NoJob => lane[t] \in Jobs)
    BY DEF SInv, TypeOK
  <2>2. CASE lane[t] = NoJob
    BY <2>1, <2>2, LanesAssumption DEF LaneInv
  <2>3. CASE lane[t] # NoJob
    <3>1. queue[lane[t]] \in Seq(Jobs) /\ Len(queue[lane[t]]) <= LaneCapacity
      BY <2>1, <2>3 DEF TypeOK
    <3>2. pending[t] = Len(queue[lane[t]]) + (IF hand[lane[t]] = NoJob THEN 0 ELSE 1)
      BY <2>1, <2>3 DEF LaneInv
    <3>3. Len(queue[lane[t]]) \in Nat /\ LaneCapacity \in Nat
      BY <3>1, LanesAssumption
    <3>4. CASE hand[lane[t]] = NoJob
      <4>1. pending[t] = Len(queue[lane[t]])
        BY <3>2, <3>3, <3>4
      <4> QED BY <3>1, <3>3, <4>1
    <3>5. CASE hand[lane[t]] # NoJob
      <4>1. pending[t] = Len(queue[lane[t]]) + 1
        BY <3>2, <3>5
      <4> QED BY <3>1, <3>3, <4>1
    <3> QED BY <3>4, <3>5
  <2> QED BY <2>2, <2>3
<1> QED BY <1>2, <1>3 DEF Bounded, CInv, UnfinishedOf

-----------------------------------------------------------------------------
(* The drain *)

\* Once a pass has counted nothing, only late jobs can be under way.
DInv ==
  /\ accepting <=> drain = "serving"
  /\ (drain = "count-control" /\ ~counted) \/ drain = "drained"
       => Unfinished(QueueJobs) \subseteq late
  /\ drain = "drained" => Unfinished(Steers) = {}

LEMMA DrainInit == Init => DInv
BY DEF Init, DInv, Unfinished, Accepted

\* A step of a job starts no work that is not late, and no steer after the end of accepting.
LEMMA WorkStarts ==
  ASSUME TypeOK, SInv, NEW j \in Jobs, Joins(j) \/ Take(j) \/ Settle(j) \/ Aside(j)
  PROVE  /\ UNCHANGED <<accepting, stop>>
         /\ Unfinished(QueueJobs)' \subseteq Unfinished(QueueJobs) \cup late'
         /\ late \subseteq late'
         /\ ~accepting => Unfinished(Steers)' \subseteq Unfinished(Steers)
<1> USE DEF Unfinished, Accepted, QueueJobs, Steers
<1>1. CASE Joins(j)
  <2>1. /\ UNCHANGED <<accepting, stop>> /\ late' = late \cup {j} /\ Mode[j] = "queue"
        /\ \A e \in Jobs : e # j => stage'[e] = stage[e]
    BY <1>1 DEF Joins, Move, TypeOK, control
  <2> QED BY <1>1, <2>1
<1>2. CASE Take(j)
  <2>1. UNCHANGED <<accepting, stop, late>>
    BY <1>2 DEF Take, control
  <2>2. queue[j] \in Seq(Jobs) /\ queue[j] # <<>> /\ WorkerInv(j)
    BY <1>2 DEF Take, TypeOK, SInv
  <2>3. Head(queue[j]) = queue[j][1] /\ 1 \in DOMAIN queue[j] /\ Head(queue[j]) \in Jobs
    BY <2>2
  <2>4. /\ stage[Head(queue[j])] = "queued" /\ Mode[Head(queue[j])] = "queue"
        /\ \A e \in Jobs : e # Head(queue[j]) => stage'[e] = stage[e]
    BY <1>2, <2>2, <2>3 DEF WorkerInv, Take, Move, TypeOK
  <2> QED BY <2>1, <2>3, <2>4
<1>3. CASE Settle(j)
  <2>1. UNCHANGED <<accepting, stop, late>>
    BY <1>3 DEF Settle, control
  <2> QED BY <1>3, <2>1, SettleApart
<1>4. CASE Aside(j)
  <2>1. UNCHANGED <<accepting, stop, late>>
    BY <1>4 DEF Aside, Submit, TurnedAway, ReserveSteer, StartSteer, FinishJob, SettleSteer, control
  <2>2. \A e \in Jobs : e # j => stage'[e] = stage[e]
    BY <1>4 DEF Aside, Submit, TurnedAway, ReserveSteer, StartSteer, FinishJob, SettleSteer, Move,
                TypeOK
  <2>3. Mode[j] = "queue" /\ stage'[j] \in Accepted \ {"finished"} => stage[j] \in Accepted \ {"finished"}
    BY <1>4, AsideApart DEF Apart
  <2>4. /\ ~accepting /\ stage'[j] \in Accepted \ {"finished"}
        => stage[j] \in Accepted \ {"finished"}
    BY <1>4 DEF Aside, Submit, TurnedAway, ReserveSteer, StartSteer, FinishJob, SettleSteer, Move,
                TypeOK
  <2> QED BY <2>1, <2>2, <2>3, <2>4
<1> QED BY <1>1, <1>2, <1>3, <1>4

LEMMA DrainInvStep == TypeOK /\ SInv /\ CInv /\ DInv /\ [Next]_vars => DInv'
<1> SUFFICES ASSUME TypeOK, SInv, CInv, DInv, [Next]_vars PROVE DInv'
  OBVIOUS
<1>1. ASSUME NEW j \in Jobs, Joins(j) \/ Take(j) \/ Settle(j) \/ Aside(j) PROVE DInv'
  BY <1>1, WorkStarts DEF DInv, stop
<1>2. CASE StopAccepting
  BY <1>2 DEF StopAccepting, DInv, stop
<1>3. CASE CountLanes
  <2>1. /\ drain' = "count-control" /\ late' = {} /\ UNCHANGED <<stage, accepting>>
        /\ drain = "count-lanes" /\ (counted' <=> \E t \in Open : Busy(t))
    BY <1>3 DEF CountLanes, control
  <2>2. ~counted' => Open = {}
    BY <2>1 DEF Busy, Open, SInv, LaneInv
  <2>3. ~counted' => Unfinished(QueueJobs)' = {}
    BY <2>1, <2>2, LanesAssumption DEF Unfinished, QueueJobs, Accepted, Open, SInv, JobInv
  <2> QED BY <2>1, <2>3 DEF DInv
<1>4. CASE CountControl
  <2>1. /\ UNCHANGED <<stage, accepting, late>> /\ drain = "count-control"
        /\ drain' \in {"drained", "gave-up", "count-lanes"}
        /\ drain' = "drained" => ~counted /\ steerPending = 0
    BY <1>4 DEF CountControl, control
  <2>2. steerPending = 0 => Unfinished(Steers) = {}
    BY FiniteSets, FS_EmptySet DEF CInv
  <2> QED BY <2>1, <2>2 DEF DInv, Unfinished
<1>5. CASE PassDeadline \/ UNCHANGED vars
  BY <1>5 DEF PassDeadline, DInv, Unfinished, control, vars
<1> QED BY <1>1, <1>2, <1>3, <1>4, <1>5, LanesSteps DEF DrainStep

LEMMA DrainedFollows == DInv => DrainedMeansDone
<1> SUFFICES ASSUME DInv, drain = "drained" PROVE Unfinished(Jobs) \subseteq late
  BY DEF DrainedMeansDone
<1>1. Unfinished(Jobs) = Unfinished(QueueJobs) \cup Unfinished(Steers)
  BY LanesAssumption DEF Unfinished, QueueJobs, Steers
<1> QED BY <1>1 DEF DInv

-----------------------------------------------------------------------------
\* The inductive invariant of the lanes.
LanesInv == TypeOK /\ SInv /\ OInv /\ CInv /\ DInv

LEMMA LanesInit == Init => LanesInv
<1>1. Init => OInv
  BY DEF Init, OInv, InOrder, Fifo
<1> QED BY <1>1, StructureInit, CountsInit, DrainInit DEF LanesInv

LEMMA LanesStep == LanesInv /\ [Next]_vars => LanesInv'
BY StructureStep, OrderStep, CountsStep, DrainInvStep DEF LanesInv

LEMMA LanesFollow == LanesInv => Fifo /\ LaneAlive /\ Bounded /\ DrainedMeansDone
BY AliveFollows, BoundedFollows, DrainedFollows DEF LanesInv, OInv

-----------------------------------------------------------------------------
(* The daemon takes the lanes' steps *)

LEMMA DaemonLanes == [DaemonNext]_daemonVars => [Next]_vars
<1> SUFFICES ASSUME [DaemonNext]_daemonVars PROVE [Next]_vars
  OBVIOUS
<1> USE DEF Next, JobStep, DrainStep
<1>1. ASSUME NEW j \in Jobs, Handle(j) PROVE [Next]_vars
  BY <1>1 DEF Handle, Arrive, Authorize, Refuse, Claim, BodyFails, Acknowledge, Finish, AnswerLost,
              ResponseCloses
<1>2. ASSUME NEW j \in Jobs, Submits(j) \/ Works(j) \/ Delivered(j) PROVE [Next]_vars
  BY <1>2 DEF Submits, Works, Delivered
<1>3. ASSUME NEW j \in Jobs, Connect(j) \/ HangUp(j) PROVE [Next]_vars
  BY <1>3 DEF Connect, HangUp
<1>4. CASE StopStep
  BY <1>4 DEF StopStep, ForceClose, ServerClosed, WaitForIdle, IdleTimesOut, EndIntake, Drain,
              Dispose, Stopped
<1>5. CASE EarlySignal \/ Listening \/ StartFails \/ Stop \/ CloseIdle \/ Tick \/ DrainDue
  BY <1>5 DEF EarlySignal, Listening, StartFails, Stop, CloseIdle, Tick, DrainDue
<1>6. CASE Exit \/ UNCHANGED daemonVars
  BY <1>6 DEF Exit, daemonVars
<1> QED BY <1>1, <1>2, <1>3, <1>4, <1>5, <1>6 DEF DaemonNext

\* The daemon implements the specification of its lanes: it takes their steps
\* and no others, in an order of its own.
THEOREM DaemonImplementsLanes == DaemonSpec => Spec
<1>1. DaemonInit => Init
  BY DEF DaemonInit
<1> QED BY <1>1, DaemonLanes, PTL DEF DaemonSpec, Spec

LEMMA LanesInvariant == DaemonSpec => []LanesInv
<1>1. Spec => []LanesInv
  BY LanesInit, LanesStep, PTL DEF Spec
<1> QED BY <1>1, DaemonImplementsLanes, PTL

\* Queue messages of a task run one at a time in the order they were accepted.
THEOREM FifoHolds == DaemonSpec => []Fifo
BY LanesInvariant, LanesFollow, PTL

\* No accepted message is stranded in a queue without a worker.
THEOREM LaneAliveHolds == DaemonSpec => []LaneAlive
BY LanesInvariant, LanesFollow, PTL

\* A drain that reports success leaves only jobs that came after its last count.
THEOREM DrainedMeansDoneHolds == DaemonSpec => []DrainedMeansDone
BY LanesInvariant, LanesFollow, PTL

-----------------------------------------------------------------------------
(* Requests *)

Held == {j \in Jobs : hold[j] = "held"}

\* The types of what the daemon adds to the lanes, but for its counter.
OwnTypes ==
  /\ phase \in Phases /\ stopping \in Stops /\ clock \in Clocks /\ asked \in BOOLEAN
  /\ hold \in [Jobs -> Holds] /\ conn \in [Jobs -> Conns] /\ at \in [Jobs -> Places]
  /\ answer \in [Jobs -> Codes] /\ heard \in [Jobs -> BOOLEAN]

LEMMA OwnTypesStep == OwnTypes /\ [DaemonNext]_daemonVars => OwnTypes'
<1> SUFFICES ASSUME OwnTypes, [DaemonNext]_daemonVars PROVE OwnTypes'
  OBVIOUS
<1> USE DEF OwnTypes, requests, daemon
<1>1. ASSUME NEW j \in Jobs, Handle(j) PROVE OwnTypes'
  <2> USE DEF GoesTo, Answers, Places, Codes
  <2>1. CASE Arrive(j)
    BY <2>1 DEF Arrive, Holds
  <2>2. CASE Authorize(j) \/ Refuse(j) \/ Claim(j) \/ BodyFails(j) \/ Acknowledge(j) \/ AnswerLost(j)
    BY <2>2 DEF Authorize, Refuse, Claim, BodyFails, Acknowledge, AnswerLost
  <2>3. CASE Finish(j)
    BY <2>3 DEF Finish, Releases, Holds, Conns, Stops
  <2>4. CASE ResponseCloses(j)
    BY <2>4 DEF ResponseCloses, Releases, Holds, Stops
  <2> QED BY <1>1, <2>1, <2>2, <2>3, <2>4 DEF Handle
<1>2. ASSUME NEW j \in Jobs, Submits(j) \/ Works(j) \/ Delivered(j) PROVE OwnTypes'
  BY <1>2 DEF Submits, Works, Delivered
<1>3. ASSUME NEW j \in Jobs, Connect(j) \/ HangUp(j) PROVE OwnTypes'
  BY <1>3 DEF Connect, HangUp, Conns
<1>4. CASE ForceClose \/ CloseIdle \/ Stop
  BY <1>4 DEF ForceClose, CloseIdle, Stop, CloseAll, Conns, Stops, Phases
<1>5. CASE ServerClosed \/ WaitForIdle \/ IdleTimesOut \/ EndIntake \/ Drain \/ Dispose \/ Stopped
  BY <1>5 DEF ServerClosed, WaitForIdle, IdleTimesOut, EndIntake, Drain, Dispose, Stopped, Stops,
              Phases
<1>6. CASE EarlySignal \/ Listening \/ StartFails \/ Tick \/ DrainDue
  BY <1>6 DEF EarlySignal, Listening, StartFails, Tick, DrainDue, Stops, Phases, Clocks
<1>7. CASE Exit \/ UNCHANGED daemonVars
  BY <1>7 DEF Exit, daemonVars
<1> QED BY <1>1, <1>2, <1>3, <1>4, <1>5, <1>6, <1>7 DEF DaemonNext, StopStep

\* What a step does to the lifecycle's count and to the holds.
LEMMA HoldSteps ==
  ASSUME OwnTypes, [DaemonNext]_daemonVars
  PROVE  \/ UNCHANGED <<active, hold>>
         \/ \E j \in Jobs : /\ at[j] = "none" /\ active' = active + 1
                            /\ hold' = [hold EXCEPT ![j] = "held"] /\ phase = "ready"
         \/ \E j \in Jobs, to \in {"released", "gone"} : Releases(j, to)
<1>1. ASSUME NEW j \in Jobs, Handle(j)
      PROVE  \/ UNCHANGED <<active, hold>>
             \/ /\ at[j] = "none" /\ active' = active + 1
                /\ hold' = [hold EXCEPT ![j] = "held"] /\ phase = "ready"
             \/ \E to \in {"released", "gone"} : Releases(j, to)
  BY <1>1 DEF Handle, Arrive, Authorize, Refuse, Claim, BodyFails, Acknowledge, Finish, AnswerLost,
              ResponseCloses, daemon
<1>2. ASSUME NEW j \in Jobs, Submits(j) \/ Works(j) \/ Delivered(j) \/ Connect(j) \/ HangUp(j)
      PROVE  UNCHANGED <<active, hold>>
  BY <1>2 DEF Submits, Works, Delivered, Connect, HangUp, requests, daemon
<1>3. CASE StopStep
  BY <1>3 DEF StopStep, ForceClose, ServerClosed, WaitForIdle, IdleTimesOut, EndIntake, Drain,
              Dispose, Stopped, requests, daemon
<1>4. CASE EarlySignal \/ Listening \/ StartFails \/ Stop \/ CloseIdle \/ Tick \/ DrainDue
  BY <1>4 DEF EarlySignal, Listening, StartFails, Stop, CloseIdle, Tick, DrainDue, requests, daemon
<1>5. CASE Exit \/ UNCHANGED daemonVars
  BY <1>5 DEF Exit, daemonVars, requests, daemon
<1> QED BY <1>1, <1>2, <1>3, <1>4, <1>5 DEF DaemonNext

LEMMA CountStep ==
  ASSUME OwnTypes, CountsRequests, [DaemonNext]_daemonVars,
         \A j \in Jobs : at[j] = "none" => hold[j] = "none"
  PROVE  CountsRequests' /\ active' \in Nat
<1>1. IsFiniteSet(Held) /\ active = Cardinality(Held) /\ active \in Nat
  <2>1. IsFiniteSet(Held)
    BY FS_Subset, LanesAssumption DEF Held
  <2> QED BY <2>1, FS_CardinalityType DEF CountsRequests, Held
<1>2. CASE UNCHANGED <<active, hold>>
  BY <1>1, <1>2 DEF CountsRequests
<1>3. ASSUME NEW j \in Jobs, at[j] = "none", active' = active + 1,
             hold' = [hold EXCEPT ![j] = "held"]
      PROVE  active' = Cardinality(Held')
  <2>1. Held' = Held \cup {j} /\ j \notin Held
    BY <1>3 DEF Held, OwnTypes
  <2> QED BY <1>1, <1>3, <2>1, FS_AddElement
<1>4. ASSUME NEW j \in Jobs, NEW to \in {"released", "gone"}, Releases(j, to)
      PROVE  active' = Cardinality(Held')
  <2>1. Held' = Held \ {j}
    BY <1>4 DEF Held, OwnTypes, Releases
  <2>2. active' = IF j \in Held THEN active - 1 ELSE active
    BY <1>4 DEF Releases, ActiveAfter, Held
  <2> QED BY <1>1, <2>1, <2>2, FS_RemoveElement
<1>5. active' = Cardinality(Held')
  BY <1>1, <1>2, <1>3, <1>4, HoldSteps DEF Held
<1>6. IsFiniteSet(Held')
  BY FS_Subset, LanesAssumption DEF Held
<1> QED BY <1>5, <1>6, FS_CardinalityType DEF CountsRequests, Held

\* A request's handler, its response and its job go together.
ReqInv(j) ==
  /\ at[j] = "none" => hold[j] = "none"
  /\ at[j] \in {"none", "authorize", "body"} => stage[j] = "new"
  /\ stage[j] = "admitting" => at[j] = "submit"
  /\ at[j] \in {"none", "authorize", "body", "submit"} => answer[j] = "none"
  /\ heard[j] => at[j] = "over"
  /\ answer[j] = "202" => stage[j] \in Accepted

\* What the lanes do to a job once Delivery was asked.
LEMMA StageMoves ==
  ASSUME TypeOK, SInv, NEW j \in Jobs,
         \/ Offer(j) \/ ReserveSteer(j) \/ Take(j) \/ StartSteer(j) \/ FinishJob(j)
         \/ Settle(j) \/ SettleSteer(j),
         NEW e \in Jobs
  PROVE  \/ stage'[e] = stage[e]
         \/ stage[e] = "admitting" /\ stage'[e] \in {"queued", "refused"}
         \/ stage[e] \in Accepted /\ stage'[e] \in Accepted
<1> USE DEF Accepted
<1>1. CASE Offer(j) \/ ReserveSteer(j) \/ StartSteer(j) \/ FinishJob(j) \/ SettleSteer(j)
  <2>1. \/ stage[j] = "admitting" /\ (stage' = [stage EXCEPT ![j] = "queued"]
                                      \/ stage' = [stage EXCEPT ![j] = "refused"])
        \/ stage[j] \in Accepted /\ \E to \in Accepted : stage' = [stage EXCEPT ![j] = to]
    BY <1>1 DEF Offer, ReserveSteer, StartSteer, FinishJob, SettleSteer, Move
  <2> QED BY <2>1 DEF TypeOK
<1>2. CASE Take(j)
  <2>1. queue[j] \in Seq(Jobs) /\ queue[j] # <<>> /\ WorkerInv(j)
    BY <1>2 DEF Take, TypeOK, SInv
  <2>2. Head(queue[j]) = queue[j][1] /\ 1 \in DOMAIN queue[j] /\ Head(queue[j]) \in Jobs
    BY <2>1
  <2>3. stage[Head(queue[j])] = "queued" /\ stage' = [stage EXCEPT ![Head(queue[j])] = "running"]
    BY <1>2, <2>1, <2>2 DEF WorkerInv, Take, Move
  <2> QED BY <2>2, <2>3 DEF TypeOK
<1>3. CASE Settle(j)
  BY <1>3, SettleApart
<1> QED BY <1>1, <1>2, <1>3

LEMMA RequestHandle ==
  ASSUME TypeOK, OwnTypes, NEW j \in Jobs, Handle(j), NEW e \in Jobs, ReqInv(e)
  PROVE  ReqInv(e)'
<1> USE DEF ReqInv, OwnTypes, GoesTo, Answers
<1>1. CASE Arrive(j)
  <2>1. stage' = stage /\ heard' = heard
    BY <1>1 DEF Arrive, vars
  <2> QED BY <1>1, <2>1 DEF Arrive
<1>2. CASE Authorize(j) \/ Refuse(j) \/ BodyFails(j) \/ AnswerLost(j)
  <2>1. stage' = stage /\ heard' = heard /\ hold' = hold
    BY <1>2 DEF Authorize, Refuse, BodyFails, AnswerLost, vars
  <2> QED BY <1>2, <2>1 DEF Authorize, Refuse, BodyFails, AnswerLost
<1>3. CASE Claim(j)
  <2>1. /\ stage[j] = "new" /\ stage'[j] \in {"admitting", "refused"}
        /\ \A i \in Jobs : i # j => stage'[i] = stage[i]
        /\ UNCHANGED <<hold, answer, heard>>
    BY <1>3 DEF Claim, Submit, Move, TypeOK
  <2> QED BY <1>3, <2>1 DEF Claim
<1>4. CASE Acknowledge(j)
  <2>1. stage' = stage /\ heard' = heard /\ hold' = hold
    BY <1>4 DEF Acknowledge, vars
  <2> QED BY <1>4, <2>1 DEF Acknowledge, TypeOK, Stages, Accepted
<1>5. CASE Finish(j)
  <2>1. stage' = stage /\ answer' = answer /\ \A i \in Jobs : hold[i] = "none" => hold'[i] = "none"
    BY <1>5 DEF Finish, Releases, vars
  <2> QED BY <1>5, <2>1 DEF Finish
<1>6. CASE ResponseCloses(j)
  <2>1. /\ UNCHANGED <<stage, answer, at, heard>>
        /\ \A i \in Jobs : hold[i] = "none" => hold'[i] = "none"
    BY <1>6 DEF ResponseCloses, Releases, vars
  <2> QED BY <2>1
<1> QED BY <1>1, <1>2, <1>3, <1>4, <1>5, <1>6 DEF Handle

LEMMA RequestStep ==
  ASSUME TypeOK, SInv, OwnTypes, [DaemonNext]_daemonVars, NEW e \in Jobs, ReqInv(e)
  PROVE  ReqInv(e)'
<1>1. ASSUME NEW j \in Jobs, Handle(j) PROVE ReqInv(e)'
  BY <1>1, RequestHandle
<1>2. ASSUME NEW j \in Jobs, Submits(j) \/ Works(j) \/ Delivered(j) PROVE ReqInv(e)'
  <2>1. /\ UNCHANGED <<hold, at, answer, heard>>
        /\ \/ Offer(j) \/ ReserveSteer(j) \/ Take(j) \/ StartSteer(j) \/ FinishJob(j)
           \/ Settle(j) \/ SettleSteer(j)
    BY <1>2 DEF Submits, Works, Delivered, requests
  <2>2. \/ stage'[e] = stage[e]
        \/ stage[e] = "admitting" /\ stage'[e] \in {"queued", "refused"}
        \/ stage[e] \in Accepted /\ stage'[e] \in Accepted
    BY <2>1, StageMoves
  <2> QED BY <2>1, <2>2 DEF ReqInv, Accepted
<1>3. ASSUME UNCHANGED <<stage, hold, at, answer, heard>> PROVE ReqInv(e)'
  BY <1>3 DEF ReqInv
<1>4. ASSUME NEW j \in Jobs, Connect(j) \/ HangUp(j) PROVE ReqInv(e)'
  BY <1>3, <1>4 DEF Connect, HangUp, vars
<1>5. CASE StopStep
  <2>1. UNCHANGED <<stage, hold, at, answer, heard>>
    BY <1>5 DEF StopStep, ForceClose, ServerClosed, WaitForIdle, IdleTimesOut, EndIntake, Drain,
                Dispose, Stopped, StopAccepting, CountLanes, CountControl, requests, vars
  <2> QED BY <1>3, <2>1
<1>6. CASE EarlySignal \/ Listening \/ StartFails \/ Stop \/ CloseIdle \/ Tick \/ DrainDue
  <2>1. UNCHANGED <<stage, hold, at, answer, heard>>
    BY <1>6 DEF EarlySignal, Listening, StartFails, Stop, CloseIdle, Tick, DrainDue, PassDeadline,
                requests, vars
  <2> QED BY <1>3, <2>1
<1>7. CASE Exit \/ UNCHANGED daemonVars
  BY <1>3, <1>7 DEF Exit, daemonVars, requests, vars
<1> QED BY <1>1, <1>2, <1>4, <1>5, <1>6, <1>7 DEF DaemonNext

-----------------------------------------------------------------------------
(* The stop *)

Closed == {"idle", "waiting", "accepting", "draining", "disposing", "done"}

\* Where the stop is says what it has put an end to.
StopInv ==
  /\ phase = "ready" => stopping = "no"
  /\ phase = "starting" => stopping \in {"no", "failed"} /\ \A j \in Jobs : conn[j] = "none"
  /\ stopping \in Closed => NoConnection
  /\ drain = "serving" <=> stopping \notin {"draining", "disposing", "done"}
  /\ overdue => clock = "over"
  /\ drain = "gave-up" => overdue
  /\ TornDown => DrainOver

\* Who joined a lane after the last count of a drain hears no answer.
LateInv ==
  drain \in {"count-control", "drained"} => \A j \in late : ~heard[j]

LEMMA StopStays ==
  ASSUME StopInv, UNCHANGED <<phase, stopping, drain, overdue, clock>>,
         phase = "ready" \/ UNCHANGED conn \/ \A j \in Jobs : conn'[j] \in {conn[j], "closed"},
         phase = "starting" => UNCHANGED conn
  PROVE  StopInv'
BY DEF StopInv, NoConnection, TornDown, DrainOver, Closed

LEMMA StopHandle ==
  ASSUME StopInv, OwnTypes, NEW j \in Jobs, Handle(j)
  PROVE  StopInv'
<1> USE DEF StopInv, NoConnection, TornDown, DrainOver, Closed
<1>1. CASE Arrive(j) \/ Authorize(j) \/ Refuse(j) \/ Claim(j) \/ BodyFails(j) \/ Acknowledge(j)
           \/ AnswerLost(j)
  <2>1. UNCHANGED <<phase, stopping, drain, overdue, clock, conn>>
    BY <1>1 DEF Arrive, Authorize, Refuse, Claim, BodyFails, Acknowledge, AnswerLost, Submit, vars,
                daemon, control, stop
  <2> QED BY <2>1
<1>2. CASE Finish(j)
  <2>1. conn[j] = "open" /\ \A i \in Jobs : i # j => conn'[i] = conn[i]
    BY <1>2 DEF Finish, OwnTypes
  <2>2. UNCHANGED <<phase, drain, overdue, clock>> /\ stopping \notin Closed /\ stopping' = stopping
    BY <1>2, <2>1 DEF Finish, Releases, WakesIdle, vars, stop
  <2>3. phase # "starting"
    BY <2>1
  <2> QED BY <2>2, <2>3
<1>3. CASE ResponseCloses(j)
  <2>1. /\ UNCHANGED <<phase, drain, overdue, clock, conn>>
        /\ stopping' = stopping \/ (stopping = "waiting" /\ stopping' = "accepting")
    BY <1>3 DEF ResponseCloses, Releases, WakesIdle, vars, stop
  <2> QED BY <2>1
<1> QED BY <1>1, <1>2, <1>3 DEF Handle

LEMMA StopOwnStep ==
  ASSUME StopInv, OwnTypes, StopStep
  PROVE  StopInv'
<1> USE DEF StopInv, NoConnection, TornDown, DrainOver, Closed
<1>1. CASE ForceClose
  BY <1>1 DEF ForceClose, vars, stop
<1>2. CASE ServerClosed
  BY <1>2 DEF ServerClosed, vars, stop, requests
<1>3. CASE WaitForIdle \/ IdleTimesOut
  BY <1>3 DEF WaitForIdle, IdleTimesOut, vars, stop, requests
<1>4. CASE EndIntake
  BY <1>4 DEF EndIntake, StopAccepting, requests
<1>5. CASE Drain
  <2>1. /\ UNCHANGED <<phase, stopping, clock, conn, overdue>> /\ stopping = "draining"
        /\ drain' \in {"count-lanes", "count-control", "drained", "gave-up"}
        /\ drain' = "gave-up" => overdue
    BY <1>5 DEF Drain, CountLanes, CountControl, Due, requests, daemon
  <2> QED BY <2>1
<1>6. CASE Dispose \/ Stopped
  BY <1>6 DEF Dispose, Stopped, vars, stop, requests
<1> QED BY <1>1, <1>2, <1>3, <1>4, <1>5, <1>6 DEF StopStep

LEMMA StopInvStep ==
  ASSUME StopInv, OwnTypes, [DaemonNext]_daemonVars
  PROVE  StopInv'
<1>1. ASSUME NEW j \in Jobs, Handle(j) PROVE StopInv'
  BY <1>1, StopHandle
<1>2. ASSUME NEW j \in Jobs, Submits(j) \/ Works(j) \/ Delivered(j) PROVE StopInv'
  <2>1. UNCHANGED <<phase, stopping, drain, overdue, clock, conn>>
    BY <1>2 DEF Submits, Works, Delivered, Offer, ReserveSteer, Take, StartSteer, Settle, SettleSteer,
                FinishJob, stop, requests, daemon
  <2> QED BY <2>1, StopStays
<1>3. ASSUME NEW j \in Jobs, Connect(j) \/ HangUp(j) PROVE StopInv'
  <2>1. UNCHANGED <<phase, stopping, drain, overdue, clock>>
    BY <1>3 DEF Connect, HangUp, vars, stop, daemon
  <2>2. CASE Connect(j)
    BY <2>1, <2>2, StopStays DEF Connect
  <2>3. CASE HangUp(j)
    <3>1. \A i \in Jobs : conn'[i] \in {conn[i], "closed"}
      BY <2>3 DEF HangUp, OwnTypes
    <3>2. phase # "starting"
      BY <2>3 DEF HangUp, StopInv
    <3> QED BY <2>1, <3>1, <3>2, StopStays
  <2> QED BY <1>3, <2>2, <2>3
<1>4. CASE StopStep
  BY <1>4, StopOwnStep
<1>5. CASE EarlySignal \/ Tick \/ Listening \/ StartFails \/ DrainDue
  BY <1>5 DEF EarlySignal, Tick, Listening, StartFails, DrainDue, PassDeadline, StopInv, NoConnection,
              TornDown, DrainOver, Closed, vars, requests, daemon, stop
<1>6. CASE Stop
  BY <1>6 DEF Stop, StopInv, NoConnection, TornDown, DrainOver, Closed, vars, stop
<1>7. CASE CloseIdle
  <2>1. /\ UNCHANGED <<phase, stopping, drain, overdue, clock>>
        /\ \A j \in Jobs : conn'[j] \in {conn[j], "closed"}
        /\ phase # "starting"
    BY <1>7 DEF CloseIdle, CloseAll, vars, stop, daemon, StopInv
  <2> QED BY <2>1, StopStays
<1>8. CASE Exit \/ UNCHANGED daemonVars
  <2>1. UNCHANGED <<phase, stopping, drain, overdue, clock, conn>>
    BY <1>8 DEF Exit, daemonVars, vars, stop, daemon, requests
  <2> QED BY <2>1, StopStays
<1> QED BY <1>1, <1>2, <1>3, <1>4, <1>5, <1>6, <1>7, <1>8 DEF DaemonNext

LEMMA LateStep ==
  ASSUME StopInv, LateInv, OwnTypes, [DaemonNext]_daemonVars,
         \A j \in Jobs : ReqInv(j), late \subseteq QueueJobs
  PROVE  LateInv'
<1>1. ASSUME NEW j \in Jobs, Handle(j) PROVE LateInv'
  <2>1. UNCHANGED <<drain, late>>
    BY <1>1 DEF Handle, Arrive, Authorize, Refuse, Claim, BodyFails, Acknowledge, Finish, AnswerLost,
                ResponseCloses, Submit, stop, vars
  <2>2. heard' = heard \/ conn[j] = "open"
    BY <1>1 DEF Handle, Arrive, Authorize, Refuse, Claim, BodyFails, Acknowledge, Finish, AnswerLost,
                ResponseCloses
  <2>3. conn[j] = "open" => drain = "serving"
    BY DEF StopInv, Closed, NoConnection
  <2> QED BY <2>1, <2>2, <2>3 DEF LateInv
<1>2. ASSUME NEW j \in Jobs, Submits(j) \/ Works(j) \/ Delivered(j) PROVE LateInv'
  <2>1. UNCHANGED <<drain, heard>> /\ (late' = late \/ (stage[j] = "admitting" /\ late' = late \cup {j}))
    <3>1. CASE Offer(j)
      BY <1>2, <3>1 DEF Submits, Works, Delivered, Offer, stop, requests
    <3>2. CASE ReserveSteer(j) \/ Take(j) \/ StartSteer(j) \/ Settle(j) \/ SettleSteer(j)
               \/ FinishJob(j)
      BY <1>2, <3>2 DEF Submits, Works, Delivered, ReserveSteer, Take, StartSteer, Settle,
                        SettleSteer, FinishJob, stop, requests
    <3> QED BY <1>2, <3>1, <3>2 DEF Submits, Works, Delivered
  <2>2. stage[j] = "admitting" => ~heard[j]
    BY DEF ReqInv
  <2> QED BY <2>1, <2>2 DEF LateInv
<1>3. ASSUME UNCHANGED <<drain, late, heard>> PROVE LateInv'
  BY <1>3 DEF LateInv
<1>4. ASSUME NEW j \in Jobs, Connect(j) \/ HangUp(j) PROVE LateInv'
  BY <1>3, <1>4 DEF Connect, HangUp, vars, stop
<1>5. CASE Drain
  BY <1>5 DEF Drain, CountLanes, CountControl, LateInv, requests
<1>6. CASE EndIntake
  BY <1>6 DEF EndIntake, StopAccepting, LateInv
<1>7. CASE ForceClose \/ ServerClosed \/ WaitForIdle \/ IdleTimesOut \/ Dispose \/ Stopped
  BY <1>3, <1>7 DEF ForceClose, ServerClosed, WaitForIdle, IdleTimesOut, Dispose, Stopped, requests,
                    vars, stop
<1>8. CASE EarlySignal \/ Listening \/ StartFails \/ Stop \/ CloseIdle \/ Tick \/ DrainDue
  BY <1>3, <1>8 DEF EarlySignal, Listening, StartFails, Stop, CloseIdle, Tick, DrainDue,
                    PassDeadline, requests, vars, stop
<1>9. CASE Exit \/ UNCHANGED daemonVars
  BY <1>3, <1>9 DEF Exit, daemonVars, requests, vars, stop
<1> QED BY <1>1, <1>2, <1>4, <1>5, <1>6, <1>7, <1>8, <1>9 DEF DaemonNext, StopStep

-----------------------------------------------------------------------------
\* The inductive invariant of the daemon.
DaemonInv ==
  /\ LanesInv
  /\ OwnTypes
  /\ active \in Nat /\ CountsRequests
  /\ \A j \in Jobs : ReqInv(j)
  /\ StopInv
  /\ LateInv

LEMMA DaemonStarts == DaemonInit => DaemonInv
<1> SUFFICES ASSUME DaemonInit PROVE DaemonInv
  OBVIOUS
<1>1. LanesInv
  BY LanesInit DEF DaemonInit
<1>2. OwnTypes
  BY DEF DaemonInit, OwnTypes, Phases, Stops, Clocks, Holds, Conns, Places, Codes
<1>3. active \in Nat /\ CountsRequests
  <2>1. {j \in Jobs : hold[j] = "held"} = {}
    BY DEF DaemonInit
  <2> QED BY <2>1, FS_EmptySet DEF DaemonInit, CountsRequests
<1>4. \A j \in Jobs : ReqInv(j)
  BY DEF DaemonInit, Init, ReqInv
<1>5. StopInv /\ LateInv
  BY DEF DaemonInit, Init, StopInv, LateInv, Closed, TornDown
<1> QED BY <1>1, <1>2, <1>3, <1>4, <1>5 DEF DaemonInv

LEMMA DaemonSteps == DaemonInv /\ [DaemonNext]_daemonVars => DaemonInv'
<1> SUFFICES ASSUME DaemonInv, [DaemonNext]_daemonVars PROVE DaemonInv'
  OBVIOUS
<1>1. LanesInv' /\ OwnTypes'
  BY LanesStep, DaemonLanes, OwnTypesStep DEF DaemonInv
<1>2. CountsRequests' /\ active' \in Nat
  BY CountStep DEF DaemonInv, ReqInv
<1>3. \A j \in Jobs : ReqInv(j)'
  BY RequestStep DEF DaemonInv, LanesInv
<1>4. StopInv' /\ LateInv'
  BY StopInvStep, LateStep DEF DaemonInv, LanesInv, TypeOK
<1> QED BY <1>1, <1>2, <1>3, <1>4 DEF DaemonInv

LEMMA DaemonInvariant == DaemonSpec => []DaemonInv
BY DaemonStarts, DaemonSteps, PTL DEF DaemonSpec

\* The daemon's counters are what they count: the requests that hold the
\* lifecycle, the lanes, their queues and the steers, each within its limit.
THEOREM CountersAreExact == DaemonSpec => []CountersHold
<1>1. DaemonInv => CountersHold
  BY BoundedFollows DEF DaemonInv, LanesInv, OwnTypes, CountersHold, DaemonTypeOK
<1> QED BY <1>1, DaemonInvariant, PTL

\* A stop that ends within its grace leaves nothing acknowledged behind.
THEOREM AcknowledgedIsDone == DaemonSpec => []AcknowledgedDone
<1>1. ASSUME DaemonInv, TornDown, clock # "over",
             NEW j \in Jobs, heard[j], answer[j] = "202"
      PROVE  stage[j] = "finished"
  <2>1. drain = "drained"
    BY <1>1 DEF DaemonInv, StopInv, DrainOver
  <2>2. j \notin Unfinished(Jobs)
    BY <1>1, <2>1, DrainedFollows DEF DaemonInv, LanesInv, LateInv, DrainedMeansDone
  <2>3. stage[j] \in Accepted
    BY <1>1 DEF DaemonInv, ReqInv
  <2> QED BY <2>2, <2>3 DEF Unfinished
<1>2. DaemonInv => AcknowledgedDone
  BY <1>1 DEF AcknowledgedDone
<1> QED BY <1>2, DaemonInvariant, PTL

\* A client that can still be answered loses no use of a URL to the shutdown:
\* while a connection is open, Delivery takes messages.
THEOREM NoUseLost == DaemonSpec => NoUseLostToShutdown
<1>1. ASSUME DaemonInv, NEW j \in Jobs, conn[j] = "open" PROVE accepting
  <2>1. drain = "serving"
    BY <1>1 DEF DaemonInv, StopInv, Closed, NoConnection
  <2> QED BY <1>1, <2>1 DEF DaemonInv, LanesInv, DInv
<1>2. DaemonInv => RefusedForCapacity
  BY <1>1 DEF RefusedForCapacity
<1> QED BY <1>2, DaemonInvariant, PTL DEF NoUseLostToShutdown
=============================================================================

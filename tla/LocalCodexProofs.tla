--------------------------- MODULE LocalCodexProofs ---------------------------
(***************************************************************************)
(* Proofs about RpcPeer, that a waiting call can still be told and that    *)
(* mutations keep the coordinator's contract; and about LocalCodexBinding  *)
(* around it: that its bindings leave the peer what it promises, that they *)
(* leave nothing behind, and that a working connection is not taken away.  *)
(***************************************************************************)
EXTENDS LocalCodexBinding, TLAPS

LEMMA TypeInit == Init => TypeOK
BY DEF Init, TypeOK, PCs, Slots, Truths, Flights

LEMMA TypeCall ==
  ASSUME TypeOK, NEW c \in Calls, Step(c)
  PROVE  TypeOK'
<1> USE DEF TypeOK, Goes, Ends, Drop, LeaveMap, PCs, Truths, peer, call, wire
<1>1. CASE Start(c)          BY <1>1 DEF Start
<1>2. CASE Prepare(c)        BY <1>2 DEF Prepare
<1>3. CASE Submit(c)         BY <1>3 DEF Submit, Flights
<1>4. CASE Written(c) \/ WriteFails(c) \/ WriteCut(c)
  BY <1>4 DEF Written, WriteFails, WriteCut, WriteError
<1>5. CASE Reply(c)
  <2>1. Classify(slot[c]) \in Truths
    BY DEF Classify
  <2> QED BY <1>5, <2>1 DEF Reply
<1>6. CASE ReplyTimesOut(c)  BY <1>6 DEF ReplyTimesOut
<1>7. CASE Interrupt(c)      BY <1>7 DEF Interrupt
<1>8. CASE Receive(c)        BY <1>8 DEF Receive, Slots
<1>9. CASE Serve(c) \/ Lose(c)
  BY <1>9 DEF Serve, Lose, Flights, Slots
<1> QED BY <1>1, <1>2, <1>3, <1>4, <1>5, <1>6, <1>7, <1>8, <1>9 DEF Step

LEMMA TypeStep == TypeOK /\ [Next]_vars => TypeOK'
<1> SUFFICES ASSUME TypeOK, [Next]_vars PROVE TypeOK'
  OBVIOUS
<1>1. CASE \E c \in Calls : Step(c)
  BY <1>1, TypeCall
<1>2. CASE Down
  BY <1>2 DEF Down, Failed, TypeOK, Slots, wire
<1>3. CASE Dispose \/ Break
  BY <1>3 DEF Dispose, Break, TypeOK, call, wire
<1>4. CASE UNCHANGED vars
  BY <1>4 DEF vars, TypeOK
<1> QED BY <1>1, <1>2, <1>3, <1>4 DEF Next, Quiescent

\* Every variable of the peer keeps its type.
THEOREM TypeCorrect == Spec => []TypeOK
BY TypeInit, TypeStep, PTL DEF Spec

-----------------------------------------------------------------------------
(* A waiting call can be told *)

\* The map empties for good when the disconnect is announced.
WakeInv ==
  /\ Wakeable
  /\ lost => ~alive /\ pending = {}
  /\ \A c \in Calls : pc[c] \in {"new", "ready"} => slot[c] = "empty" /\ c \notin pending

LEMMA WakeCall ==
  ASSUME TypeOK, WakeInv, NEW c \in Calls, Step(c)
  PROVE  WakeInv'
<1> USE DEF TypeOK, WakeInv, Wakeable, Waiting, Goes, Ends, Drop, LeaveMap, peer, call, wire
<1>1. CASE Start(c)          BY <1>1 DEF Start
<1>2. CASE Prepare(c)        BY <1>2 DEF Prepare, Usable
<1>3. CASE Submit(c)         BY <1>3 DEF Submit
<1>4. CASE Written(c) \/ WriteFails(c) \/ WriteCut(c)
  BY <1>4 DEF Written, WriteFails, WriteCut
<1>5. CASE Reply(c) \/ ReplyTimesOut(c)
  BY <1>5 DEF Reply, ReplyTimesOut
<1>6. CASE Interrupt(c)      BY <1>6 DEF Interrupt
<1>7. CASE Receive(c)        BY <1>7 DEF Receive
<1>8. CASE Serve(c) \/ Lose(c)
  BY <1>8 DEF Serve, Lose
<1> QED BY <1>1, <1>2, <1>3, <1>4, <1>5, <1>6, <1>7, <1>8 DEF Step

\* A call that has heard nothing is in the map, and no disconnect was missed.
THEOREM WakeableHolds == Spec => []Wakeable
<1>1. Init => WakeInv
  BY DEF Init, WakeInv, Wakeable, Waiting
<1>2. TypeOK /\ WakeInv /\ [Next]_vars => WakeInv'
  <2> SUFFICES ASSUME TypeOK, WakeInv, [Next]_vars PROVE WakeInv'
    OBVIOUS
  <2>1. CASE \E c \in Calls : Step(c)
    BY <2>1, WakeCall
  <2>2. CASE Down
    BY <2>2 DEF Down, Failed, TypeOK, WakeInv, Wakeable, Waiting, wire
  <2>3. CASE Dispose \/ Break
    BY <2>3 DEF Dispose, Break, WakeInv, Wakeable, Waiting, call, wire
  <2>4. CASE UNCHANGED vars
    BY <2>4 DEF vars, WakeInv, Wakeable, Waiting
  <2> QED BY <2>1, <2>2, <2>3, <2>4 DEF Next, Quiescent
<1> QED BY <1>1, <1>2, TypeCorrect, PTL DEF Spec, WakeInv

-----------------------------------------------------------------------------
(* The contract *)

\* What each place of the fiber knows of the request, and what a reply or a
\* settled slot proves.
Knows(c) ==
  /\ pc[c] \in {"new", "ready", "prepared"} => flight[c] = "none" /\ truth[c] = "none"
  /\ pc[c] \in {"writing", "reply"} => truth[c] = "none" /\ flight[c] # "none"
  /\ pc[c] = "done" => truth[c] # "none"
  /\ answer[c] # "empty" \/ slot[c] \in {"ok", "garbled", "error"} => flight[c] # "none"
  /\ answer[c] \in {"empty", "ok", "garbled", "error"}
  /\ answer[c] = "ok" \/ slot[c] = "ok" => flight[c] = "served"
  /\ answer[c] = "error" \/ slot[c] = "error" => flight[c] = "refused"
  /\ truth[c] = "unavailable" => flight[c] = "none"
  /\ truth[c] = "confirmed-app-server" => flight[c] = "served"
  /\ truth[c] = "rejected" => flight[c] = "refused"
KInv == \A c \in Calls : Knows(c)

LEMMA KnowsCall ==
  ASSUME TypeOK, KInv, NEW c \in Calls, Step(c), NEW e \in Calls
  PROVE  Knows(e)'
<1> Knows(c) /\ Knows(e)
  BY DEF KInv
<1> USE DEF TypeOK, Knows, Goes, Ends, Drop, LeaveMap, Slots, peer, call, wire
<1>1. CASE Start(c)          BY <1>1 DEF Start
<1>2. CASE Prepare(c)        BY <1>2 DEF Prepare
<1>3. CASE Submit(c)         BY <1>3 DEF Submit
<1>4. CASE Written(c)        BY <1>4 DEF Written
<1>5. CASE WriteFails(c) \/ WriteCut(c)
  BY <1>5 DEF WriteFails, WriteCut, WriteError
<1>6. CASE Reply(c)
  <2>1. /\ Classify(slot[c]) \in {"confirmed-app-server", "rejected", "ambiguous"}
        /\ Classify(slot[c]) = "confirmed-app-server" => slot[c] = "ok"
        /\ Classify(slot[c]) = "rejected" => slot[c] = "error"
    BY DEF Classify
  <2> HIDE DEF Classify
  <2> QED BY <1>6, <2>1 DEF Reply
<1>7. CASE ReplyTimesOut(c)  BY <1>7 DEF ReplyTimesOut, TimerFires
<1>8. CASE Interrupt(c)      BY <1>8 DEF Interrupt
<1>9. CASE Receive(c)        BY <1>9 DEF Receive
<1>10. CASE Serve(c) \/ Lose(c)
  BY <1>10 DEF Serve, Lose
<1> QED BY <1>1, <1>2, <1>3, <1>4, <1>5, <1>6, <1>7, <1>8, <1>9, <1>10 DEF Step

LEMMA KnowsStep == TypeOK /\ KInv /\ [Next]_vars => KInv'
<1> SUFFICES ASSUME TypeOK, KInv, [Next]_vars, NEW e \in Calls PROVE Knows(e)'
  BY DEF KInv
<1> Knows(e)
  BY DEF KInv
<1>1. CASE \E c \in Calls : Step(c)
  BY <1>1, KnowsCall
<1>2. CASE Down
  BY <1>2 DEF Down, Failed, TypeOK, Knows, wire
<1>3. CASE Dispose \/ Break
  BY <1>3 DEF Dispose, Break, Knows, call, wire
<1>4. CASE UNCHANGED vars
  BY <1>4 DEF vars, Knows
<1> QED BY <1>1, <1>2, <1>3, <1>4 DEF Next, Quiescent

LEMMA KnowsInvariant == Spec => []KInv
<1>1. Init => KInv
  BY DEF Init, KInv, Knows
<1> QED BY <1>1, KnowsStep, TypeCorrect, PTL DEF Spec

F == [c \in Mutations |-> EffectOf(flight[c])]
A == [c \in Mutations |-> MutationOutcome(truth[c])]

\* A step of one call leaves the requests and answers of the others alone.
LEMMA OthersStay ==
  ASSUME TypeOK, NEW c \in Calls, Step(c), NEW e \in Calls, e # c
  PROVE  flight'[e] = flight[e] /\ truth'[e] = truth[e]
BY DEF Step, TypeOK, Goes, Ends, peer, call, wire, Start, Prepare, Submit, Written, WriteFails,
       WriteCut, Reply, ReplyTimesOut, Interrupt, Receive, Serve, Lose

\* What a step does to its own request and answer: nothing, a write, an
\* effect, or an answer the contract allows.
LEMMA OwnEntry ==
  ASSUME TypeOK, KInv, NEW c \in Mutations, Step(c)
  PROVE  \/ flight'[c] = flight[c] /\ truth'[c] = truth[c]
         \/ flight[c] = "none" /\ truth[c] = "none" /\ flight'[c] = "sent" /\ truth'[c] = truth[c]
         \/ /\ flight[c] = "sent" /\ flight'[c] \in {"served", "refused", "lost"}
            /\ truth'[c] = truth[c]
         \/ truth[c] = "none" /\ truth'[c] # "none" /\ flight'[c] = flight[c]
<1> c \in Calls /\ Knows(c)
  BY DEF KInv, Calls
<1> USE DEF TypeOK, Knows, Goes, Ends, peer, call, wire
<1>1. CASE Start(c)          BY <1>1 DEF Start
<1>2. CASE Prepare(c)        BY <1>2 DEF Prepare
<1>3. CASE Submit(c)         BY <1>3 DEF Submit
<1>4. CASE Written(c) \/ WriteFails(c) \/ WriteCut(c)
  BY <1>4 DEF Written, WriteFails, WriteCut, WriteError
<1>5. CASE Reply(c)
  <2>1. Classify(slot[c]) # "none"
    BY DEF Classify
  <2> QED BY <1>5, <2>1 DEF Reply
<1>6. CASE ReplyTimesOut(c) \/ Interrupt(c)
  BY <1>6 DEF ReplyTimesOut, TimerFires, Interrupt
<1>7. CASE Receive(c)        BY <1>7 DEF Receive
<1>8. CASE Serve(c) \/ Lose(c)
  BY <1>8 DEF Serve, Lose
<1> QED BY <1>1, <1>2, <1>3, <1>4, <1>5, <1>6, <1>7, <1>8 DEF Step

\* The same, in the contract's words.
LEMMA ContractCall ==
  ASSUME TypeOK, KInv, KInv', TypeOK', NEW c \in Calls, Step(c)
  PROVE  [Contract!Next]_(Contract!contractVars)
<1> SUFFICES (F' = F /\ A' = A) \/ Contract!Next
  BY DEF Contract!contractVars, F, A
<1>1. CASE c \notin Mutations
  <2>1. \A e \in Mutations : flight'[e] = flight[e] /\ truth'[e] = truth[e]
    BY <1>1, OthersStay DEF Calls
  <2> QED BY <2>1 DEF F, A
<1>2. CASE c \in Mutations
  <2>1. \A e \in Mutations \ {c} : EffectOf(flight'[e]) = EffectOf(flight[e])
                                   /\ MutationOutcome(truth'[e]) = MutationOutcome(truth[e])
    BY OthersStay DEF Calls
  <2>2. F' = [F EXCEPT ![c] = EffectOf(flight'[c])]
    BY <2>1, Zenon DEF F
  <2>3. A' = [A EXCEPT ![c] = MutationOutcome(truth'[c])]
    BY <2>1, Zenon DEF A
  <2>4. CASE flight'[c] = flight[c] /\ truth'[c] = truth[c]
    BY <2>1, <2>4 DEF F, A
  <2>5. CASE flight'[c] = flight[c] /\ truth'[c] # truth[c]
    <3>1. truth[c] = "none" /\ truth'[c] # "none"
      BY <1>2, <2>5, OwnEntry
    <3>2. F' = F
      BY <2>1, <2>5 DEF F
    <3>3. MutationOutcome(truth[c]) = "none"
      BY <3>1 DEF MutationOutcome
    <3>4. /\ MutationOutcome(truth'[c]) \in {"Confirmed", "Rejected", "NotSubmitted", "Ambiguous"}
          /\ MutationOutcome(truth'[c]) = "Confirmed" => truth'[c] = "confirmed-app-server"
          /\ MutationOutcome(truth'[c]) = "NotSubmitted" => truth'[c] = "unavailable"
          /\ MutationOutcome(truth'[c]) = "Rejected" => truth'[c] = "rejected"
      BY <3>1 DEF MutationOutcome
    <3>5. Knows(c)'
      BY DEF KInv
    <3>6. Contract!Allowed(MutationOutcome(truth'[c]), EffectOf(flight[c]))
      BY <2>5, <3>4, <3>5 DEF Contract!Allowed, EffectOf, Knows
    <3>7. Contract!Answer(c)
      BY <1>2, <2>3, <3>2, <3>3, <3>4, <3>6 DEF Contract!Answer, F, A
    <3> QED BY <1>2, <3>7 DEF Contract!Next
  <2>6. CASE flight'[c] # flight[c]
    <3>1. truth'[c] = truth[c]
      BY <1>2, <2>6, OwnEntry
    <3>2. A' = A
      BY <2>1, <3>1 DEF A
    <3>3. CASE flight[c] = "none" /\ truth[c] = "none" /\ flight'[c] = "sent"
      <4>1. EffectOf(flight[c]) = "none" /\ EffectOf(flight'[c]) = "possible"
            /\ MutationOutcome(truth[c]) = "none"
        BY <3>3 DEF EffectOf, MutationOutcome
      <4>2. Contract!Write(c)
        BY <1>2, <2>2, <3>2, <4>1 DEF Contract!Write, F, A
      <4> QED BY <1>2, <4>2 DEF Contract!Next
    <3>4. CASE flight[c] = "sent" /\ flight'[c] \in {"served", "refused", "lost"}
      <4>1. EffectOf(flight[c]) = "possible" /\ EffectOf(flight'[c]) \in {"done", "gone"}
        BY <3>4 DEF EffectOf
      <4>2. Contract!Settle(c)
        BY <1>2, <2>2, <3>2, <4>1 DEF Contract!Settle, F, A
      <4> QED BY <1>2, <4>2 DEF Contract!Next
    <3> QED BY <1>2, <2>6, <3>3, <3>4, OwnEntry
  <2> QED BY <2>4, <2>5, <2>6
<1> QED BY <1>1, <1>2

\* The app-server route keeps the contract: no write after the answer, and no
\* answer that denies a write which can still take effect.
THEOREM KeepsContractHolds == Spec => KeepsContract
<1>1. Init => Contract!Init
  BY DEF Init, Contract!Init, EffectOf, MutationOutcome, Calls
<1>2. TypeOK /\ TypeOK' /\ KInv /\ KInv' /\ [Next]_vars => [Contract!Next]_(Contract!contractVars)
  <2> SUFFICES ASSUME TypeOK, TypeOK', KInv, KInv', [Next]_vars
               PROVE  [Contract!Next]_(Contract!contractVars)
    OBVIOUS
  <2>1. CASE \E c \in Calls : Step(c)
    BY <2>1, ContractCall
  <2>2. CASE Down \/ Dispose \/ Break \/ UNCHANGED vars
    BY <2>2 DEF Down, Dispose, Break, vars, call, wire, Contract!contractVars
  <2> QED BY <2>1, <2>2 DEF Next, Quiescent
<1> QED BY <1>1, <1>2, TypeCorrect, KnowsInvariant, PTL DEF Spec, KeepsContract, Contract!Spec

-----------------------------------------------------------------------------
(* The binding loop and the peer *)

\* Of the peer, the loop and the daemon only dispose of it.
LEMMA Releasing ==
  ASSUME NEW b, ReleaseConn(b)
  PROVE  Dispose \/ UNCHANGED vars
BY DEF ReleaseConn

LEMMA PeerSteps ==
  [BindingNext]_bindingVars =>
    Dispose \/ UNCHANGED vars \/ Down \/ Break \/ \E c \in Calls : Step(c)
<1> SUFFICES ASSUME [BindingNext]_bindingVars
             PROVE  Dispose \/ UNCHANGED vars \/ Down \/ Break \/ \E c \in Calls : Step(c)
  OBVIOUS
<1>1. CASE Acquire \/ Defect
  BY <1>1 DEF Acquire, Defect, Discover, Unreachable, Open, Reject, TrialOver, Accept, NoneLeft,
              Abandon
<1>2. CASE LoopStep
  BY <1>2, Releasing DEF LoopStep, Swap, ClosePrevious, PreviousClosed, Wake, StillBound, Replace
<1>3. CASE CloseLayer \/ Interrupted \/ Gone
  BY <1>3 DEF CloseLayer, Interrupted, Gone
<1>4. ASSUME NEW b \in Bindings, CloseChild(b) \/ ConnClosed(b) \/ ConnLost(b)
      PROVE  Dispose \/ UNCHANGED vars
  BY <1>4, Releasing DEF CloseChild, ConnClosed, ConnLost
<1>5. ASSUME NEW c \in Calls, Begin(c) \/ Call(c) PROVE Step(c)
  BY <1>5 DEF Begin, Call, Step
<1>6. CASE Connection \/ Over \/ UNCHANGED bindingVars
  BY <1>6 DEF Connection, Over, bindingVars
<1> QED BY <1>1, <1>2, <1>3, <1>4, <1>5, <1>6 DEF BindingNext

\* The peer of a binding takes RpcPeer's steps and no others, whatever the
\* loop and the daemon do to the binding: what holds of RpcPeer holds here.
THEOREM BindingImplementsPeer == BindingSpec => Spec
<1>1. BindingInit => Init
  BY DEF BindingInit
<1>2. [BindingNext]_bindingVars => [Next]_vars
  BY PeerSteps DEF Next
<1> QED BY <1>1, <1>2, PTL DEF BindingSpec, Spec

\* A call on a binding that is taken away can still be told.
THEOREM WakeableOnBinding == BindingSpec => []Wakeable
BY BindingImplementsPeer, WakeableHolds, PTL

\* Mutations keep the coordinator's contract while bindings come and go.
THEOREM KeepsContractOnBinding == BindingSpec => KeepsContract
BY BindingImplementsPeer, KeepsContractHolds, PTL

-----------------------------------------------------------------------------
(* Scopes and connections *)

\* What the loop holds in each of its places.
LoopInv ==
  /\ loop \in {"discover", "try", "abandon", "swap"} => next \in Bindings /\ previous = NoBinding
  /\ loop \in {"discover", "try", "abandon"} => conn[next] \notin {"up", "lost"}
  /\ loop \in {"wait", "check"} => next = NoBinding /\ previous = NoBinding
  /\ loop = "close" => next = NoBinding /\ previous \in Bindings

OrphanInv == NoOrphan /\ LoopInv

LEMMA OrphanStart == BindingInit => OrphanInv
<1> SUFFICES ASSUME BindingInit PROVE OrphanInv
  OBVIOUS
<1>1. next \in Bindings
  BY BindingAssumption DEF BindingInit
<1> QED BY <1>1 DEF BindingInit, OrphanInv, NoOrphan, LoopInv, BindingTypeOK, Loops, Scopes, Conns

LEMMA OrphanAcquire ==
  ASSUME OrphanInv, Acquire \/ Defect
  PROVE  OrphanInv'
<1> USE DEF OrphanInv, NoOrphan, LoopInv, BindingTypeOK, Loops, Scopes, Conns
<1>1. CASE Discover \/ Unreachable
  BY <1>1 DEF Discover, Unreachable
<1>2. CASE Open \/ Reject \/ TrialOver
  BY <1>2 DEF Open, Reject, TrialOver
<1>3. CASE Accept
  BY <1>3 DEF Accept
<1>4. CASE NoneLeft \/ Defect
  BY <1>4 DEF NoneLeft, Defect
<1>5. CASE Abandon
  BY <1>5 DEF Abandon, CloseEmpty, AfterDefect
<1> QED BY <1>1, <1>2, <1>3, <1>4, <1>5 DEF Acquire

LEMMA OrphanLoop ==
  ASSUME OrphanInv, LoopStep
  PROVE  OrphanInv'
<1> USE DEF OrphanInv, NoOrphan, LoopInv, BindingTypeOK, Loops, Scopes, Conns
<1>1. CASE Swap \/ PreviousClosed
  BY <1>1 DEF Swap, PreviousClosed
<1>2. CASE ClosePrevious
  BY <1>2 DEF ClosePrevious, ReleaseConn
<1>3. CASE Wake \/ StillBound
  BY <1>3 DEF Wake, StillBound
<1>4. CASE Replace
  BY <1>4 DEF Replace, Free
<1> QED BY <1>1, <1>2, <1>3, <1>4 DEF LoopStep

LEMMA OrphanRest ==
  ASSUME OrphanInv,
         \/ CloseLayer \/ Interrupted \/ Gone \/ Connection
         \/ \E b \in Bindings : CloseChild(b) \/ ConnClosed(b) \/ ConnLost(b)
         \/ \E c \in Calls : Begin(c) \/ Call(c)
         \/ UNCHANGED bindingVars
  PROVE  OrphanInv'
<1> USE DEF OrphanInv, NoOrphan, LoopInv, BindingTypeOK, Loops, Scopes, Conns
<1>1. CASE CloseLayer \/ Interrupted
  BY <1>1 DEF CloseLayer, Interrupted, binding
<1>2. CASE Gone
  BY <1>2 DEF Gone, Forked, binding
<1>3. ASSUME NEW b \in Bindings, CloseChild(b) PROVE OrphanInv'
  BY <1>3 DEF CloseChild, Forked, ReleaseConn
<1>4. ASSUME NEW b \in Bindings, ConnClosed(b) \/ ConnLost(b) PROVE OrphanInv'
  BY <1>4 DEF ConnClosed, ConnLost
<1>5. ASSUME UNCHANGED <<binding, parent>> PROVE OrphanInv'
  BY <1>5 DEF binding
<1>6. ASSUME NEW c \in Calls, Begin(c) \/ Call(c) PROVE OrphanInv'
  BY <1>5, <1>6 DEF Begin, Call
<1>7. CASE Connection \/ UNCHANGED bindingVars
  BY <1>5, <1>7 DEF Connection, bindingVars
<1> QED BY <1>1, <1>2, <1>3, <1>4, <1>6, <1>7

LEMMA OrphanInvariant == BindingSpec => []OrphanInv
<1>1. OrphanInv /\ [BindingNext]_bindingVars => OrphanInv'
  BY OrphanAcquire, OrphanLoop, OrphanRest DEF BindingNext, Over
<1> QED BY <1>1, OrphanStart, PTL DEF BindingSpec

\* Nothing is left behind: scopes and connections belong to the binding in the
\* Ref, to the one being acquired or to the one being closed.
THEOREM NoOrphanHolds == BindingSpec => []NoOrphan
BY OrphanInvariant, PTL DEF OrphanInv

-----------------------------------------------------------------------------
(* A working connection is not taken away *)

\* The binding being replaced was found unusable, and stays so: nothing brings
\* a connection back, and what is acquired meanwhile has a name of its own.
StaleInv ==
  /\ loop \in {"discover", "try", "abandon", "swap"} =>
       next # current /\ ~Available(current)
  /\ loop = "close" => ~Available(previous)

\* A peer that is down does not come up again.
LEMMA UsableFalls == ASSUME [BindingNext]_bindingVars, Usable' PROVE Usable
<1>1. ASSUME NEW c \in Calls, Step(c) PROVE Usable
  BY <1>1 DEF Step, Start, Prepare, Submit, Written, WriteFails, WriteCut, Reply, ReplyTimesOut,
              Interrupt, Receive, Serve, Lose, peer, Usable
<1> QED BY <1>1, PeerSteps DEF Usable, Dispose, Down, Break, vars

LEMMA StaysStale ==
  ASSUME NEW b \in Bindings, [BindingNext]_bindingVars,
         conn'[b] = "up" => conn[b] = "up", fits'[b] => fits[b], b = watched => b = watched',
         ~Available(b)
  PROVE  ~Available(b)'
BY UsableFalls, BindingAssumption DEF Available, Alive

\* Only what is acquired gains anything.
LEMMA OnlyNextGains ==
  ASSUME OrphanInv, [BindingNext]_bindingVars, NEW b \in Bindings,
         b # next, loop # "check" \/ b = current \/ b = previous
  PROVE  /\ conn'[b] = "up" => conn[b] = "up"
         /\ fits'[b] => fits[b]
         /\ b = watched => b = watched'
<1> USE DEF OrphanInv, NoOrphan, LoopInv, BindingTypeOK
<1>1. ASSUME UNCHANGED <<conn, fits, watched>>
      PROVE  (conn'[b] = "up" => conn[b] = "up") /\ (fits'[b] => fits[b])
             /\ (b = watched => b = watched')
  BY <1>1
<1>2. CASE Acquire \/ Defect
  <2>1. CASE Accept
    BY <2>1, BindingAssumption DEF Accept
  <2> QED BY <1>1, <1>2, <2>1 DEF Acquire, Defect, Discover, Unreachable, Open, Reject, TrialOver,
                                  NoneLeft, Abandon
<1>3. CASE LoopStep
  <2>1. CASE ClosePrevious
    BY <2>1 DEF ClosePrevious, ReleaseConn
  <2>2. CASE Replace
    BY <2>2 DEF Replace, Free
  <2> QED BY <1>1, <1>3, <2>1, <2>2 DEF LoopStep, Swap, PreviousClosed, Wake, StillBound
<1>4. ASSUME NEW e \in Bindings, CloseChild(e) \/ ConnClosed(e) \/ ConnLost(e)
      PROVE  (conn'[b] = "up" => conn[b] = "up") /\ (fits'[b] => fits[b])
             /\ (b = watched => b = watched')
  BY <1>4 DEF CloseChild, ConnClosed, ConnLost, ReleaseConn
<1>5. CASE CloseLayer \/ Interrupted \/ Gone \/ Connection \/ Over \/ UNCHANGED bindingVars
  BY <1>1, <1>5 DEF CloseLayer, Interrupted, Gone, Connection, Over, bindingVars, binding
<1>6. ASSUME NEW c \in Calls, Begin(c) \/ Call(c) PROVE UNCHANGED <<conn, fits, watched>>
  BY <1>6 DEF Begin, Call, binding
<1> QED BY <1>1, <1>2, <1>3, <1>4, <1>5, <1>6 DEF BindingNext

\* How the loop and the Ref move.
LEMMA LoopMoves ==
  ASSUME OrphanInv, StaleInv, [BindingNext]_bindingVars
  PROVE  \/ loop' \in {loop, "wait", "check", "ended"} /\ UNCHANGED <<current, next, previous>>
         \/ loop' \in {"wait", "ended"}
         \/ /\ loop \in {"discover", "try"} /\ loop' \in {"try", "abandon", "swap"}
            /\ UNCHANGED <<current, next, previous>>
         \/ loop = "swap" /\ loop' = "close" /\ previous' = current /\ current' # previous'
         \/ /\ loop = "check" /\ loop' = "discover" /\ ~StaysBound
            /\ UNCHANGED <<current, previous>> /\ next' # current
<1>1. CASE Acquire \/ Defect
  BY <1>1 DEF Acquire, Defect, Discover, Unreachable, Open, Reject, TrialOver, Accept, NoneLeft,
              Abandon, AfterDefect
<1>2. CASE LoopStep
  BY <1>2 DEF LoopStep, Swap, ClosePrevious, PreviousClosed, Wake, StillBound, Replace, Free,
              StaleInv
<1>3. CASE CloseLayer \/ Interrupted \/ Gone \/ Connection \/ Over \/ UNCHANGED bindingVars
  BY <1>3 DEF CloseLayer, Interrupted, Gone, Connection, Over, bindingVars, binding
<1>4. ASSUME NEW b \in Bindings, CloseChild(b) \/ ConnClosed(b) \/ ConnLost(b)
      PROVE  loop' = loop /\ UNCHANGED <<current, next, previous>>
  BY <1>4 DEF CloseChild, ConnClosed, ConnLost
<1>5. ASSUME NEW c \in Calls, Begin(c) \/ Call(c)
      PROVE  loop' = loop /\ UNCHANGED <<current, next, previous>>
  BY <1>5 DEF Begin, Call, binding
<1> QED BY <1>1, <1>2, <1>3, <1>4, <1>5 DEF BindingNext

LEMMA StaleStep == OrphanInv /\ StaleInv /\ [BindingNext]_bindingVars => StaleInv'
<1> SUFFICES ASSUME OrphanInv, StaleInv, [BindingNext]_bindingVars PROVE StaleInv'
  OBVIOUS
<1>1. current \in Bindings \cup {NoBinding} /\ previous \in Bindings \cup {NoBinding}
  BY DEF OrphanInv, NoOrphan, BindingTypeOK
<1>2. ASSUME NEW b \in Bindings, b # next, loop # "check" \/ b = current \/ b = previous,
             ~Available(b)
      PROVE  ~Available(b)'
  BY <1>2, OnlyNextGains, StaysStale
<1>3. ~Available(NoBinding) /\ ~Available(NoBinding)'
  BY DEF Available
<1>4. CASE /\ loop' = loop /\ UNCHANGED <<current, next, previous>>
  <2>1. loop = "close" => previous # next
    BY BindingAssumption DEF OrphanInv, LoopInv
  <2> QED BY <1>1, <1>2, <1>3, <1>4, <2>1 DEF StaleInv
<1>5. CASE loop' \in {"wait", "check", "ended"}
  BY <1>5 DEF StaleInv
<1>6. CASE /\ loop \in {"discover", "try"} /\ loop' \in {"try", "abandon", "swap"}
           /\ UNCHANGED <<current, next, previous>>
  BY <1>1, <1>2, <1>3, <1>6 DEF StaleInv
<1>7. CASE loop = "swap" /\ loop' = "close" /\ previous' = current
  BY <1>1, <1>2, <1>3, <1>7 DEF StaleInv
<1>8. CASE /\ loop = "check" /\ loop' = "discover" /\ ~StaysBound
           /\ UNCHANGED <<current, previous>> /\ next' # current
  <2>1. next = NoBinding
    BY <1>8 DEF OrphanInv, LoopInv
  <2> QED BY <1>1, <1>2, <1>3, <1>8, <2>1, BindingAssumption DEF StaleInv, StaysBound
<1> QED BY <1>4, <1>5, <1>6, <1>7, <1>8, LoopMoves

\* The loop takes no working connection from under the operations on it.
THEOREM NoLiveSwapHolds == BindingSpec => NoLiveSwap
<1>1. BindingInit => StaleInv
  <2> SUFFICES ASSUME BindingInit PROVE StaleInv
    OBVIOUS
  <2>1. next \in Bindings
    BY BindingAssumption DEF BindingInit
  <2> QED BY <2>1, BindingAssumption DEF BindingInit, StaleInv, Available
<1>2. ASSUME OrphanInv, StaleInv, [BindingNext]_bindingVars,
             NEW b \in Bindings, Available(b), conn'[b] = "closing"
      PROVE  parent = "closed"
  <2>1. conn[b] = "up"
    BY <1>2 DEF Available, Alive
  <2> USE DEF OrphanInv, NoOrphan, LoopInv, BindingTypeOK
  <2>2. CASE Acquire \/ Defect
    BY <1>2, <2>1, <2>2 DEF Acquire, Defect, Discover, Unreachable, Open, Reject, TrialOver, Accept,
                            NoneLeft, Abandon
  <2>3. CASE LoopStep
    BY <1>2, <2>1, <2>3 DEF LoopStep, Swap, ClosePrevious, PreviousClosed, Wake, StillBound, Replace,
                            ReleaseConn, StaleInv
  <2>4. ASSUME NEW e \in Bindings, CloseChild(e) \/ ConnClosed(e) \/ ConnLost(e)
        PROVE  parent = "closed"
    BY <1>2, <2>1, <2>4 DEF CloseChild, ConnClosed, ConnLost
  <2>5. CASE CloseLayer \/ Interrupted \/ Gone \/ Connection \/ Over \/ UNCHANGED bindingVars
    BY <1>2, <2>1, <2>5 DEF CloseLayer, Interrupted, Gone, Connection, Over, bindingVars, binding
  <2>6. ASSUME NEW c \in Calls, Begin(c) \/ Call(c) PROVE conn' = conn
    BY <2>6 DEF Begin, Call, binding
  <2> QED BY <1>2, <2>1, <2>2, <2>3, <2>4, <2>5, <2>6 DEF BindingNext
<1>3. OrphanInv /\ StaleInv /\ [BindingNext]_bindingVars => [CutsNoLive]_bindingVars
  BY <1>2 DEF CutsNoLive
<1>4. BindingSpec => []StaleInv
  BY <1>1, StaleStep, OrphanInvariant, PTL DEF BindingSpec
<1> QED BY <1>3, <1>4, OrphanInvariant, PTL DEF BindingSpec, NoLiveSwap
=============================================================================

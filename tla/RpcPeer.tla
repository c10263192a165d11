------------------------------- MODULE RpcPeer -------------------------------
(***************************************************************************)
(* The JSON-RPC peer of one app-server connection and the two ways it is   *)
(* used: a mutation of LocalCodex.submit, which classifies what it knows   *)
(* of its write and cannot be interrupted while the write is in doubt, and *)
(* a query, which its caller may interrupt anywhere.  Replies, the write's *)
(* callback, the loss of the connection, the reply timeout and the close   *)
(* of the peer's scope all race.  The handshake is over.                   *)
(***************************************************************************)
EXTENDS Naturals

CONSTANTS Mutations, \* calls of LocalCodex.submit
          Queries    \* calls of peer.request

ASSUME PeerAssumption == Mutations \cap Queries = {}

Calls == Mutations \cup Queries

VARIABLES
  alive,    \* alive
  lost,     \* the disconnected Deferred has failed
  disposed, \* the scope's finalizer has run
  open,     \* connection.isAlive()
  pending,  \* the tickets whose reply slot is in the pending map
  pc,       \* where each call's fiber is
  slot,     \* its ticket's Deferred
  truth,    \* how the call was classified
  flight,   \* what became of the request
  answer    \* the reply line on its way back

peer == <<alive, lost, disposed, open>>
call == <<pending, pc, slot, truth>>
wire == <<flight, answer>>
vars == <<alive, lost, disposed, open, pending, pc, slot, truth, flight, answer>>

PCs     == {"new", "ready", "prepared", "writing", "reply", "done"}
Slots   == {"empty", "ok", "garbled", "error", "disconnected"}
Truths  == {"none", "confirmed-app-server", "rejected", "unavailable", "ambiguous",
            "interrupted"}
Flights == {"none", "sent", "served", "refused", "lost"}

Waiting(c) == pc[c] \in {"prepared", "writing", "reply"}
Goes(c, to) == pc' = [pc EXCEPT ![c] = to]
Ends(c, t) == pc' = [pc EXCEPT ![c] = "done"] /\ truth' = [truth EXCEPT ![c] = t]
Drop(c) == pending' = pending \ {c}

-----------------------------------------------------------------------------
(* Faulty variants, each in the place of one definition below *)

ForgetsWaiters(s) == s                     \* down clears the map but fails no slot
TrustsTheWrite(c) == "unavailable"         \* a failed write is taken for no write
NeverTimesOut(c) == FALSE

-----------------------------------------------------------------------------
Init ==
  /\ alive = TRUE /\ lost = FALSE /\ disposed = FALSE /\ open = TRUE
  /\ pending = {}
  /\ pc = [c \in Calls |-> "new"]
  /\ slot = [c \in Calls |-> "empty"]
  /\ truth = [c \in Calls |-> "none"]
  /\ flight = [c \in Calls |-> "none"]
  /\ answer = [c \in Calls |-> "empty"]

-----------------------------------------------------------------------------
(* The caller's fiber *)

\* submit first reads the task: without a usable client, if the read fails, or
\* if a steer finds no single active turn, nothing is submitted.
Start(c) ==
  /\ pc[c] = "new"
  /\ \/ Goes(c, "ready") /\ UNCHANGED truth
     \/ c \in Mutations /\ Ends(c, "unavailable")
  /\ UNCHANGED <<peer, pending, slot, wire>>

Usable == alive /\ open

Prepare(c) ==
  /\ pc[c] = "ready"
  /\ IF Usable
     THEN Goes(c, "prepared") /\ pending' = pending \cup {c} /\ UNCHANGED truth
     ELSE Ends(c, "unavailable") /\ UNCHANGED pending
  /\ UNCHANGED <<peer, slot, wire>>

StillUsable == Usable

\* submit: the connection is looked at again, then the bytes are handed over.
Submit(c) ==
  /\ pc[c] = "prepared"
  /\ IF StillUsable
     THEN /\ Goes(c, "writing")
          /\ flight' = [flight EXCEPT ![c] = "sent"]
          /\ UNCHANGED <<pending, truth>>
     ELSE Ends(c, "unavailable") /\ Drop(c) /\ UNCHANGED flight
  /\ UNCHANGED <<peer, slot, answer>>

\* The write's callback, called back without an error.
Written(c) ==
  /\ pc[c] = "writing"
  /\ Goes(c, "reply")
  /\ UNCHANGED <<peer, pending, slot, truth, wire>>

WriteError(c) == "ambiguous"

\* It is called back with an error, or write threw: the bytes may be out.
WriteFails(c) ==
  /\ pc[c] = "writing"
  /\ Ends(c, WriteError(c)) /\ Drop(c)
  /\ UNCHANGED <<peer, slot, wire>>

\* The disconnect wins the race against the callback.
WriteCut(c) ==
  /\ pc[c] = "writing" /\ lost
  /\ Ends(c, "ambiguous") /\ Drop(c)
  /\ UNCHANGED <<peer, slot, wire>>

Classify(s) ==
  CASE s = "ok" -> "confirmed-app-server"
    [] s = "error" -> "rejected"
    [] OTHER -> "ambiguous"

LeaveMap(c) == Drop(c)

Reply(c) ==
  /\ pc[c] = "reply" /\ slot[c] # "empty"
  /\ Ends(c, Classify(slot[c])) /\ LeaveMap(c)
  /\ UNCHANGED <<peer, slot, wire>>

TimerFires(c) == pc[c] = "reply"

ReplyTimesOut(c) ==
  /\ TimerFires(c)
  /\ Ends(c, "ambiguous") /\ LeaveMap(c)
  /\ UNCHANGED <<peer, slot, wire>>

\* mutate lets an interruption in only before it has prepared and while it
\* waits for the reply; a query leaves its ticket in the map when it is
\* interrupted between prepare and reply.
Interrupt(c) ==
  /\ \/ pc[c] = "ready" /\ UNCHANGED pending
     \/ pc[c] = "reply" /\ LeaveMap(c)
     \/ pc[c] \in {"prepared", "writing"} /\ c \in Queries /\ UNCHANGED pending
  /\ Ends(c, IF c \in Queries THEN "interrupted"
             ELSE IF pc[c] = "ready" THEN "unavailable" ELSE "ambiguous")
  /\ UNCHANGED <<peer, slot, wire>>

-----------------------------------------------------------------------------
(* The connection's callbacks *)

\* handleLine: a reply settles its own ticket, a late one is dropped.
Receive(c) ==
  /\ answer[c] # "empty" /\ ~disposed
  /\ slot' = IF c \in pending THEN [slot EXCEPT ![c] = answer[c]] ELSE slot
  /\ Drop(c)
  /\ answer' = [answer EXCEPT ![c] = "empty"]
  /\ UNCHANGED <<peer, pc, truth, flight>>

\* down fails the slots it takes out of the map, unless one has its reply.
Failed(s) == [c \in Calls |-> IF c \in pending /\ s[c] = "empty" THEN "disconnected" ELSE s[c]]

\* down, from an error or exit event.
Down ==
  /\ alive
  /\ alive' = FALSE /\ lost' = TRUE
  /\ slot' = Failed(slot)
  /\ pending' = {}
  /\ UNCHANGED <<disposed, open, pc, truth, wire>>

\* The finalizer of the peer's scope: nobody is told.
Dispose ==
  /\ ~disposed
  /\ alive' = FALSE /\ disposed' = TRUE
  /\ UNCHANGED <<lost, open, call, wire>>

-----------------------------------------------------------------------------
(* The app-server and the pipe to it *)

Break ==
  /\ open
  /\ open' = FALSE
  /\ UNCHANGED <<alive, lost, disposed, call, wire>>

\* A request handed over is executed or refused at any later time, and
\* answered or not.
Serve(c) ==
  /\ flight[c] = "sent"
  /\ \/ /\ flight' = [flight EXCEPT ![c] = "served"]
        /\ \E a \in {"ok", "garbled", "empty"} : answer' = [answer EXCEPT ![c] = a]
     \/ /\ flight' = [flight EXCEPT ![c] = "refused"]
        /\ \E a \in {"error", "empty"} : answer' = [answer EXCEPT ![c] = a]
  /\ UNCHANGED <<peer, call>>

\* It is lost with the connection.
Lose(c) ==
  /\ flight[c] = "sent" /\ ~open
  /\ flight' = [flight EXCEPT ![c] = "lost"]
  /\ UNCHANGED <<peer, call, answer>>

-----------------------------------------------------------------------------
Step(c) ==
  \/ Start(c) \/ Prepare(c) \/ Submit(c) \/ Written(c) \/ WriteFails(c) \/ WriteCut(c)
  \/ Reply(c) \/ ReplyTimesOut(c) \/ Interrupt(c) \/ Receive(c) \/ Serve(c) \/ Lose(c)

Quiescent == (\A c \in Calls : pc[c] = "done") /\ UNCHANGED vars

Next == (\E c \in Calls : Step(c)) \/ Down \/ Dispose \/ Break \/ Quiescent

Spec == Init /\ [][Next]_vars

\* Fibers are scheduled, the reply timer fires, a closed scope closes its
\* connection, and a write is called back once the app-server has read the
\* request or the connection is closed.
OwnSteps(c) ==
  Start(c) \/ Prepare(c) \/ Submit(c) \/ WriteCut(c) \/ Reply(c) \/ ReplyTimesOut(c)
StalledSpec ==
  /\ Spec
  /\ \A c \in Calls :
       /\ WF_vars(OwnSteps(c)) /\ WF_vars(~open /\ WriteFails(c))
       /\ WF_vars(flight[c] \in {"served", "refused"} /\ Written(c))
  /\ WF_vars(disposed /\ Break)
-----------------------------------------------------------------------------
(* Properties *)

TypeOK ==
  /\ alive \in BOOLEAN /\ lost \in BOOLEAN /\ disposed \in BOOLEAN /\ open \in BOOLEAN
  /\ pending \subseteq Calls
  /\ pc \in [Calls -> PCs]
  /\ slot \in [Calls -> Slots]
  /\ truth \in [Calls -> Truths]
  /\ flight \in [Calls -> Flights]
  /\ answer \in [Calls -> Slots]

\* A call that has not heard anything can still be told: its ticket is in the
\* map, where a reply or the disconnect finds it, and no disconnect has
\* passed without telling it. And every way a call ends takes its ticket out
\* of the map, except the interruption of a query before its reply wait.
Wakeable ==
  /\ \A c \in Calls : Waiting(c) /\ slot[c] = "empty" => c \in pending /\ ~lost
  /\ \A c \in pending : Waiting(c) \/ truth[c] = "interrupted"

\* Every mutation answers.
MutationsEnd == \A c \in Mutations : pc[c] # "new" ~> pc[c] = "done"

\* mutationOutcome
MutationOutcome(t) ==
  CASE t = "none" -> "none"
    [] t = "confirmed-app-server" -> "Confirmed"
    [] t = "rejected" -> "Rejected"
    [] t = "unavailable" -> "NotSubmitted"
    [] OTHER -> "Ambiguous"

EffectOf(f) ==
  CASE f = "none" -> "none" [] f = "sent" -> "possible" [] f = "served" -> "done"
    [] OTHER -> "gone"

Contract == INSTANCE SubmissionContract WITH
  Commands <- Mutations,
  effect   <- [c \in Mutations |-> EffectOf(flight[c])],
  answer   <- [c \in Mutations |-> MutationOutcome(truth[c])]

\* The app-server route keeps the contract the coordinator relies on.
KeepsContract == Contract!Spec
=============================================================================

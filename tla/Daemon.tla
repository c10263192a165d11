-------------------------------- MODULE Daemon --------------------------------
(***************************************************************************)
(* The daemon from its start to the end of its stop: the HTTP handlers,    *)
(* the lifecycle that counts them, the listener with its connections, and  *)
(* the Delivery service of DeliveryLanes, whose steps are taken here where *)
(* a handler or the stop calls them.  A job is the request that brings it, *)
(* on a connection of its own.  The stop closes the listener, waits for    *)
(* the requests, then for the work, and tears everything down; clients,    *)
(* handlers, workers and the clock go on meanwhile.                        *)
(***************************************************************************)
EXTENDS DeliveryLanes

VARIABLES
  phase,    \* lifecycle.phase
  active,   \* lifecycle.activeRequests
  hold,     \* a request's release: not entered, held, released, and its response closed
  conn,     \* its connection
  at,       \* where its handler is
  answer,   \* what the handler answered
  heard,    \* the client got the answer
  stopping, \* where stop is
  asked,    \* serve remembers a signal that came before there was a daemon to stop
  clock     \* how much of the grace is gone

requests   == <<hold, conn, at, answer, heard>>
daemon     == <<phase, active, stopping, asked, clock>>
daemonVars == <<vars, requests, daemon>>

Phases == {"starting", "ready", "draining", "stopped"}
Holds  == {"none", "held", "released", "gone"}
Conns  == {"none", "open", "idle", "closed"}
Places == {"none", "authorize", "body", "submit", "answering", "over"}
Codes  == {"none", "4xx", "503", "202", "202 dropped"}
Stops  == {"no", "failed", "closing", "forced", "idle", "waiting", "accepting",
           "draining", "disposing", "done"}
Clocks == {"early", "half", "over"}

-----------------------------------------------------------------------------
(* Faulty variants, each in the place of one definition below *)

EveryEventReleases(j) == IF active = 0 THEN 0 ELSE active - 1 \* released is forgotten
NobodyWaitsForClosed == TRUE              \* "if (timedOut) await closed" is missing, and before
ForgetsSignals == FALSE                   \* serve stops only a daemon it has
LeavesAtFirstCount == drain # "serving"   \* stop does not wait for the drain

-----------------------------------------------------------------------------
DaemonInit ==
  /\ Init
  /\ phase = "starting"
  /\ active = 0
  /\ hold = [j \in Jobs |-> "none"]
  /\ conn = [j \in Jobs |-> "none"]
  /\ at = [j \in Jobs |-> "none"]
  /\ answer = [j \in Jobs |-> "none"]
  /\ heard = [j \in Jobs |-> FALSE]
  /\ stopping = "no"
  /\ asked = FALSE
  /\ clock = "early"

-----------------------------------------------------------------------------
(* startUnifiedDaemon *)

\* The services are there and the listener has its port.
Listening ==
  /\ phase = "starting" /\ stopping = "no"
  /\ phase' = "ready"
  /\ UNCHANGED <<vars, requests, active, stopping, asked, clock>>

\* A service or the port is not to be had: what was made is disposed of.
StartFails ==
  /\ phase = "starting" /\ stopping = "no"
  /\ stopping' = "failed"
  /\ UNCHANGED <<vars, requests, phase, active, asked, clock>>

-----------------------------------------------------------------------------
(* Clients and the request handler *)

Connect(j) ==
  /\ phase = "ready" /\ conn[j] = "none"
  /\ conn' = [conn EXCEPT ![j] = "open"]
  /\ UNCHANGED <<vars, daemon, hold, at, answer, heard>>

GoesTo(j, place) == at' = [at EXCEPT ![j] = place]
Answers(j, code) == GoesTo(j, "answering") /\ answer' = [answer EXCEPT ![j] = code]

\* enter, and the lookup of the URL's token; or the refusal of a daemon that stops.
Arrive(j) ==
  /\ conn[j] = "open" /\ at[j] = "none"
  /\ IF phase = "ready"
     THEN /\ active' = active + 1
          /\ hold' = [hold EXCEPT ![j] = "held"]
          /\ \/ Answers(j, "4xx")
             \/ GoesTo(j, "authorize") /\ UNCHANGED answer
     ELSE Answers(j, "503") /\ UNCHANGED <<active, hold>>
  /\ UNCHANGED <<vars, phase, stopping, asked, clock, conn, heard>>

\* The authenticator answers, then the limiter, also when the client has gone.
Authorize(j) ==
  /\ at[j] = "authorize"
  /\ \/ Answers(j, "4xx")
     \/ GoesTo(j, "body") /\ UNCHANGED answer
  /\ UNCHANGED <<vars, daemon, hold, conn, heard>>

\* The body is too large, or the token was not to be claimed.
Refuse(j) ==
  /\ at[j] = "body" /\ conn[j] = "open"
  /\ Answers(j, "4xx")
  /\ UNCHANGED <<vars, daemon, hold, conn, heard>>

\* The body is complete: a use is claimed and Delivery asked, in one stretch.
Claim(j) ==
  /\ at[j] = "body" /\ conn[j] = "open"
  /\ GoesTo(j, "submit")
  /\ Submit(j)
  /\ UNCHANGED <<daemon, hold, conn, answer, heard>>

\* A body cannot be read from a connection that is gone.
BodyFails(j) ==
  /\ at[j] = "body" /\ conn[j] = "closed"
  /\ GoesTo(j, "over")
  /\ UNCHANGED <<vars, daemon, hold, conn, answer, heard>>

\* submit has returned.
Acknowledge(j) ==
  /\ at[j] = "submit" /\ stage[j] \notin {"new", "admitting"}
  /\ Answers(j, IF stage[j] = "refused" THEN "202 dropped" ELSE "202")
  /\ UNCHANGED <<vars, daemon, hold, conn, heard>>

\* release, at most once for a request, whichever of its response's events comes first.
ActiveAfter(j) == IF hold[j] = "held" THEN active - 1 ELSE active

WakesIdle == stopping = "waiting"

\* The transition to zero resolves the idle waiters.
Releases(j, to) ==
  /\ active' = ActiveAfter(j)
  /\ hold' = [hold EXCEPT ![j] = IF @ = "none" THEN @ ELSE to]
  /\ stopping' = IF ActiveAfter(j) = 0 /\ hold[j] = "held" /\ WakesIdle THEN "accepting"
                 ELSE stopping

\* The answer is written: the response's finish.
Finish(j) ==
  /\ at[j] = "answering" /\ conn[j] = "open"
  /\ GoesTo(j, "over")
  /\ heard' = [heard EXCEPT ![j] = TRUE]
  /\ conn' = [conn EXCEPT ![j] = IF answer[j] = "503" THEN "closed" ELSE "idle"]
  /\ Releases(j, "released")
  /\ UNCHANGED <<vars, phase, asked, clock, answer>>

\* The answer is written to a connection that is gone.
AnswerLost(j) ==
  /\ at[j] = "answering" /\ conn[j] = "closed"
  /\ GoesTo(j, "over")
  /\ UNCHANGED <<vars, daemon, hold, conn, answer, heard>>

\* The response's close: it follows the finish, or the end of the connection.
ResponseCloses(j) ==
  /\ \/ hold[j] = "released"
     \/ hold[j] = "held" /\ conn[j] = "closed"
  /\ Releases(j, "gone")
  /\ UNCHANGED <<vars, phase, asked, clock, conn, at, answer, heard>>

\* The client goes away.
HangUp(j) ==
  /\ conn[j] \in {"open", "idle"}
  /\ conn' = [conn EXCEPT ![j] = "closed"]
  /\ UNCHANGED <<vars, daemon, hold, at, answer, heard>>

-----------------------------------------------------------------------------
(* stop *)

CloseAll(kinds) == conn' = [j \in Jobs |-> IF conn[j] \in kinds THEN "closed" ELSE conn[j]]

\* SIGTERM or SIGINT while the daemon starts.
EarlySignal ==
  /\ phase = "starting" /\ stopping = "no" /\ ~asked
  /\ asked' = TRUE
  /\ UNCHANGED <<vars, requests, phase, active, stopping, clock>>

\* The first signal, or the one remembered: beginDrain, then
\* closeCodexhookServer up to its first wait.
Stop ==
  /\ phase = "ready"
  /\ phase' = "draining" /\ stopping' = "closing" /\ asked' = FALSE
  /\ CloseAll({"idle"})
  /\ UNCHANGED <<vars, active, clock, hold, at, answer, heard>>

Remembered == asked

\* The idle closer's interval.
CloseIdle ==
  /\ stopping \in {"closing", "forced"}
  /\ \E j \in Jobs : conn[j] = "idle"
  /\ CloseAll({"idle"})
  /\ UNCHANGED <<vars, daemon, hold, at, answer, heard>>

\* Half of the grace, then all of it.
Tick ==
  /\ stopping \notin {"no", "failed", "done"} /\ clock # "over"
  /\ clock' = IF clock = "early" THEN "half" ELSE "over"
  /\ UNCHANGED <<vars, requests, phase, active, asked, stopping>>

HalfIsOver == clock # "early"

ForceClose ==
  /\ stopping = "closing" /\ HalfIsOver
  /\ CloseAll({"open", "idle"})
  /\ stopping' = "forced"
  /\ UNCHANGED <<vars, phase, active, asked, clock, hold, at, answer, heard>>

NoConnection == \A j \in Jobs : conn[j] \notin {"open", "idle"}

ServerClosed ==
  /\ stopping \in {"closing", "forced"} /\ NoConnection
  /\ stopping' = "idle"
  /\ UNCHANGED <<vars, requests, phase, active, asked, clock>>

WaitForIdle ==
  /\ stopping = "idle"
  /\ stopping' = IF active = 0 THEN "accepting" ELSE "waiting"
  /\ UNCHANGED <<vars, requests, phase, active, asked, clock>>

IdleTimesOut ==
  /\ stopping = "waiting" /\ clock = "over"
  /\ stopping' = "accepting"
  /\ UNCHANGED <<vars, requests, phase, active, asked, clock>>

EndIntake ==
  /\ stopping = "accepting"
  /\ StopAccepting
  /\ stopping' = "draining"
  /\ UNCHANGED <<requests, phase, active, asked, clock>>

Drain ==
  /\ stopping = "draining"
  /\ CountLanes \/ CountControl
  /\ UNCHANGED <<requests, daemon>>

\* What was left of the grace when the drain began is over.
DrainDue ==
  /\ clock = "over"
  /\ PassDeadline
  /\ UNCHANGED <<requests, daemon>>

DrainOver == drain \in {"drained", "gave-up"}

\* The runtime is disposed of: its fibers are interrupted, and may end first.
Dispose ==
  /\ stopping = "draining" /\ DrainOver
  /\ stopping' = "disposing"
  /\ UNCHANGED <<vars, requests, phase, active, asked, clock>>

\* Every fiber is gone; the registry closes.
Stopped ==
  /\ stopping = "disposing"
  /\ stopping' = "done" /\ phase' = "stopped"
  /\ UNCHANGED <<vars, requests, active, asked, clock>>

-----------------------------------------------------------------------------
Submits(j) ==
  /\ Offer(j) \/ ReserveSteer(j)
  /\ UNCHANGED <<requests, daemon>>

\* A worker or a steer fiber goes on, as long as its runtime is there.
Works(j) ==
  /\ stopping # "done"
  /\ Take(j) \/ StartSteer(j) \/ Settle(j) \/ SettleSteer(j)
  /\ UNCHANGED <<requests, daemon>>

Delivered(j) ==
  /\ stopping # "done"
  /\ FinishJob(j)
  /\ UNCHANGED <<requests, daemon>>

Handle(j) ==
  \/ Arrive(j) \/ Authorize(j) \/ Refuse(j) \/ Claim(j) \/ BodyFails(j) \/ Acknowledge(j)
  \/ Finish(j) \/ AnswerLost(j) \/ ResponseCloses(j)

StopStep ==
  \/ ForceClose \/ ServerClosed \/ WaitForIdle \/ IdleTimesOut \/ EndIntake
  \/ Drain \/ Dispose \/ Stopped

\* The process may exit.
Exit == stopping \in {"failed", "done"} /\ UNCHANGED daemonVars

DaemonNext ==
  \/ EarlySignal \/ Listening \/ StartFails
  \/ \E j \in Jobs : Connect(j) \/ HangUp(j) \/ Handle(j)
                   \/ Submits(j) \/ Works(j) \/ Delivered(j)
  \/ Stop \/ CloseIdle \/ Tick \/ DrainDue \/ StopStep
  \/ Exit

DaemonSpec == DaemonInit /\ [][DaemonNext]_daemonVars

\* The stop's own steps and timers run, and so do workers and fibers.
\* Nothing is assumed of clients, handlers and jobs, but that a disposed
\* runtime's fibers end; a start ends, and a signal it kept waiting is answered.
Fairness ==
  /\ WF_daemonVars(Listening \/ StartFails) /\ WF_daemonVars(Remembered /\ Stop)
  /\ WF_daemonVars(Tick) /\ WF_daemonVars(CloseIdle) /\ WF_daemonVars(DrainDue)
  /\ WF_daemonVars(StopStep)
  /\ \A j \in Jobs : WF_daemonVars(Works(j))
FairDaemonSpec == DaemonSpec /\ Fairness
-----------------------------------------------------------------------------
(* Properties *)

DaemonTypeOK ==
  /\ TypeOK
  /\ phase \in Phases
  /\ active \in Nat
  /\ hold \in [Jobs -> Holds]
  /\ conn \in [Jobs -> Conns]
  /\ at \in [Jobs -> Places]
  /\ answer \in [Jobs -> Codes]
  /\ heard \in [Jobs -> BOOLEAN]
  /\ stopping \in Stops
  /\ asked \in BOOLEAN
  /\ clock \in Clocks

\* The lifecycle counts exactly the requests that entered and whose response
\* is neither written nor closed, although both events call release.
CountsRequests == active = Cardinality({j \in Jobs : hold[j] = "held"})

\* The daemon's counters: that one, and those behind the limits on lanes,
\* their queues and steers, which concurrent requests may not overbook.
CountersHold == DaemonTypeOK /\ CountsRequests /\ Bounded

TornDown == stopping \in {"disposing", "done"}

\* A stop that ends within its grace leaves no message behind that a client
\* was told is accepted: it ran to its end.
AcknowledgedDone ==
  TornDown /\ clock # "over" =>
    \A j \in Jobs : heard[j] /\ answer[j] = "202" => stage[j] = "finished"

RefusedForCapacity ==
  \A j \in Jobs : stage'[j] = "refused" /\ stage[j] # "refused" /\ conn[j] = "open" => accepting

\* The shutdown takes no use of a URL from a client that is still there: a
\* request that claimed one and can be answered is refused only for capacity.
NoUseLostToShutdown == [][RefusedForCapacity]_daemonVars

\* If no job runs for ever, every accepted job runs to its end: from some
\* moment on nothing accepted is left, unless the daemon was torn down.
Served ==
  (\A j \in Jobs : []<>(stage[j] # "running")) => <>[](Unfinished(Jobs) = {}) \/ <>TornDown

\* A signal ends the daemon, whenever it comes and whatever clients, handlers
\* and jobs do.
StopEnds == asked \/ stopping = "closing" ~> stopping \in {"done", "failed"}
=============================================================================

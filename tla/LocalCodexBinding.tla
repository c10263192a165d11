-------------------------- MODULE LocalCodexBinding --------------------------
(***************************************************************************)
(* How LocalCodex finds its app-server and finds another when it is gone:  *)
(* the first candidate that connects and is this machine's becomes the     *)
(* binding every operation runs on; a loop looks at it now and then,       *)
(* acquires a replacement when it is unusable, swaps the two and closes    *)
(* the old one's scope.  The daemon may close the scope above at any time. *)
(* RpcPeer is the connection of the first binding that has one, with the   *)
(* calls that began on it; here the loop and the daemon dispose of it.     *)
(***************************************************************************)
EXTENDS RpcPeer, Integers, FiniteSets, FiniteSetsExt

CONSTANTS Candidates, \* the transports there may be, numbers in the order of preference
          Bindings,   \* names for bindings, used again when one is gone
          NoBinding

ASSUME BindingAssumption ==
  Candidates \subseteq Nat /\ Bindings # {} /\ NoBinding \notin Bindings

VARIABLES
  loop,     \* where the acquisition or the retry loop is
  current,  \* the Ref
  next,     \* the binding being acquired
  previous, \* the one taken out of the Ref
  scope,    \* a binding's scope
  conn,     \* the connection of a binding's client
  fits,     \* its app-server is one the client was made for
  todo,     \* the candidates still to try
  trial,    \* the connection of the candidate being tried, in a scope of its own
  watched,  \* the binding whose connection is RpcPeer's
  parent    \* the scope of the LocalCodex layer

binding == <<loop, current, next, previous, scope, conn, fits, todo, trial, watched>>
bindingVars == <<vars, binding, parent>>

Loops  == {"wait", "check", "discover", "try", "abandon", "swap", "close", "ended"}
Scopes == {"unused", "open", "closed"}
Conns  == {"none", "up", "lost", "closing", "closed"}

Preferred == Min(todo)

\* Nobody has business with the name any more.
Free(b) == scope[b] # "open" /\ conn[b] \in {"none", "closed"} /\ b \notin {current, previous}

-----------------------------------------------------------------------------
(* Faulty variants, each in the place of one definition below *)

ForgetsTheScope(b) == UNCHANGED scope       \* a defect leaves its binding's scope open
NotForked(b) == scope[b] = "open" /\ b = current \* made, not forked: unknown to its parent
AlwaysReplaces == FALSE                     \* the status is not looked at
DiesOfIt == "ended"                         \* a defect ends the loop

-----------------------------------------------------------------------------
BindingInit ==
  /\ Init
  /\ loop = "discover" /\ current = NoBinding /\ previous = NoBinding
  /\ next = CHOOSE b \in Bindings : TRUE
  /\ scope = [b \in Bindings |-> IF b = next THEN "open" ELSE "unused"]
  /\ conn = [b \in Bindings |-> "none"]
  /\ fits = [b \in Bindings |-> FALSE]
  /\ todo = {} /\ trial = "none"
  /\ watched = NoBinding
  /\ parent = "open"

-----------------------------------------------------------------------------
(* acquireBinding, with connectFirstLocal inside *)

Discover ==
  /\ loop = "discover"
  /\ todo' \in SUBSET Candidates
  /\ loop' = "try"
  /\ UNCHANGED <<vars, current, next, previous, scope, conn, fits, trial, watched, parent>>

\* The candidate is not a local one, or nothing answers there.
Unreachable ==
  /\ loop = "try" /\ trial = "none" /\ todo # {}
  /\ todo' = todo \ {Preferred}
  /\ UNCHANGED <<vars, loop, current, next, previous, scope, conn, fits, trial, watched, parent>>

\* A process is spawned or a socket opened; in a closed scope its release runs at once.
Open ==
  /\ loop = "try" /\ trial = "none" /\ todo # {}
  /\ trial' = IF scope[next] = "open" THEN "open" ELSE "closing"
  /\ UNCHANGED <<vars, loop, current, next, previous, scope, conn, fits, todo, watched, parent>>

\* The handshake fails, or the plane is not confirmed: the attempt's scope closes.
Reject ==
  /\ loop = "try" /\ trial = "open"
  /\ trial' = "closing"
  /\ UNCHANGED <<vars, loop, current, next, previous, scope, conn, fits, todo, watched, parent>>

\* It is closed, then the next candidate is tried.
TrialOver ==
  /\ trial = "closing"
  /\ trial' = "none"
  /\ todo' = IF loop = "try" THEN todo \ {Preferred} ELSE todo
  /\ UNCHANGED <<vars, loop, current, next, previous, scope, conn, fits, watched, parent>>

\* The first that is confirmed is taken, whether it fits or not.
Accept ==
  /\ loop = "try" /\ trial \in {"open", "closing"} /\ (trial = "closing" => scope[next] = "closed")
  /\ conn' = [conn EXCEPT ![next] = IF trial = "open" THEN "up" ELSE "closing"]
  /\ \E f \in BOOLEAN : fits' = [fits EXCEPT ![next] = f]
  /\ trial' = "none" /\ todo' = {}
  /\ watched' = IF ~disposed /\ trial = "open" /\ watched = NoBinding THEN next ELSE watched
  /\ loop' = "swap"
  /\ UNCHANGED <<vars, current, next, previous, scope, parent>>

\* None is left: the service of this binding is unavailable.
NoneLeft ==
  /\ loop = "try" /\ trial = "none" /\ todo = {}
  /\ loop' = "swap"
  /\ UNCHANGED <<vars, current, next, previous, scope, conn, fits, todo, trial, watched, parent>>

\* A defect, in the discovery or an attempt, is no failure of a candidate.
Defect ==
  /\ \/ loop = "discover"
     \/ loop = "try" /\ trial \in {"none", "open"} /\ todo # {}
  /\ loop' = "abandon"
  /\ trial' = IF trial = "open" THEN "closing" ELSE trial
  /\ todo' = {}
  /\ UNCHANGED <<vars, current, next, previous, scope, conn, fits, watched, parent>>

CloseEmpty(b) == scope' = [scope EXCEPT ![b] = "closed"]

\* The first acquisition fails the layer, a later one is caught by the loop.
AfterDefect == IF current = NoBinding THEN "ended" ELSE "wait"

\* acquireBinding closes the scope and passes the defect on.
Abandon ==
  /\ loop = "abandon" /\ trial = "none"
  /\ CloseEmpty(next)
  /\ loop' = AfterDefect
  /\ parent' = IF current = NoBinding THEN "closed" ELSE parent
  /\ next' = NoBinding
  /\ UNCHANGED <<vars, current, previous, conn, fits, todo, trial, watched>>

-----------------------------------------------------------------------------
(* resilientLocalCodexService *)

Swap ==
  /\ loop = "swap"
  /\ current' = next /\ previous' = current /\ next' = NoBinding
  /\ loop' = IF current = NoBinding THEN "wait" ELSE "close"
  /\ UNCHANGED <<vars, scope, conn, fits, todo, trial, watched, parent>>

\* Closes an open scope: what was acquired in it is released.
ReleaseConn(b) ==
  /\ conn' = [conn EXCEPT ![b] = IF @ \in {"up", "lost"} THEN "closing" ELSE @]
  /\ IF b = watched /\ conn[b] \in {"up", "lost"} THEN Dispose ELSE UNCHANGED vars

ClosePrevious ==
  /\ loop = "close" /\ scope[previous] = "open"
  /\ scope' = [scope EXCEPT ![previous] = "closed"]
  /\ ReleaseConn(previous)
  /\ UNCHANGED <<loop, current, next, previous, fits, todo, trial, watched, parent>>

PreviousClosed ==
  /\ loop = "close" /\ scope[previous] # "open" /\ (parent = "open" => conn[previous] # "closing")
  /\ loop' = "wait" /\ previous' = NoBinding
  /\ UNCHANGED <<vars, current, next, scope, conn, fits, todo, trial, watched, parent>>

\* The retry interval is over.
Wake ==
  /\ loop = "wait"
  /\ loop' = "check"
  /\ UNCHANGED <<vars, current, next, previous, scope, conn, fits, todo, trial, watched, parent>>

Alive(b) == conn[b] = "up" /\ (b = watched => Usable)

\* The service's availability.
Available(b) == b # NoBinding /\ Alive(b) /\ fits[b]

StaysBound == Available(current)

StillBound ==
  /\ loop = "check" /\ StaysBound
  /\ loop' = "wait"
  /\ UNCHANGED <<vars, current, next, previous, scope, conn, fits, todo, trial, watched, parent>>

\* A scope forked from a closed one is closed.
Replace ==
  /\ loop = "check" /\ ~StaysBound
  /\ \E b \in Bindings :
       /\ Free(b)
       /\ next' = b
       /\ scope' = [scope EXCEPT ![b] = IF parent = "open" THEN "open" ELSE "closed"]
       /\ conn' = [conn EXCEPT ![b] = "none"]
       /\ fits' = [fits EXCEPT ![b] = FALSE]
       /\ watched' = IF b = watched THEN NoBinding ELSE watched
  /\ loop' = "discover"
  /\ UNCHANGED <<vars, current, previous, todo, trial, parent>>

-----------------------------------------------------------------------------
(* The daemon closes the layer's scope *)

CloseLayer ==
  /\ parent = "open" /\ current # NoBinding
  /\ parent' = "closed"
  /\ UNCHANGED <<vars, binding>>

Forked(b) == scope[b] = "open"

CloseChild(b) ==
  /\ parent = "closed" /\ Forked(b)
  /\ scope' = [scope EXCEPT ![b] = "closed"]
  /\ ReleaseConn(b)
  /\ trial' = IF b = next /\ trial = "open" THEN "closing" ELSE trial
  /\ UNCHANGED <<loop, current, next, previous, fits, todo, watched, parent>>

\* The loop's fiber is interrupted, but not while it waits for a release.
Interrupted ==
  /\ parent = "closed" /\ loop # "ended" /\ trial # "closing"
  /\ loop' = "ended"
  /\ UNCHANGED <<vars, current, next, previous, scope, conn, fits, todo, trial, watched, parent>>

Gone ==
  /\ parent = "closed" /\ loop = "ended" /\ \A b \in Bindings : ~Forked(b)
  /\ trial # "closing" /\ \A b \in Bindings : conn[b] # "closing"
  /\ parent' = "gone"
  /\ UNCHANGED <<vars, binding>>

-----------------------------------------------------------------------------
(* Connections and calls *)

\* The process has exited or was killed; the socket is closed or terminated.
ConnClosed(b) ==
  /\ conn[b] = "closing" /\ (b = watched => ~open)
  /\ conn' = [conn EXCEPT ![b] = "closed"]
  /\ UNCHANGED <<vars, loop, current, next, previous, scope, fits, todo, trial, watched, parent>>

ConnLost(b) ==
  /\ conn[b] = "up" /\ b # watched
  /\ conn' = [conn EXCEPT ![b] = "lost"]
  /\ UNCHANGED <<vars, loop, current, next, previous, scope, fits, todo, trial, watched, parent>>

\* An operation reads the Ref once and runs on the service it found there.
Begin(c) ==
  /\ watched # NoBinding /\ current = watched
  /\ Start(c) /\ (~fits[watched] => pc'[c] = "done")
  /\ UNCHANGED <<binding, parent>>

Call(c) ==
  /\ pc[c] # "new" /\ Step(c)
  /\ UNCHANGED <<binding, parent>>

Connection ==
  /\ watched # NoBinding
  /\ Down \/ Break
  /\ UNCHANGED <<binding, parent>>

-----------------------------------------------------------------------------
Acquire == Discover \/ Unreachable \/ Open \/ Reject \/ TrialOver \/ Accept \/ NoneLeft \/ Abandon
LoopStep == Swap \/ ClosePrevious \/ PreviousClosed \/ Wake \/ StillBound \/ Replace

Over == parent = "gone" /\ UNCHANGED bindingVars

BindingNext ==
  \/ Acquire \/ Defect \/ LoopStep
  \/ CloseLayer \/ Interrupted \/ Gone
  \/ \E b \in Bindings : CloseChild(b) \/ ConnClosed(b) \/ ConnLost(b)
  \/ \E c \in Calls : Begin(c) \/ Call(c)
  \/ Connection \/ Over

BindingSpec == BindingInit /\ [][BindingNext]_bindingVars

\* Fibers and timers run, every attempt to connect ends (it has a timeout) and
\* so does every release; of a call and its connection, what RpcPeer assumes.
Fairness ==
  /\ WF_bindingVars(Acquire) /\ WF_bindingVars(LoopStep)
  /\ WF_bindingVars(Interrupted) /\ WF_bindingVars(Gone)
  /\ \A b \in Bindings : WF_bindingVars(CloseChild(b)) /\ WF_bindingVars(ConnClosed(b))
  /\ WF_bindingVars(disposed /\ Connection)
  /\ \A c \in Calls :
       /\ WF_bindingVars(Call(c) /\ OwnSteps(c))
       /\ WF_bindingVars(Call(c) /\ (Written(c) \/ WriteFails(c)))

FairBindingSpec == BindingSpec /\ Fairness
-----------------------------------------------------------------------------
(* Properties *)

BindingTypeOK ==
  /\ loop \in Loops
  /\ {current, next, previous, watched} \subseteq Bindings \cup {NoBinding}
  /\ scope \in [Bindings -> Scopes]
  /\ conn \in [Bindings -> Conns]
  /\ fits \in [Bindings -> BOOLEAN]
  /\ todo \subseteq Candidates
  /\ trial \in {"none", "open", "closing"}
  /\ parent \in {"open", "closed", "gone"}

\* No process, socket or scope is left behind, whatever fails and whenever the
\* daemon stops: an open scope and a connection in use belong to the binding in
\* the Ref, to the one being acquired or to the one being closed, an attempt's
\* to the attempt, and nothing is open when the layer is gone.
NoOrphan ==
  /\ BindingTypeOK
  /\ \A b \in Bindings :
       /\ conn[b] \in {"up", "lost"} => scope[b] = "open"
       /\ scope[b] = "open" => b \in {current, next, previous} /\ parent # "gone"
  /\ trial = "open" => scope[next] = "open" /\ loop \in {"try", "ended"}

CutsNoLive ==
  \A b \in Bindings : Available(b) /\ conn'[b] = "closing" => parent = "closed"

\* The loop never takes a working connection from under the operations that
\* run on it: only the daemon's stop does.
NoLiveSwap == [][CutsNoLive]_bindingVars

\* The last candidate is there, connects and fits, none before it connects
\* without fitting, and no connection is lost.
Steady == Max(Candidates)

Behaves ==
  /\ loop = "discover" => loop' # "abandon" /\ (loop' = "try" => Steady \in todo')
  /\ loop = "try" => /\ loop' # "abandon"
                     /\ loop' = "swap" /\ conn'[next] = "up" => fits'[next]
                     /\ todo # {} /\ Preferred = Steady =>
                          /\ trial = "open" => trial' # "closing" \/ scope'[next] = "closed"
                          /\ trial = "none" => todo' = todo
  /\ \A b \in Bindings : Alive(b) /\ scope[b] = "open" => Alive(b)' \/ scope'[b] = "closed"

\* When app-servers come back to stay, LocalCodex finds one, and keeps it.
Recovers == <>[][Behaves]_bindingVars => <>[](Available(current) \/ parent # "open")
=============================================================================

---------------------------- MODULE WebhookIntake ----------------------------
(***************************************************************************)
(* The webhook registry, one SQLite table shared by the daemon and by the  *)
(* command-line processes that create, list and revoke hooks, and the      *)
(* HTTP requests that inspect a URL's token, read their body and claim a   *)
(* use of it.  A command is one statement or one transaction.  The daemon  *)
(* runs its synchronous stretches one after another, but commands of other *)
(* processes fall between any two of its statements.                       *)
(***************************************************************************)
EXTENDS Integers, FiniteSets

CONSTANTS Ids,        \* hook ids
          Threads,    \* Codex tasks
          Tokens,     \* tokens drawn by create, never twice the same
          Requests,   \* HTTP requests
          MaxUses,    \* the greatest maxDeliveries asked for
          Unlimited,  \* remaining_deliveries IS NULL
          None        \* no row, no hook, no token

Uses == (1..MaxUses) \cup {Unlimited}
Rows == [token : Tokens, thread : Threads, left : Uses, expires : BOOLEAN]
Terms == [thread : Threads, max : Uses]
Hooks == [id : Ids, thread : Threads]

ASSUME IntakeAssumption ==
  /\ IsFiniteSet(Requests)
  /\ MaxUses \in Nat \ {0}
  /\ Unlimited \notin Nat
  /\ None \notin Ids \cup Tokens \cup Rows \cup Terms \cup Hooks

VARIABLES
  row,       \* webhooks: id -> row
  terms,     \* what each created URL was printed for: task and uses
  fate,      \* how a created URL stopped being valid, if it did
  past,      \* the tokens whose expires_at has been reached
  at,        \* where a request's handler is
  token,     \* the token of its URL
  inspected, \* the hook inspectToken returned
  claimed,   \* the hook claimToken returned
  answer     \* the HTTP answer

table   == <<row, terms, fate>>
handler == <<at, token, inspected, claimed, answer>>
vars    == <<row, terms, fate, past, at, token, inspected, claimed, answer>>

Steps   == {"new", "sweep", "authorize", "body", "submit", "answered"}
Fates   == {"none", "valid", "replaced", "revoked", "used up", "expired"}
Answers == {"none", "202", "202 dropped", "401", "404", "413", "429", "500"}

Present == {i \in Ids : row[i] # None}
RowOf(k) == {i \in Present : row[i].token = k}
Expired(i) == row[i].expires /\ row[i].token \in past
HookAt(i) == [id |-> i, thread |-> row[i].thread]

-----------------------------------------------------------------------------
(* Faulty variants, each in the place of one definition below *)

AnyTask(i, t) == TRUE                          \* ON CONFLICT DO UPDATE without its WHERE
ClaimsById(r) == {inspected[r].id} \cap Present \* the claim reuses the inspected hook's id
ClaimsUnexpired(i) == FALSE                    \* the claim trusts the inspection's expiry check

-----------------------------------------------------------------------------
Init ==
  /\ row = [i \in Ids |-> None]
  /\ terms = [k \in Tokens |-> None]
  /\ fate = [k \in Tokens |-> "none"]
  /\ past = {}
  /\ at = [r \in Requests |-> "new"]
  /\ token = [r \in Requests |-> None]
  /\ inspected = [r \in Requests |-> None]
  /\ claimed = [r \in Requests |-> None]
  /\ answer = [r \in Requests |-> "none"]

\* The URLs that go with a set of deleted rows.
Ends(S, how) ==
  fate' = [k \in Tokens |-> IF \E i \in S : row[i].token = k THEN how ELSE fate[k]]
Delete(S) == row' = [i \in Ids |-> IF i \in S THEN None ELSE row[i]]

-----------------------------------------------------------------------------
(* Commands, each in a process of its own *)

SameTask(i, t) == row[i].thread = t

\* INSERT, or on a taken id an update of everything but the task.
Create(i, t, k) ==
  /\ fate[k] = "none"
  /\ i \in Present => SameTask(i, t)
  /\ \E uses \in Uses, expires \in BOOLEAN :
       /\ row' = [row EXCEPT ![i] =
            [token |-> k, left |-> uses, expires |-> expires,
             thread |-> IF i \in Present THEN row[i].thread ELSE t]]
       /\ terms' = [terms EXCEPT ![k] = [thread |-> t, max |-> uses]]
  /\ fate' = [j \in Tokens |-> IF j = k THEN "valid"
                               ELSE IF i \in Present /\ row[i].token = j THEN "replaced"
                               ELSE fate[j]]
  /\ UNCHANGED <<past, handler>>

\* revoke, revokeThread and revokeAll.
Revoke ==
  /\ \E S \in {{i} : i \in Present} \cup {{i \in Present : row[i].thread = t} : t \in Threads}
              \cup {Present} :
       S # {} /\ Delete(S) /\ Ends(S, "revoked")
  /\ UNCHANGED <<terms, past, handler>>

\* list first deletes what has expired.
List ==
  /\ LET S == {i \in Present : Expired(i)}
     IN  S # {} /\ Delete(S) /\ Ends(S, "expired")
  /\ UNCHANGED <<terms, past, handler>>

\* The clock reaches the expires_at of a row.
PassExpiry(i) ==
  /\ i \in Present /\ row[i].expires /\ row[i].token \notin past
  /\ past' = past \cup {row[i].token}
  /\ UNCHANGED <<table, handler>>

-----------------------------------------------------------------------------
(* The request handler *)

\* Between the two statements of inspectToken no other handler runs.
LoopFree == \A r \in Requests : at[r] # "sweep"

Goes(r, to) == at' = [at EXCEPT ![r] = to]
Answers404(r) == Goes(r, "answered") /\ answer' = [answer EXCEPT ![r] = "404"]
Fails(r, code) == Goes(r, "answered") /\ answer' = [answer EXCEPT ![r] = code]

\* inspectToken's SELECT.  A row that has expired is deleted next, by its id.
Inspect(r) ==
  /\ at[r] = "new" /\ LoopFree
  /\ \E k \in Tokens :
       /\ fate[k] # "none"
       /\ token' = [token EXCEPT ![r] = k]
       /\ \/ RowOf(k) = {} /\ Answers404(r) /\ UNCHANGED inspected
          \/ \E i \in RowOf(k) :
               /\ Goes(r, IF Expired(i) THEN "sweep" ELSE "authorize")
               /\ inspected' = [inspected EXCEPT ![r] = HookAt(i)]
               /\ UNCHANGED answer
  /\ UNCHANGED <<table, past, claimed>>

\* inspectToken's DELETE, of whatever row has the id by now.
Sweep(r) ==
  /\ at[r] = "sweep"
  /\ Delete({inspected[r].id})
  /\ fate' = [fate EXCEPT ![token[r]] = IF @ = "valid" THEN "expired" ELSE @]
  /\ Answers404(r)
  /\ UNCHANGED <<terms, past, token, inspected, claimed>>

\* The authenticator answers, then the rate limiter.
Admit(r) ==
  /\ at[r] = "authorize" /\ LoopFree
  /\ \/ Fails(r, "401") \/ Fails(r, "429")
     \/ Goes(r, "body") /\ UNCHANGED answer
  /\ UNCHANGED <<table, past, token, inspected, claimed>>

\* The body is too large, or the connection breaks or times out.
BodyFails(r) ==
  /\ at[r] = "body" /\ LoopFree
  /\ Fails(r, "413")
  /\ UNCHANGED <<table, past, token, inspected, claimed>>

ClaimRow(r) == RowOf(token[r])
ExpiredAtClaim(i) == Expired(i)
LastUse(i) == row[i].left = 1

\* The body is complete: claimToken, one immediate transaction.
Claim(r) ==
  /\ at[r] = "body" /\ LoopFree
  /\ \/ /\ ClaimRow(r) = {}
        /\ Answers404(r)
        /\ UNCHANGED <<row, fate, claimed>>
     \/ \E i \in ClaimRow(r) :
          \/ /\ ExpiredAtClaim(i)
             /\ Delete({i}) /\ Ends({i}, "expired")
             /\ Answers404(r)
             /\ UNCHANGED claimed
          \/ /\ ~ExpiredAtClaim(i)
             /\ claimed' = [claimed EXCEPT ![r] = HookAt(i)]
             /\ IF LastUse(i) THEN Delete({i}) /\ Ends({i}, "used up")
                ELSE /\ row' = IF row[i].left = Unlimited THEN row
                               ELSE [row EXCEPT ![i].left = @ - 1]
                     /\ UNCHANGED fate
             /\ Goes(r, "submit")
             /\ UNCHANGED answer
  /\ UNCHANGED <<terms, past, token, inspected>>

\* The database stays locked past its busy timeout.
ClaimFails(r) ==
  /\ at[r] = "body" /\ LoopFree
  /\ Fails(r, "500")
  /\ UNCHANGED <<table, past, token, inspected, claimed>>

\* Delivery takes the message, has no room for it, or is gone: the use is
\* spent in every case.
Submit(r) ==
  /\ at[r] = "submit" /\ LoopFree
  /\ \E code \in {"202", "202 dropped", "500"} : Fails(r, code)
  /\ UNCHANGED <<table, past, token, inspected, claimed>>

-----------------------------------------------------------------------------
Command ==
  \/ \E i \in Ids, t \in Threads, k \in Tokens : Create(i, t, k)
  \/ Revoke \/ List
  \/ \E i \in Ids : PassExpiry(i)

Handle(r) ==
  Inspect(r) \/ Sweep(r) \/ Admit(r) \/ BodyFails(r) \/ Claim(r) \/ ClaimFails(r) \/ Submit(r)

Next == Command \/ \E r \in Requests : Handle(r)

Spec == Init /\ [][Next]_vars
-----------------------------------------------------------------------------
(* Properties *)

\* One row per token, and no row without a use left.
TypeOK ==
  /\ row \in [Ids -> Rows \cup {None}]
  /\ \A i, j \in Present : row[i].token = row[j].token => i = j
  /\ terms \in [Tokens -> Terms \cup {None}]
  /\ fate \in [Tokens -> Fates]
  /\ past \subseteq Tokens
  /\ at \in [Requests -> Steps]
  /\ token \in [Requests -> Tokens \cup {None}]
  /\ inspected \in [Requests -> Hooks \cup {None}]
  /\ claimed \in [Requests -> Hooks \cup {None}]
  /\ answer \in [Requests -> Answers]

Claims(k) == Cardinality({r \in Requests : token[r] = k /\ claimed[r] # None})

\* A limited URL is claimed at most as often as it was created for, by
\* requests that all inspected it before any of them claimed; while its row
\* stands, uses left and claims add up.
UsesAccounted ==
  /\ \A k \in Tokens : terms[k] # None /\ terms[k].max # Unlimited => Claims(k) <= terms[k].max
  /\ \A i \in Present :
       row[i].left # Unlimited => row[i].left + Claims(row[i].token) = terms[row[i].token].max

ClaimsValid ==
  \A r \in Requests : claimed'[r] # claimed[r] =>
    fate[token[r]] = "valid" /\ token[r] \notin past

\* A request claims only a URL that is valid at that moment, whatever was
\* revoked, replaced, used up or expired since the request inspected it.
ClaimsLiveUrl == [][ClaimsValid]_vars

\* A claimed message goes to the task its URL was printed for, and that task
\* is the one it was authorized for and counted against.
RightTask ==
  \A r \in Requests : claimed[r] # None =>
    claimed[r].thread = terms[token[r]].thread /\ inspected[r] = claimed[r]

\* A URL that has not expired and was not revoked, replaced or used up has
\* its row: "Expired, revoked, and used-up URLs return 404" and no others.
ValidUrlWorks ==
  \A k \in Tokens : fate[k] = "valid" /\ k \notin past => RowOf(k) # {}
=============================================================================

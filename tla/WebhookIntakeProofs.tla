------------------------- MODULE WebhookIntakeProofs -------------------------
(***************************************************************************)
(* Proofs about WebhookIntake, for any ids, tasks, URLs and requests: that *)
(* uses and claims add up, that a claim goes to the task of its URL, and   *)
(* that only a URL valid at that moment is claimed; and that a sweep by    *)
(* token instead of by id would never take a URL that is valid.            *)
(***************************************************************************)
EXTENDS WebhookIntake, FiniteSetTheorems, TLAPS

Claimers(k) == {r \in Requests : token[r] = k /\ claimed[r] # None}

\* A row is of a valid URL, on the terms it was printed for, and what it has
\* left is what its URL was created for less the claims.
RowInv(i) ==
  LET k == row[i].token
  IN  /\ fate[k] = "valid"
      /\ terms[k] # None /\ terms[k].thread = row[i].thread
      /\ row[i].left = Unlimited <=> terms[k].max = Unlimited
      /\ row[i].left # Unlimited => row[i].left + Cardinality(Claimers(k)) = terms[k].max
      /\ k \in past => row[i].expires

\* A token is nobody's before it is drawn, and never overdrawn.
TokenInv(k) ==
  /\ fate[k] = "none" => terms[k] = None /\ k \notin past /\ \A r \in Requests : token[r] # k
  /\ terms[k] # None /\ terms[k].max # Unlimited => Cardinality(Claimers(k)) <= terms[k].max

\* The token of a request has no row but that of the hook it inspected.
KnowsHook(r) ==
  inspected[r] # None =>
    /\ token[r] # None /\ terms[token[r]] # None
    /\ inspected[r].thread = terms[token[r]].thread
    /\ \A i \in RowOf(token[r]) : HookAt(i) = inspected[r]

\* A request claims the hook it inspected.
RequestInv(r) ==
  /\ at[r] = "new" => token[r] = None /\ inspected[r] = None
  /\ at[r] \in {"sweep", "authorize", "body", "submit"} => inspected[r] # None
  /\ claimed[r] # None => at[r] \in {"submit", "answered"} /\ inspected[r] = claimed[r]
  /\ KnowsHook(r)

IInv ==
  /\ TypeOK
  /\ \A i \in Present : RowInv(i)
  /\ \A k \in Tokens : TokenInv(k)
  /\ \A r \in Requests : RequestInv(r)

LEMMA Starts == Init => IInv
<1> SUFFICES ASSUME Init PROVE IInv
  OBVIOUS
<1> USE DEF Init
<1>1. Present = {}
  BY DEF Present
<1>2. \A k : Claimers(k) = {}
  BY DEF Claimers
<1>3. TypeOK
  BY <1>1 DEF TypeOK, Fates, Steps, Answers
<1>4. \A k \in Tokens : TokenInv(k)
  BY IntakeAssumption DEF TokenInv
<1>5. \A r \in Requests : RequestInv(r)
  BY DEF RequestInv, KnowsHook
<1> QED BY <1>1, <1>3, <1>4, <1>5 DEF IInv

-----------------------------------------------------------------------------
(* Counting claims *)

LEMMA Counting ==
  ASSUME NEW k
  PROVE  IsFiniteSet(Claimers(k)) /\ Cardinality(Claimers(k)) \in Nat
<1>1. IsFiniteSet(Claimers(k))
  BY FS_Subset, IntakeAssumption DEF Claimers
<1> QED BY <1>1, FS_CardinalityType

\* A claim adds one to the claims of its token.
LEMMA ClaimCounts ==
  ASSUME TypeOK, NEW r \in Requests, claimed[r] = None, UNCHANGED token,
         NEW h, h # None, claimed' = [claimed EXCEPT ![r] = h],
         NEW k, token[r] = k
  PROVE  /\ Cardinality(Claimers(k))' = Cardinality(Claimers(k)) + 1
         /\ \A j : j # k => Claimers(j)' = Claimers(j)
<1>1. Claimers(k)' = Claimers(k) \cup {r} /\ r \notin Claimers(k)
  BY DEF Claimers, TypeOK
<1>2. \A j : j # k => Claimers(j)' = Claimers(j)
  BY DEF Claimers, TypeOK
<1> QED BY <1>1, <1>2, Counting, FS_AddElement

\* A row whose URL nobody claims stays accounted for.
LEMMA RowKept ==
  ASSUME NEW i, RowInv(i), row'[i] = row[i], UNCHANGED <<fate, terms, past>>,
         NEW k, row[i].token # k, \A j : j # k => Claimers(j)' = Claimers(j)
  PROVE  RowInv(i)'
<1>1. PICK m : m = row[i].token /\ m # k
  OBVIOUS
<1>2. Cardinality(Claimers(m))' = Cardinality(Claimers(m))
  BY <1>1
<1> QED BY <1>1, <1>2 DEF RowInv

\* The rest of the steps leave the claims as they are.
LEMMA ClaimsStay ==
  ASSUME UNCHANGED <<token, claimed>>
  PROVE  \A k : Claimers(k)' = Claimers(k)
BY DEF Claimers

-----------------------------------------------------------------------------
(* Steps that only take rows away *)

\* What is left is as it was.
Fewer == \A i \in Ids : row'[i] = row[i] \/ row'[i] = None

LEMMA FewerRows ==
  ASSUME Fewer
  PROVE  /\ \A i \in Present' : i \in Present /\ row'[i] = row[i]
         /\ \A k : RowOf(k)' \subseteq RowOf(k)
BY DEF Fewer, Present, RowOf

\* The statements that delete some rows and say what became of their URLs.
LEMMA Deleting ==
  ASSUME IInv, NEW S \in SUBSET Ids, Delete(S), NEW how \in Fates \ {"none"},
         \/ S \subseteq Present /\ Ends(S, how)
         \/ \E k \in Tokens : /\ RowOf(k) \subseteq S /\ fate[k] # "none"
                              /\ fate' = [fate EXCEPT ![k] = how]
  PROVE  /\ Fewer
         /\ row' \in [Ids -> Rows \cup {None}] /\ fate' \in [Tokens -> Fates]
         /\ \A i \in Present' : fate'[row[i].token] = fate[row[i].token]
         /\ \A k \in Tokens : fate'[k] = "none" => fate[k] = "none"
<1> USE DEF IInv, TypeOK
<1>1. Fewer /\ row' \in [Ids -> Rows \cup {None}]
  BY DEF Delete, Fewer
<1>2. \A i \in Present' : i \in Present /\ i \notin S /\ row[i].token \in Tokens
  BY DEF Delete, Present, Rows
<1>3. CASE S \subseteq Present /\ Ends(S, how)
  BY <1>1, <1>2, <1>3 DEF Ends
<1>4. CASE \E k \in Tokens : /\ RowOf(k) \subseteq S /\ fate[k] # "none"
                             /\ fate' = [fate EXCEPT ![k] = how]
  BY <1>1, <1>2, <1>4 DEF RowOf
<1> QED BY <1>3, <1>4

\* They keep the invariant of what they leave.
LEMMA FewerKeeps ==
  ASSUME IInv, Fewer, UNCHANGED <<terms, past, token, claimed>>,
         \A i \in Present' : fate'[row[i].token] = fate[row[i].token],
         \A k \in Tokens : fate'[k] = "none" => fate[k] = "none"
  PROVE  /\ \A i \in Present' : RowInv(i)'
         /\ \A k \in Tokens : TokenInv(k)'
         /\ \A i, j \in Present' : row'[i].token = row'[j].token => i = j
<1>1. \A k : Claimers(k)' = Claimers(k)
  BY ClaimsStay
<1>2. \A i \in Present' : RowInv(i)'
  BY <1>1, FewerRows DEF IInv, RowInv
<1>3. \A k \in Tokens : TokenInv(k)'
  BY <1>1 DEF IInv, TokenInv
<1> QED BY <1>2, <1>3, FewerRows DEF IInv, TypeOK

\* And so do requests, of the hooks they inspected: a row that stays keeps its
\* token and its task.
LEMMA HooksKept ==
  ASSUME UNCHANGED <<terms, token, inspected>>, NEW r \in Requests, KnowsHook(r),
         \A i \in Present' : /\ i \in Present /\ row'[i].token = row[i].token
                            /\ row'[i].thread = row[i].thread
  PROVE  KnowsHook(r)'
<1>1. \A i \in RowOf(token[r])' : i \in RowOf(token[r]) /\ HookAt(i)' = HookAt(i)
  BY DEF RowOf, HookAt
<1> QED BY <1>1 DEF KnowsHook

-----------------------------------------------------------------------------
(* Commands *)

LEMMA CreateStep ==
  ASSUME IInv, NEW i \in Ids, NEW t \in Threads, NEW k \in Tokens, Create(i, t, k)
  PROVE  IInv'
<1> USE DEF IInv, TypeOK
<1>1. PICK uses \in Uses, expires \in BOOLEAN :
        /\ row' = [row EXCEPT ![i] = [token |-> k, left |-> uses, expires |-> expires, thread |-> t]]
        /\ terms' = [terms EXCEPT ![k] = [thread |-> t, max |-> uses]]
  BY DEF Create, SameTask
<1>2. /\ fate[k] = "none" /\ UNCHANGED <<past, at, token, inspected, claimed, answer>>
      /\ fate' = [j \in Tokens |-> IF j = k THEN "valid"
                                   ELSE IF i \in Present /\ row[i].token = j THEN "replaced"
                                   ELSE fate[j]]
  BY DEF Create, handler
<1> DEFINE new == [token |-> k, left |-> uses, expires |-> expires, thread |-> t]
<1>3. new \in Rows /\ new # None
  BY IntakeAssumption DEF Rows
<1>4. [thread |-> t, max |-> uses] \in Terms /\ [thread |-> t, max |-> uses] # None
  BY IntakeAssumption DEF Terms
<1>5. /\ Present' = Present \cup {i} /\ row'[i] = new
      /\ \A e \in Present' \ {i} : e \in Present /\ row'[e] = row[e]
  BY <1>1, <1>3 DEF Present
<1>6. \A e \in Present : row[e] \in Rows /\ row[e].token \in Tokens /\ row[e].token # k
  BY <1>2 DEF Present, Rows, RowInv
<1>7. \A j \in Tokens \ {k} : terms'[j] = terms[j]
  BY <1>1
<1>8. \A j : Claimers(j)' = Claimers(j)
  BY <1>2, ClaimsStay
<1>9. TypeOK'
  <2>1. \A a, b \in Present' : row'[a].token = row'[b].token => a = b
    BY <1>5, <1>6
  <2>2. row' \in [Ids -> Rows \cup {None}] /\ terms' \in [Tokens -> Terms \cup {None}]
    BY <1>1, <1>3, <1>4
  <2>3. fate' \in [Tokens -> Fates]
    BY <1>2 DEF Fates
  <2> QED BY <1>2, <2>1, <2>2, <2>3
<1>10. ASSUME NEW e \in Present' PROVE RowInv(e)'
  <2>1. CASE e = i
    <3>1. \A r \in Requests : token[r] # k
      BY <1>2 DEF TokenInv
    <3>2. Claimers(k) = {}
      BY <3>1 DEF Claimers
    <3>3. Cardinality(Claimers(k)') = 0
      BY <1>8, <3>2, FS_EmptySet
    <3>4. /\ fate'[k] = "valid" /\ k \notin past' /\ row'[e].token = k /\ row'[e].thread = t
          /\ row'[e].left = uses /\ terms'[k] = [thread |-> t, max |-> uses] /\ terms'[k] # None
      BY <1>1, <1>2, <1>4, <1>5, <2>1 DEF TokenInv
    <3>5. uses # Unlimited => uses + 0 = uses
      BY DEF Uses
    <3> QED BY <3>3, <3>4, <3>5 DEF RowInv
  <2>2. CASE e # i
    <3>1. /\ e \in Present /\ row'[e] = row[e] /\ RowInv(e) /\ row[e].token \in Tokens \ {k}
          /\ i \in Present => row[i].token # row[e].token
      BY <1>5, <1>6, <2>2
    <3>2. fate'[row[e].token] = fate[row[e].token] /\ terms'[row[e].token] = terms[row[e].token]
      BY <1>2, <1>7, <3>1
    <3> QED BY <1>2, <1>8, <3>1, <3>2 DEF RowInv
  <2> QED BY <2>1, <2>2
<1>11. ASSUME NEW j \in Tokens PROVE TokenInv(j)'
  <2>1. CASE j = k
    <3>1. Claimers(k) = {}
      BY <1>2 DEF Claimers, TokenInv
    <3>2. Cardinality(Claimers(k)') = 0
      BY <1>8, <3>1, FS_EmptySet
    <3>3. fate'[k] = "valid" /\ terms'[k].max = uses
      BY <1>1, <1>2
    <3>4. uses # Unlimited => 0 <= uses
      BY DEF Uses
    <3> QED BY <2>1, <3>2, <3>3, <3>4 DEF TokenInv
  <2>2. CASE j # k
    BY <1>2, <1>7, <1>8, <2>2 DEF TokenInv
  <2> QED BY <2>1, <2>2
<1>12. ASSUME NEW r \in Requests PROVE RequestInv(r)'
  <2>1. RequestInv(r) /\ token[r] # k
    BY <1>2 DEF TokenInv
  <2>2. token[r] # None => terms'[token[r]] = terms[token[r]]
    BY <1>7, <2>1
  <2>3. \A e \in RowOf(token[r])' : e \in RowOf(token[r]) /\ HookAt(e)' = HookAt(e)
    BY <1>2, <1>5, <2>1 DEF RowOf, HookAt
  <2> QED BY <1>2, <2>1, <2>2, <2>3 DEF RequestInv, KnowsHook
<1> QED BY <1>9, <1>10, <1>11, <1>12

LEMMA CommandStep == IInv /\ Command => IInv'
<1> SUFFICES ASSUME IInv, Command PROVE IInv'
  OBVIOUS
<1>1. ASSUME NEW S \in SUBSET Present, NEW how \in Fates \ {"none"}, Delete(S), Ends(S, how),
             UNCHANGED <<terms, past, handler>>
      PROVE  IInv'
  <2>1. /\ Fewer /\ row' \in [Ids -> Rows \cup {None}] /\ fate' \in [Tokens -> Fates]
        /\ \A i \in Present' : fate'[row[i].token] = fate[row[i].token]
        /\ \A k \in Tokens : fate'[k] = "none" => fate[k] = "none"
    <3>1. S \in SUBSET Ids
      BY DEF Present
    <3> QED BY <1>1, <3>1, Deleting
  <2>2. /\ \A i \in Present' : RowInv(i)'
        /\ \A k \in Tokens : TokenInv(k)'
        /\ \A i, j \in Present' : row'[i].token = row'[j].token => i = j
    BY <1>1, <2>1, FewerKeeps DEF handler
  <2>3. ASSUME NEW r \in Requests PROVE RequestInv(r)'
    <3>1. KnowsHook(r)'
      BY <1>1, <2>1, FewerRows, HooksKept DEF handler, IInv, RequestInv
    <3> QED BY <1>1, <3>1 DEF handler, IInv, RequestInv
  <2>4. TypeOK'
    BY <1>1, <2>1, <2>2 DEF handler, IInv, TypeOK
  <2> QED BY <2>2, <2>3, <2>4 DEF IInv
<1>2. ASSUME NEW i \in Ids, NEW t \in Threads, NEW k \in Tokens, Create(i, t, k) PROVE IInv'
  BY <1>2, CreateStep
<1>3. CASE Revoke
  <2>1. "revoked" \in Fates \ {"none"}
    BY DEF Fates
  <2> QED BY <1>1, <1>3, <2>1 DEF Revoke
<1>4. CASE List
  <2>1. "expired" \in Fates \ {"none"}
    BY DEF Fates
  <2> QED BY <1>1, <1>4, <2>1 DEF List
<1>5. ASSUME NEW i \in Ids, PassExpiry(i) PROVE IInv'
  <2>1. i \in Present /\ row[i].expires /\ past' = past \cup {row[i].token}
        /\ UNCHANGED <<row, terms, fate, at, token, inspected, claimed, answer>>
    BY <1>5 DEF PassExpiry, table, handler
  <2>2. RowInv(i) /\ row[i].token \in Tokens
    BY <2>1 DEF IInv, TypeOK, Present, Rows
  <2>3. Present' = Present /\ \A k : Claimers(k)' = Claimers(k)
    BY <2>1 DEF Present, Claimers
  <2>4. TypeOK'
    BY <2>1, <2>2, <2>3 DEF IInv, TypeOK
  <2>5. \A e \in Present' : RowInv(e)'
    <3>1. \A e \in Present : row[e].token = row[i].token => e = i
      BY <2>1 DEF IInv, TypeOK
    <3> QED BY <2>1, <2>3, <3>1 DEF IInv, RowInv
  <2>6. \A k \in Tokens : TokenInv(k)'
    BY <2>1, <2>2, <2>3 DEF IInv, TokenInv, RowInv
  <2>7. \A r \in Requests : RequestInv(r)'
    BY <2>1, <2>3, HooksKept DEF IInv, RequestInv
  <2> QED BY <2>4, <2>5, <2>6, <2>7 DEF IInv
<1> QED BY <1>2, <1>3, <1>4, <1>5 DEF Command

-----------------------------------------------------------------------------
(* The handler *)

LEMMA InspectStep ==
  ASSUME IInv, NEW r \in Requests, Inspect(r)
  PROVE  IInv'
<1> USE DEF IInv, TypeOK
<1>1. PICK k \in Tokens :
        /\ fate[k] # "none"
        /\ token' = [token EXCEPT ![r] = k]
        /\ \/ RowOf(k) = {} /\ Answers404(r) /\ UNCHANGED inspected
           \/ \E i \in RowOf(k) :
                /\ Goes(r, IF Expired(i) THEN "sweep" ELSE "authorize")
                /\ inspected' = [inspected EXCEPT ![r] = HookAt(i)]
                /\ UNCHANGED answer
  BY DEF Inspect
<1>2. /\ at[r] = "new" /\ token[r] = None /\ inspected[r] = None /\ claimed[r] = None
      /\ UNCHANGED <<row, terms, fate, past, claimed>>
  BY DEF Inspect, table, RequestInv
<1>3. \A j : Claimers(j)' = Claimers(j)
  BY <1>1, <1>2 DEF Claimers
<1>4. Present' = Present /\ \A j : RowOf(j)' = RowOf(j)
  BY <1>2 DEF Present, RowOf
<1>5. \A i \in RowOf(k) : /\ HookAt(i) \in Hooks /\ HookAt(i) # None
                          /\ HookAt(i).thread = terms[k].thread /\ terms[k] # None
                          /\ \A e \in RowOf(k) : e = i
  <2> SUFFICES ASSUME NEW i \in RowOf(k)
               PROVE  /\ HookAt(i) \in Hooks /\ HookAt(i) # None
                      /\ HookAt(i).thread = terms[k].thread /\ terms[k] # None
                      /\ \A e \in RowOf(k) : e = i
    OBVIOUS
  <2>1. i \in Present /\ i \in Ids /\ row[i] \in Rows /\ row[i].token = k /\ RowInv(i)
    BY DEF RowOf, Present
  <2>2. HookAt(i) \in Hooks
    BY <2>1 DEF HookAt, Hooks, Rows
  <2>3. HookAt(i) # None
    BY <2>2, IntakeAssumption
  <2> QED BY <2>1, <2>2, <2>3 DEF HookAt, RowInv, RowOf
<1>6. TypeOK'
  <2>1. at' \in [Requests -> Steps]
    BY <1>1 DEF Answers404, Goes, Steps
  <2>2. inspected' \in [Requests -> Hooks \cup {None}]
    BY <1>1, <1>5
  <2>3. answer' \in [Requests -> Answers] /\ token' \in [Requests -> Tokens \cup {None}]
    BY <1>1 DEF Answers404, Answers
  <2> QED BY <1>2, <1>4, <2>1, <2>2, <2>3
<1>7. \A i \in Present' : RowInv(i)'
  BY <1>2, <1>3, <1>4 DEF RowInv
<1>8. \A j \in Tokens : TokenInv(j)'
  BY <1>1, <1>2, <1>3 DEF TokenInv
<1>9. ASSUME NEW e \in Requests, e # r PROVE RequestInv(e)'
  <2>1. RequestInv(e) /\ at'[e] = at[e] /\ token'[e] = token[e] /\ inspected'[e] = inspected[e]
    BY <1>1, <1>9 DEF Answers404, Goes
  <2>2. KnowsHook(e)'
    BY <1>2, <1>4, <2>1 DEF KnowsHook, RequestInv, HookAt
  <2> QED BY <1>2, <2>1, <2>2 DEF RequestInv
<1>10. RequestInv(r)'
  <2>1. token'[r] = k /\ k # None
    BY <1>1, IntakeAssumption
  <2>2. CASE RowOf(k) = {} /\ Answers404(r) /\ UNCHANGED inspected
    BY <1>2, <2>2 DEF Answers404, Goes, RequestInv, KnowsHook
  <2>3. ASSUME NEW i \in RowOf(k), Goes(r, IF Expired(i) THEN "sweep" ELSE "authorize"),
               inspected' = [inspected EXCEPT ![r] = HookAt(i)]
        PROVE  RequestInv(r)'
    <3>1. inspected'[r] = HookAt(i) /\ at'[r] \in {"sweep", "authorize"}
      BY <2>3 DEF Goes
    <3>2. KnowsHook(r)'
      BY <1>2, <1>4, <1>5, <2>1, <3>1 DEF KnowsHook, HookAt
    <3> QED BY <1>2, <1>5, <3>1, <3>2 DEF RequestInv
  <2> QED BY <1>1, <2>2, <2>3
<1> QED BY <1>6, <1>7, <1>8, <1>9, <1>10

\* The deletion of at least the row of the request's token, and at most the row
\* with the id of the hook it inspected.
Sweeps(r, S) ==
  /\ at[r] = "sweep" /\ Delete(S)
  /\ fate' = [fate EXCEPT ![token[r]] = IF @ = "valid" THEN "expired" ELSE @]
  /\ Answers404(r)
  /\ UNCHANGED <<terms, past, token, inspected, claimed>>

\* The only row that can have the request's token is that of its hook.
LEMMA SweptRow ==
  ASSUME IInv, NEW r \in Requests, at[r] = "sweep"
  PROVE  inspected[r].id \in Ids /\ RowOf(token[r]) \subseteq {inspected[r].id}
<1> USE DEF IInv
<1>1. inspected[r] # None /\ inspected[r] \in Hooks
  BY DEF RequestInv, TypeOK
<1>2. \A i \in RowOf(token[r]) : HookAt(i) = inspected[r]
  BY <1>1 DEF RequestInv, KnowsHook
<1>3. \A i : HookAt(i).id = i
  BY DEF HookAt
<1> QED BY <1>1, <1>2, <1>3 DEF Hooks

LEMMA SweepKeeps ==
  ASSUME IInv, NEW r \in Requests, NEW S \in SUBSET Ids, RowOf(token[r]) \subseteq S, Sweeps(r, S)
  PROVE  IInv'
<1> USE DEF IInv
<1>1. /\ at[r] = "sweep" /\ inspected[r] # None /\ token[r] # None /\ claimed[r] = None
      /\ Delete(S)
      /\ fate' = [fate EXCEPT ![token[r]] = IF @ = "valid" THEN "expired" ELSE @]
      /\ at' = [at EXCEPT ![r] = "answered"] /\ answer' = [answer EXCEPT ![r] = "404"]
      /\ UNCHANGED <<terms, past, token, inspected, claimed>>
  BY DEF Sweeps, Answers404, Goes, RequestInv, KnowsHook
<1>2. /\ Fewer /\ row' \in [Ids -> Rows \cup {None}] /\ fate' \in [Tokens -> Fates]
      /\ \A i \in Present' : fate'[row[i].token] = fate[row[i].token]
      /\ \A k \in Tokens : fate'[k] = "none" => fate[k] = "none"
  <2>1. token[r] \in Tokens /\ fate[token[r]] \in Fates \ {"none"}
    BY <1>1 DEF TypeOK, TokenInv
  <2> DEFINE how == IF fate[token[r]] = "valid" THEN "expired" ELSE fate[token[r]]
  <2>2. how \in Fates \ {"none"} /\ fate' = [fate EXCEPT ![token[r]] = how]
    BY <1>1, <2>1 DEF Fates
  <2> HIDE DEF how
  <2> QED BY <1>1, <2>1, <2>2, Deleting
<1>3. /\ \A i \in Present' : RowInv(i)'
      /\ \A k \in Tokens : TokenInv(k)'
      /\ \A i, j \in Present' : row'[i].token = row'[j].token => i = j
  BY <1>1, <1>2, FewerKeeps
<1>4. ASSUME NEW e \in Requests PROVE RequestInv(e)'
  <2>1. KnowsHook(e)'
    BY <1>1, <1>2, FewerRows, HooksKept DEF RequestInv
  <2> QED BY <1>1, <2>1 DEF RequestInv, TypeOK
<1>5. TypeOK'
  BY <1>1, <1>2, <1>3 DEF TypeOK, Steps, Answers
<1> QED BY <1>3, <1>4, <1>5

LEMMA SweepStep ==
  ASSUME IInv, NEW r \in Requests, Sweep(r)
  PROVE  IInv'
<1>1. Sweeps(r, {inspected[r].id})
  BY DEF Sweep, Sweeps
<1>2. {inspected[r].id} \in SUBSET Ids /\ RowOf(token[r]) \subseteq {inspected[r].id}
  BY <1>1, SweptRow DEF Sweeps
<1> QED BY <1>1, <1>2, SweepKeeps

\* The rest of the handler's steps touch neither the table nor a claim.
LEMMA AnswerStep ==
  ASSUME IInv, NEW r \in Requests, Admit(r) \/ BodyFails(r) \/ ClaimFails(r) \/ Submit(r)
  PROVE  IInv'
<1> USE DEF IInv
<1>1. /\ at[r] \in {"authorize", "body", "submit"}
      /\ at' = [at EXCEPT ![r] = IF at'[r] = "body" THEN "body" ELSE "answered"]
      /\ at[r] = "submit" => at'[r] = "answered"
      /\ answer' \in [Requests -> Answers]
      /\ UNCHANGED <<row, terms, fate, past, token, inspected, claimed>>
  BY DEF Admit, BodyFails, ClaimFails, Submit, Fails, Goes, table, TypeOK, Answers
<1>2. \A k : Claimers(k)' = Claimers(k)
  BY <1>1, ClaimsStay
<1>3. TypeOK'
  BY <1>1 DEF TypeOK, Steps, Present
<1>4. \A i \in Present' : RowInv(i)'
  BY <1>1, <1>2 DEF RowInv, Present
<1>5. \A k \in Tokens : TokenInv(k)'
  BY <1>1, <1>2 DEF TokenInv
<1>6. ASSUME NEW e \in Requests PROVE RequestInv(e)'
  <2>1. KnowsHook(e)'
    BY <1>1, HooksKept DEF RequestInv, Present
  <2> QED BY <1>1, <2>1 DEF RequestInv, TypeOK
<1> QED BY <1>3, <1>4, <1>5, <1>6

-----------------------------------------------------------------------------
(* The claim *)

\* The row a claim finds, and what it says of its URL.
LEMMA FoundRow ==
  ASSUME IInv, NEW r \in Requests, at[r] = "body", NEW i \in ClaimRow(r)
  PROVE  /\ i \in Present /\ i \in Ids /\ row[i] \in Rows /\ row[i].token = token[r]
         /\ token[r] \in Tokens
         /\ RowInv(i) /\ TokenInv(token[r]) /\ claimed[r] = None
         /\ HookAt(i) = inspected[r] /\ HookAt(i) # None /\ HookAt(i) \in Hooks
<1>1. i \in Present /\ i \in Ids /\ row[i].token = token[r] /\ row[i] \in Rows
  BY DEF ClaimRow, RowOf, Present, IInv, TypeOK
<1>2. token[r] \in Tokens
  BY <1>1 DEF Rows
<1>3. claimed[r] = None /\ inspected[r] # None /\ inspected[r] \in Hooks
  BY DEF IInv, RequestInv, TypeOK
<1>4. HookAt(i) = inspected[r]
  BY <1>1, <1>3 DEF IInv, RequestInv, KnowsHook, ClaimRow
<1> QED BY <1>1, <1>2, <1>3, <1>4 DEF IInv

\* A row that has expired is deleted, or the last use of one is taken.
LEMMA ClaimDeletes ==
  ASSUME IInv, NEW r \in Requests, at[r] = "body", NEW i \in ClaimRow(r),
         Delete({i}), NEW how \in Fates \ {"none"}, Ends({i}, how)
  PROVE  /\ Fewer /\ row' \in [Ids -> Rows \cup {None}] /\ fate' \in [Tokens -> Fates]
         /\ \A e \in Present' : fate'[row[e].token] = fate[row[e].token]
         /\ \A k \in Tokens : fate'[k] = "none" => fate[k] = "none"
         /\ \A e \in Present' : row[e].token # token[r]
<1>1. {i} \subseteq Present /\ {i} \in SUBSET Ids
  BY FoundRow
<1>2. i \notin Present'
  BY <1>1 DEF Delete, Present
<1>3. Fewer
  BY DEF Delete, Fewer
<1>4. \A e \in Present' : row[e].token # token[r]
  BY <1>2, <1>3, FewerRows, FoundRow DEF IInv, TypeOK
<1> QED BY <1>1, <1>4, Deleting

\* A use is taken.
Taken(r, i) ==
  /\ claimed' = [claimed EXCEPT ![r] = HookAt(i)]
  /\ at' = [at EXCEPT ![r] = "submit"]
  /\ UNCHANGED <<terms, past, token, inspected, answer>>

\* The claim is of the hook that was inspected.
LEMMA TakenRequest ==
  ASSUME IInv, NEW r \in Requests, at[r] = "body", NEW i \in ClaimRow(r), Taken(r, i),
         NEW e \in Requests, KnowsHook(e)'
  PROVE  RequestInv(e)'
<1>1. RequestInv(e)
  BY DEF IInv
<1>2. CASE e = r
  <2>1. claimed'[r] = inspected[r] /\ inspected[r] # None /\ at'[r] = "submit"
    BY FoundRow DEF Taken, IInv, TypeOK
  <2> QED BY <1>2, <2>1 DEF RequestInv, Taken
<1>3. CASE e # r
  <2>1. claimed'[e] = claimed[e] /\ at'[e] = at[e]
    BY <1>3 DEF Taken
  <2> QED BY <1>1, <2>1 DEF RequestInv, Taken
<1> QED BY <1>2, <1>3

LEMMA TakenTypes ==
  ASSUME IInv, NEW r \in Requests, at[r] = "body", NEW i \in ClaimRow(r), Taken(r, i)
  PROVE  at' \in [Requests -> Steps] /\ claimed' \in [Requests -> Hooks \cup {None}]
BY FoundRow DEF Taken, IInv, TypeOK, Steps

\* The last use: the row goes, and the URL has been claimed as often as it
\* was created for.
LEMMA LastClaim ==
  ASSUME IInv, NEW r \in Requests, at[r] = "body", NEW i \in ClaimRow(r), Taken(r, i),
         LastUse(i), Delete({i}), NEW how \in Fates \ {"none"}, Ends({i}, how)
  PROVE  IInv'
<1>1. PICK k \in Tokens : token[r] = k
  BY FoundRow
<1>2. /\ Fewer /\ row' \in [Ids -> Rows \cup {None}] /\ fate' \in [Tokens -> Fates]
      /\ \A e \in Present' : fate'[row[e].token] = fate[row[e].token]
      /\ \A j \in Tokens : fate'[j] = "none" => fate[j] = "none"
      /\ \A e \in Present' : row[e].token # k
  BY <1>1, ClaimDeletes
<1>3. /\ Cardinality(Claimers(k))' = Cardinality(Claimers(k)) + 1
      /\ \A j : j # k => Claimers(j)' = Claimers(j)
  BY <1>1, FoundRow, ClaimCounts DEF Taken, IInv
<1>4. \A e \in Present' : e \in Present /\ row'[e] = row[e]
  BY <1>2, FewerRows
<1>5. UNCHANGED <<terms, past, token, inspected>>
  BY DEF Taken
<1>6. ASSUME NEW e \in Present' PROVE RowInv(e)'
  <2>1. RowInv(e) /\ row'[e] = row[e] /\ fate'[row[e].token] = fate[row[e].token]
    BY <1>2, <1>4 DEF IInv
  <2> QED BY <1>2, <1>3, <1>5, <2>1 DEF RowInv
<1>7. ASSUME NEW j \in Tokens PROVE TokenInv(j)'
  <2>1. TokenInv(j) /\ fate'[j] = "none" => fate[j] = "none"
    BY <1>2 DEF IInv
  <2>2. CASE j # k
    <3>1. Claimers(j)' = Claimers(j)
      BY <1>3, <2>2
    <3> QED BY <1>2, <1>5, <2>1, <3>1 DEF IInv, TokenInv
  <2>3. CASE j = k
    <3>1. Unlimited # 1
      BY IntakeAssumption
    <3>2. row[i].left = 1
      BY DEF LastUse
    <3>3. row[i].left + Cardinality(Claimers(k)) = terms[k].max
      BY <1>1, <3>1, <3>2, FoundRow DEF RowInv
    <3>4. Cardinality(Claimers(k))' <= terms'[k].max
      <4>1. PICK n \in Nat : n = Cardinality(Claimers(k))
        BY Counting
      <4>2. terms'[k].max = n + 1
        BY <1>5, <3>2, <3>3, <4>1
      <4> QED BY <1>3, <4>1, <4>2
    <3> QED BY <1>2, <1>5, <2>3, <3>4 DEF IInv, TokenInv
  <2> QED BY <2>2, <2>3
<1>8. \A e \in Requests : RequestInv(e)'
  BY <1>4, HooksKept, TakenRequest DEF IInv, RequestInv, Taken
<1>9. TypeOK'
  <2>1. \A e, f \in Present' : row'[e].token = row'[f].token => e = f
    BY <1>4 DEF IInv, TypeOK
  <2> QED BY <1>2, <1>5, <2>1, TakenTypes DEF IInv, TypeOK, Taken
<1> QED BY <1>6, <1>7, <1>8, <1>9 DEF IInv

\* The row of a use that is not the last.
LEMMA UsedRow ==
  ASSUME IInv, NEW i \in Ids, row[i] \in Rows, ~LastUse(i),
         row' = IF row[i].left = Unlimited THEN row ELSE [row EXCEPT ![i].left = @ - 1]
  PROVE  row'[i] \in Rows /\ row'[i].token = row[i].token
<1>1. CASE row[i].left = Unlimited
  BY <1>1
<1>2. CASE row[i].left # Unlimited
  <2>1. row[i].left \in 1..MaxUses /\ row[i].left # 1
    BY <1>2 DEF Rows, Uses, LastUse
  <2>2. row[i].left - 1 \in Uses
    BY <2>1, IntakeAssumption DEF Uses
  <2>3. row'[i] = [row[i] EXCEPT !.left = row[i].left - 1]
    BY <1>2 DEF IInv, TypeOK
  <2> QED BY <2>2, <2>3 DEF Rows
<1> QED BY <1>1, <1>2

\* A use that is not the last: one less is left, or there is no limit.
LEMMA UseClaim ==
  ASSUME IInv, NEW r \in Requests, at[r] = "body", NEW i \in ClaimRow(r), Taken(r, i),
         ~LastUse(i), UNCHANGED fate,
         row' = IF row[i].left = Unlimited THEN row ELSE [row EXCEPT ![i].left = @ - 1]
  PROVE  IInv'
<1>1. PICK k \in Tokens : token[r] = k
  BY FoundRow
<1>2. i \in Present /\ i \in Ids /\ row[i] \in Rows /\ row[i].token = k /\ RowInv(i)
  BY <1>1, FoundRow
<1>3. /\ Cardinality(Claimers(k))' = Cardinality(Claimers(k)) + 1
      /\ \A j : j # k => Claimers(j)' = Claimers(j)
  BY <1>1, FoundRow, ClaimCounts DEF Taken, IInv
<1>4. PICK n \in Nat : n = Cardinality(Claimers(k))
  BY Counting
<1>5. UNCHANGED <<terms, past, token, inspected>>
  BY DEF Taken
<1>6. /\ row'[i] \in Rows /\ row'[i].token = k /\ row'[i].thread = row[i].thread
      /\ row'[i].expires = row[i].expires
      /\ row[i].left = Unlimited => row'[i].left = Unlimited
      /\ row[i].left # Unlimited =>
           row[i].left \in 1..MaxUses /\ row'[i].left = row[i].left - 1 /\ row'[i].left # Unlimited
           /\ row'[i].left \in Nat /\ row'[i].left >= 1
  <2>1. CASE row[i].left = Unlimited
    BY <1>2, <2>1
  <2>2. CASE row[i].left # Unlimited
    <3>1. row[i].left \in 1..MaxUses /\ row[i].left # 1
      BY <1>2, <2>2 DEF Rows, Uses, LastUse
    <3>2. row[i].left - 1 \in 1..MaxUses /\ row[i].left - 1 \in Nat
      BY <3>1, IntakeAssumption
    <3>3. row' = [row EXCEPT ![i] = [row[i] EXCEPT !.left = row[i].left - 1]]
      BY <2>2
    <3>4. row'[i] = [row[i] EXCEPT !.left = row[i].left - 1]
      BY <1>2, <3>3 DEF IInv, TypeOK
    <3>5. row[i].left - 1 \in Uses /\ row[i].left - 1 # Unlimited
      BY <3>2, IntakeAssumption DEF Uses
    <3> QED BY <1>2, <2>2, <3>1, <3>2, <3>4, <3>5 DEF Rows
  <2> QED BY <2>1, <2>2
<1>7. \A e \in Ids \ {i} : row'[e] = row[e]
  BY DEF IInv, TypeOK
<1>8. /\ row' \in [Ids -> Rows \cup {None}] /\ Present' = Present
      /\ \A e \in Present : row'[e].token = row[e].token /\ row'[e].thread = row[e].thread
  <2>1. DOMAIN row' = Ids /\ row' = [e \in Ids |-> row'[e]]
    BY DEF IInv, TypeOK
  <2>2. \A e \in Ids : row'[e] \in Rows \cup {None}
    BY <1>6, <1>7 DEF IInv, TypeOK
  <2>3. Present' = Present
    BY <1>2, <1>6, <1>7, IntakeAssumption DEF Present
  <2> QED BY <1>2, <1>6, <1>7, <2>1, <2>2, <2>3 DEF Present
<1>9. ASSUME NEW e \in Present' PROVE RowInv(e)'
  <2>1. CASE e # i
    <3>1. e \in Present /\ e \in Ids /\ RowInv(e) /\ row'[e] = row[e] /\ row[e].token # k
      BY <1>2, <1>7, <1>8, <2>1 DEF IInv, TypeOK, Present
    <3> QED BY <1>3, <1>5, <3>1, RowKept
  <2>2. CASE e = i
    <3>1. /\ fate'[k] = "valid" /\ terms'[k] # None /\ terms'[k].thread = row'[i].thread
          /\ k \in past' => row'[i].expires
          /\ row'[i].left = Unlimited <=> terms'[k].max = Unlimited
      BY <1>2, <1>5, <1>6 DEF RowInv
    <3>2. row'[i].left # Unlimited => row'[i].left + Cardinality(Claimers(k))' = terms'[k].max
      <4> SUFFICES ASSUME row'[i].left # Unlimited
                   PROVE  row'[i].left + Cardinality(Claimers(k))' = terms'[k].max
        OBVIOUS
      <4>1. row[i].left + n = terms[k].max /\ row[i].left \in Int
        BY <1>2, <1>4, <1>6 DEF RowInv
      <4>2. row'[i].left = row[i].left - 1 /\ Cardinality(Claimers(k))' = n + 1
        BY <1>3, <1>4, <1>6
      <4> QED BY <1>5, <4>1, <4>2
    <3>3. row'[i].token = k
      BY <1>6
    <3> QED BY <2>2, <3>1, <3>2, <3>3 DEF RowInv
  <2> QED BY <2>1, <2>2
<1>10. ASSUME NEW j \in Tokens PROVE TokenInv(j)'
  <2>1. CASE j # k
    BY <1>3, <1>5, <2>1 DEF IInv, TokenInv
  <2>2. CASE j = k
    <3>1. row'[i].left # Unlimited =>
            row'[i].left \in Nat /\ row'[i].left + (n + 1) = terms[k].max
      BY <1>2, <1>4, <1>6 DEF RowInv
    <3>2. terms[k].max # Unlimited => n + 1 <= terms[k].max
      BY <1>2, <1>6, <3>1 DEF RowInv
    <3>3. terms'[k].max # Unlimited => Cardinality(Claimers(k))' <= terms'[k].max
      BY <1>3, <1>4, <1>5, <3>2
    <3> QED BY <1>2, <1>5, <2>2, <3>3 DEF IInv, TokenInv, RowInv
  <2> QED BY <2>1, <2>2
<1>11. \A e \in Requests : RequestInv(e)'
  BY <1>5, <1>8, HooksKept, TakenRequest DEF IInv, RequestInv
<1>12. TypeOK'
  <2>1. \A e, f \in Present' : row'[e].token = row'[f].token => e = f
    BY <1>8 DEF IInv, TypeOK
  <2> QED BY <1>5, <1>8, <2>1, TakenTypes DEF IInv, TypeOK, Taken
<1> QED BY <1>9, <1>10, <1>11, <1>12 DEF IInv

LEMMA ClaimStep ==
  ASSUME IInv, NEW r \in Requests, Claim(r)
  PROVE  IInv'
<1>1. at[r] = "body" /\ UNCHANGED <<terms, past, token, inspected>>
  BY DEF Claim
\* It finds no row, or one that has expired: nothing is claimed.
<1>2. ASSUME Answers404(r), UNCHANGED claimed,
             \/ UNCHANGED <<row, fate>>
             \/ \E i \in ClaimRow(r) : Delete({i}) /\ Ends({i}, "expired")
      PROVE  IInv'
  <2>1. /\ Fewer /\ row' \in [Ids -> Rows \cup {None}] /\ fate' \in [Tokens -> Fates]
        /\ \A e \in Present' : fate'[row[e].token] = fate[row[e].token]
        /\ \A k \in Tokens : fate'[k] = "none" => fate[k] = "none"
    <3>1. CASE UNCHANGED <<row, fate>>
      BY <3>1 DEF Fewer, IInv, TypeOK
    <3>2. ASSUME NEW i \in ClaimRow(r), Delete({i}), Ends({i}, "expired")
          PROVE  /\ Fewer /\ row' \in [Ids -> Rows \cup {None}] /\ fate' \in [Tokens -> Fates]
                 /\ \A e \in Present' : fate'[row[e].token] = fate[row[e].token]
                 /\ \A k \in Tokens : fate'[k] = "none" => fate[k] = "none"
      <4>1. "expired" \in Fates \ {"none"}
        BY DEF Fates
      <4> QED BY <1>1, <3>2, <4>1, ClaimDeletes
    <3> QED BY <1>2, <3>1, <3>2
  <2>2. /\ \A e \in Present' : RowInv(e)'
        /\ \A k \in Tokens : TokenInv(k)'
        /\ \A e, f \in Present' : row'[e].token = row'[f].token => e = f
    BY <1>1, <1>2, <2>1, FewerKeeps
  <2>3. at' = [at EXCEPT ![r] = "answered"] /\ answer' = [answer EXCEPT ![r] = "404"]
    BY <1>2 DEF Answers404, Goes
  <2>4. ASSUME NEW e \in Requests PROVE RequestInv(e)'
    <3>1. KnowsHook(e)'
      BY <1>1, <2>1, FewerRows, HooksKept DEF IInv, RequestInv
    <3> QED BY <1>1, <1>2, <2>3, <3>1 DEF IInv, RequestInv, TypeOK
  <2>5. TypeOK'
    BY <1>1, <1>2, <2>1, <2>2, <2>3 DEF IInv, TypeOK, Steps, Answers
  <2> QED BY <2>2, <2>4, <2>5 DEF IInv
<1>3. ASSUME NEW i \in ClaimRow(r), claimed' = [claimed EXCEPT ![r] = HookAt(i)],
             Goes(r, "submit"), UNCHANGED answer,
             IF LastUse(i) THEN Delete({i}) /\ Ends({i}, "used up")
             ELSE /\ row' = IF row[i].left = Unlimited THEN row
                            ELSE [row EXCEPT ![i].left = @ - 1]
                  /\ UNCHANGED fate
      PROVE  IInv'
  <2>1. Taken(r, i)
    BY <1>1, <1>3 DEF Taken, Goes
  <2>2. "used up" \in Fates \ {"none"}
    BY DEF Fates
  <2>3. CASE LastUse(i)
    BY <1>1, <1>3, <2>1, <2>2, <2>3, LastClaim
  <2>4. CASE ~LastUse(i)
    BY <1>1, <1>3, <2>1, <2>4, UseClaim
  <2> QED BY <2>3, <2>4
<1> QED BY <1>2, <1>3 DEF Claim

LEMMA IntakeStep == IInv /\ [Next]_vars => IInv'
<1> SUFFICES ASSUME IInv, [Next]_vars PROVE IInv'
  OBVIOUS
<1>1. ASSUME NEW r \in Requests, Handle(r) PROVE IInv'
  BY <1>1, InspectStep, SweepStep, AnswerStep, ClaimStep DEF Handle
<1>2. CASE UNCHANGED vars
  <2>1. UNCHANGED <<row, terms, fate, past, at, token, inspected, claimed, answer>>
    BY <1>2 DEF vars
  <2>2. \A k : Claimers(k)' = Claimers(k)
    BY <2>1 DEF Claimers
  <2>3. TypeOK' /\ \A r \in Requests : RequestInv(r)'
    BY <2>1 DEF IInv, TypeOK, RequestInv, KnowsHook, Present, RowOf, HookAt
  <2>4. (\A i \in Present' : RowInv(i)') /\ \A k \in Tokens : TokenInv(k)'
    BY <2>1, <2>2 DEF IInv, RowInv, TokenInv, Present
  <2> QED BY <2>3, <2>4 DEF IInv
<1> QED BY <1>1, <1>2, CommandStep DEF Next

LEMMA InvariantUses == IInv => UsesAccounted
<1> SUFFICES ASSUME IInv PROVE UsesAccounted
  OBVIOUS
<1>1. \A k : Claims(k) = Cardinality(Claimers(k))
  BY DEF Claims, Claimers
<1> QED BY <1>1 DEF UsesAccounted, IInv, TokenInv, RowInv

LEMMA InvariantTask == IInv => RightTask
BY DEF IInv, RightTask, RequestInv, KnowsHook

LEMMA IntakeInvariant == Spec => []IInv
BY Starts, IntakeStep, PTL DEF Spec

-----------------------------------------------------------------------------
(* inspectToken, if its DELETE named the token beside the id *)

SweepByToken(r) == Sweeps(r, {inspected[r].id} \cap RowOf(token[r]))

RepairedNext ==
  \/ Command
  \/ \E r \in Requests :
       Inspect(r) \/ SweepByToken(r) \/ Admit(r) \/ BodyFails(r) \/ Claim(r) \/ ClaimFails(r) \/ Submit(r)

RepairedSpec == Init /\ [][RepairedNext]_vars

\* Only a request whose URL has expired goes on to the DELETE.
SweepsExpired == \A r \in Requests : at[r] = "sweep" => token[r] \in past

\* A step that ends valid URLs, and no rows but theirs.
Spares == \A k \in Tokens : fate'[k] = "valid" /\ k \notin past' =>
            /\ fate[k] = "valid" /\ k \notin past
            /\ \A i \in RowOf(k) : row'[i] # None /\ row'[i].token = k

LEMMA SparesValid ==
  ASSUME ValidUrlWorks, Spares
  PROVE  ValidUrlWorks'
BY DEF ValidUrlWorks, Spares, RowOf, Present

\* A statement that says what became of the URLs of the rows it deletes.
LEMMA EndsSpares ==
  ASSUME TypeOK, NEW S \in SUBSET Ids, NEW how, how # "valid", Delete(S), Ends(S, how), UNCHANGED past
  PROVE  Spares
BY DEF Spares, Delete, Ends, RowOf, Present, TypeOK

LEMMA UntouchedSpares ==
  ASSUME UNCHANGED <<row, fate>>, past \subseteq past'
  PROVE  Spares
BY DEF Spares, RowOf, Present

LEMMA CreateValid ==
  ASSUME IInv, ValidUrlWorks, NEW i \in Ids, NEW t \in Threads, NEW k \in Tokens, Create(i, t, k)
  PROVE  ValidUrlWorks'
<1> USE DEF IInv, TypeOK
<1>1. PICK new : /\ row' = [row EXCEPT ![i] = new] /\ new \in Rows /\ new # None /\ new.token = k
  <2>1. PICK uses \in Uses, expires \in BOOLEAN :
          row' = [row EXCEPT ![i] = [token |-> k, left |-> uses, expires |-> expires, thread |-> t]]
    BY DEF Create, SameTask
  <2> DEFINE new == [token |-> k, left |-> uses, expires |-> expires, thread |-> t]
  <2>2. new \in Rows /\ new # None /\ new.token = k
    BY IntakeAssumption DEF Rows
  <2> QED BY <2>1, <2>2
<1>2. /\ UNCHANGED past
      /\ fate' = [j \in Tokens |-> IF j = k THEN "valid"
                                   ELSE IF i \in Present /\ row[i].token = j THEN "replaced"
                                   ELSE fate[j]]
  BY DEF Create
<1> SUFFICES ASSUME NEW j \in Tokens, fate'[j] = "valid", j \notin past'
             PROVE  RowOf(j)' # {}
  BY DEF ValidUrlWorks
<1>3. CASE j = k
  <2>1. row'[i] = new
    BY <1>1
  <2>2. i \in RowOf(j)'
    BY <1>1, <1>3, <2>1 DEF RowOf, Present
  <2> QED BY <2>2
<1>4. CASE j # k
  <2>1. fate[j] = "valid" /\ ~(i \in Present /\ row[i].token = j) /\ j \notin past
    BY <1>2, <1>4
  <2>2. PICK e \in RowOf(j) : TRUE
    BY <2>1 DEF ValidUrlWorks
  <2>3. e # i /\ e \in Ids /\ row[e] # None /\ row[e].token = j
    BY <2>1, <2>2 DEF RowOf, Present
  <2>4. row'[e] = row[e]
    BY <1>1, <2>3
  <2>5. e \in RowOf(j)'
    BY <2>3, <2>4 DEF RowOf, Present
  <2> QED BY <2>5
<1> QED BY <1>3, <1>4

LEMMA RepairedKeeps ==
  ASSUME IInv, ValidUrlWorks, SweepsExpired, RepairedNext
  PROVE  IInv' /\ ValidUrlWorks' /\ SweepsExpired'
<1>1. TypeOK
  BY DEF IInv
<1>2. ASSUME Command
      PROVE  IInv' /\ ValidUrlWorks' /\ SweepsExpired'
  <2>1. IInv'
    BY <1>2, CommandStep
  <2>2. SweepsExpired'
    BY <1>2 DEF Command, Create, Revoke, List, PassExpiry, handler, SweepsExpired
  <2>3. ASSUME NEW i \in Ids, NEW t \in Threads, NEW k \in Tokens, Create(i, t, k)
        PROVE  ValidUrlWorks'
    BY <2>3, CreateValid
  <2>4. ASSUME Revoke \/ List
        PROVE  ValidUrlWorks'
    <3>1. PICK S \in SUBSET Ids, how \in {"revoked", "expired"} : Delete(S) /\ Ends(S, how) /\ UNCHANGED past
      BY <2>4 DEF Revoke, List, Present
    <3> QED BY <1>1, <3>1, EndsSpares, SparesValid
  <2>5. ASSUME NEW i \in Ids, PassExpiry(i)
        PROVE  ValidUrlWorks'
    BY <2>5, UntouchedSpares, SparesValid DEF PassExpiry, table
  <2> QED BY <1>2, <2>1, <2>2, <2>3, <2>4, <2>5 DEF Command
<1>3. ASSUME NEW r \in Requests, Inspect(r)
      PROVE  IInv' /\ ValidUrlWorks' /\ SweepsExpired'
  <2>1. IInv'
    BY <1>3, InspectStep
  <2>2. ValidUrlWorks'
    BY <1>3, UntouchedSpares, SparesValid DEF Inspect, table
  <2>3. SweepsExpired'
    BY <1>1, <1>3 DEF Inspect, SweepsExpired, Goes, Answers404, RowOf, Expired, TypeOK
  <2> QED BY <2>1, <2>2, <2>3
<1>4. ASSUME NEW r \in Requests, SweepByToken(r)
      PROVE  IInv' /\ ValidUrlWorks' /\ SweepsExpired'
  <2>1. PICK S \in SUBSET Ids : S = RowOf(token[r]) /\ Sweeps(r, S)
    <3>1. {inspected[r].id} \cap RowOf(token[r]) = RowOf(token[r]) /\ RowOf(token[r]) \in SUBSET Ids
      BY <1>4, SweptRow DEF SweepByToken, Sweeps, RowOf, Present
    <3> QED BY <1>4, <3>1 DEF SweepByToken
  <2>2. IInv'
    BY <2>1, SweepKeeps
  <2>3. at[r] = "sweep" /\ Delete(S) /\ UNCHANGED <<past, token>> /\ at' = [at EXCEPT ![r] = "answered"]
        /\ fate' = [fate EXCEPT ![token[r]] = IF @ = "valid" THEN "expired" ELSE @]
    BY <2>1 DEF Sweeps, Answers404, Goes
  <2>4. \A k \in Tokens : k \notin past => k # token[r] /\ \A i \in RowOf(k) : i \notin S
    BY <2>1, <2>3 DEF SweepsExpired, RowOf
  <2>5. Spares
    BY <1>1, <2>3, <2>4 DEF Spares, Delete, RowOf, Present, TypeOK
  <2>6. SweepsExpired'
    BY <1>1, <2>3 DEF SweepsExpired, TypeOK
  <2> QED BY <2>2, <2>5, <2>6, SparesValid
<1>5. ASSUME NEW r \in Requests, Admit(r) \/ BodyFails(r) \/ ClaimFails(r) \/ Submit(r)
      PROVE  IInv' /\ ValidUrlWorks' /\ SweepsExpired'
  <2>1. IInv'
    BY <1>5, AnswerStep
  <2>2. ValidUrlWorks'
    BY <1>5, UntouchedSpares, SparesValid DEF Admit, BodyFails, ClaimFails, Submit, table
  <2>3. SweepsExpired'
    BY <1>1, <1>5 DEF Admit, BodyFails, ClaimFails, Submit, Fails, Goes, SweepsExpired, TypeOK
  <2> QED BY <2>1, <2>2, <2>3
<1>6. ASSUME NEW r \in Requests, Claim(r)
      PROVE  IInv' /\ ValidUrlWorks' /\ SweepsExpired'
  <2>1. IInv'
    BY <1>6, ClaimStep
  <2>2. ValidUrlWorks'
    <3>1. UNCHANGED past
      BY <1>6 DEF Claim
    <3>2. ASSUME NEW i \in ClaimRow(r), NEW how, how # "valid", Delete({i}), Ends({i}, how)
          PROVE  Spares
      <4>1. {i} \in SUBSET Ids
        BY DEF ClaimRow, RowOf, Present
      <4> QED BY <1>1, <3>1, <3>2, <4>1, EndsSpares
    <3>3. ASSUME NEW i \in ClaimRow(r), ~LastUse(i), UNCHANGED fate,
                 row' = IF row[i].left = Unlimited THEN row ELSE [row EXCEPT ![i].left = @ - 1]
          PROVE  Spares
      <4>1. i \in Ids /\ row'[i] \in Rows /\ row'[i].token = row[i].token
        BY <1>6, <3>3, FoundRow, UsedRow DEF Claim
      <4>2. row'[i] # None /\ \A e \in Ids \ {i} : row'[e] = row[e]
        BY <1>1, <3>3, <4>1, IntakeAssumption DEF TypeOK
      <4>3. \A e \in Present : row'[e] # None /\ row'[e].token = row[e].token
        BY <4>1, <4>2 DEF Present
      <4> QED BY <3>1, <3>3, <4>3 DEF Spares, RowOf
    <3>4. \/ UNCHANGED <<row, fate>>
          \/ \E i \in ClaimRow(r), how \in {"expired", "used up"} : Delete({i}) /\ Ends({i}, how)
          \/ \E i \in ClaimRow(r) :
               /\ ~LastUse(i) /\ UNCHANGED fate
               /\ row' = IF row[i].left = Unlimited THEN row ELSE [row EXCEPT ![i].left = @ - 1]
      BY <1>6, Zenon DEF Claim
    <3>5. \A how \in {"expired", "used up"} : how # "valid"
      BY Zenon
    <3>6. ASSUME UNCHANGED <<row, fate>>
          PROVE  Spares
      BY <3>1, <3>6, UntouchedSpares
    <3>7. Spares
      BY <3>2, <3>3, <3>4, <3>5, <3>6, Zenon
    <3> QED BY <3>7, SparesValid
  <2>3. SweepsExpired'
    BY <1>1, <1>6 DEF Claim, Answers404, Goes, SweepsExpired, TypeOK
  <2> QED BY <2>1, <2>2, <2>3
<1> QED BY <1>2, <1>3, <1>4, <1>5, <1>6 DEF RepairedNext

-----------------------------------------------------------------------------
\* Every variable keeps its type, and no token is in two rows.
THEOREM TypeCorrect == Spec => []TypeOK
BY IntakeInvariant, PTL DEF IInv

\* A limited URL is never claimed more often than it was created for, and
\* while its row stands nothing claimed is missing from the count.
THEOREM UsesAccountedHolds == Spec => []UsesAccounted
BY InvariantUses, IntakeInvariant, PTL

\* A claimed message goes to the task its URL was printed for, the one the
\* request was authorized for.
THEOREM RightTaskHolds == Spec => []RightTask
BY InvariantTask, IntakeInvariant, PTL

\* A request claims only a URL that is valid at that moment.
THEOREM ClaimsLiveUrlHolds == Spec => ClaimsLiveUrl
<1>1. ASSUME IInv, Next, NEW r \in Requests, claimed'[r] # claimed[r]
      PROVE  fate[token[r]] = "valid" /\ token[r] \notin past
  <2>1. Claim(r)
    BY <1>1 DEF Next, Command, Create, Revoke, List, PassExpiry, Handle, Inspect, Sweep, Admit,
                BodyFails, Claim, ClaimFails, Submit, handler, IInv, TypeOK
  <2>2. PICK i \in ClaimRow(r) : ~Expired(i)
    BY <1>1, <2>1 DEF Claim, ExpiredAtClaim
  <2>3. RowInv(i) /\ row[i].token = token[r]
    BY <1>1, <2>1, <2>2, FoundRow DEF Claim
  <2> QED BY <2>2, <2>3 DEF RowInv, Expired
<1>2. IInv /\ [Next]_vars => [ClaimsValid]_vars
  BY <1>1 DEF ClaimsValid
<1> QED BY <1>2, IntakeInvariant, PTL DEF Spec, ClaimsLiveUrl

\* "Expired, revoked, and used-up URLs return 404" and no others do, if inspectToken
\* deletes the row it selected rather than whatever has its id by then; and what
\* holds of uses and tasks still holds.
THEOREM ValidUrlWorksIfSweptByToken ==
  RepairedSpec => [](ValidUrlWorks /\ UsesAccounted /\ RightTask)
<1>1. Init => ValidUrlWorks /\ SweepsExpired
  BY DEF Init, ValidUrlWorks, SweepsExpired
<1>2. IInv /\ ValidUrlWorks /\ SweepsExpired /\ [RepairedNext]_vars
        => IInv' /\ ValidUrlWorks' /\ SweepsExpired'
  <2>1. CASE UNCHANGED vars
    <3>1. IInv => IInv'
      BY <2>1, IntakeStep
    <3> QED BY <2>1, <3>1 DEF vars, ValidUrlWorks, SweepsExpired, RowOf, Present
  <2> QED BY <2>1, RepairedKeeps
<1>3. IInv => UsesAccounted /\ RightTask
  BY InvariantUses, InvariantTask
<1> QED BY <1>1, <1>2, <1>3, Starts, PTL DEF RepairedSpec
=============================================================================

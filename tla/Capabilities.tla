----------------------------- MODULE Capabilities -----------------------------
(***************************************************************************)
(* The one-use grants of P12: the store (p12_capabilities.py) and the      *)
(* invoke and ledger requests around it (p12_gateway.py).  A suite is      *)
(* issued with a grant for every execution and role; a grant is reserved   *)
(* before the model is called, and completed or failed after.  Each method *)
(* of the store is one transaction, except ledger, which reads twice.      *)
(***************************************************************************)
EXTENDS Integers

CONSTANTS Suites,
          Slots,      \* the executions of a suite, times the four roles
          Threads,
          Ids,        \* RequestIds of Bedrock
          NoId,       \* no RequestId
          None,       \* no grant
          Life,       \* 180 seconds
          MaxTime     \* bound on the clock

VARIABLES now,     \* what time.time returns
          suites,  \* table p12_suites
          grants,  \* table p12_grants
          ids,     \* table p12_provider_ids: RequestId and grant
          pc, req, answer,  \* per thread: its place, its grant, the RequestId it holds
          view,    \* the verifier's ledger request: what its reads returned so far
          served   \* Bedrock side: calls made with each grant

tables == <<suites, grants, ids>>
vars == <<now, suites, grants, ids, pc, req, answer, view, served>>

Times == 1..MaxTime
Grants == Suites \X Slots

\* "No grant" is not a grant, and the bound is a number.
ASSUME SentinelAssumption == None \notin Grants /\ MaxTime \in Nat

NoView == [suite |-> None, closed |-> FALSE, states |-> {}, done |-> FALSE]
GrantsOf(s) == {g \in Grants : g[1] = s}
StatesOf(s) == {grants[g].state : g \in GrantsOf(s)}
Issued(s) == suites[s].created # 0
Closed(s) == suites[s].closed # 0

Init == /\ now \in Times
        /\ suites = [s \in Suites |-> [created |-> 0, closed |-> 0]]
        /\ grants = [g \in Grants |-> [state |-> "none", finished |-> 0]]
        /\ ids = {}
        /\ pc = [t \in Threads |-> "idle"]
        /\ req = [t \in Threads |-> None]
        /\ answer = [t \in Threads |-> NoId]
        /\ view = NoView
        /\ served = [g \in Grants |-> 0]

Goto(t, label) == pc' = [pc EXCEPT ![t] = label]
Return(t) == /\ Goto(t, "idle")
             /\ req' = [req EXCEPT ![t] = None]
             /\ answer' = [answer EXCEPT ![t] = NoId]

-----------------------------------------------------------------------------
(* issue and close *)

Issue(s) ==
  /\ ~Issued(s)
  /\ suites' = [suites EXCEPT ![s].created = now]
  /\ grants' = [g \in Grants |-> IF g[1] = s THEN [state |-> "issued", finished |-> 0] ELSE grants[g]]
  /\ UNCHANGED <<now, ids, pc, req, answer, view, served>>

Resolved(s) == "reserved" \notin StatesOf(s)

\* A repeated close keeps the first time.
Close(s) ==
  /\ Issued(s)
  /\ Resolved(s)
  /\ suites' = [suites EXCEPT ![s].closed = IF @ = 0 THEN now ELSE @]
  /\ grants' = [g \in Grants |-> IF g[1] = s /\ grants[g].state = "issued"
                                 THEN [grants[g] EXCEPT !.state = "closed_unused"] ELSE grants[g]]
  /\ UNCHANGED <<now, ids, pc, req, answer, view, served>>

-----------------------------------------------------------------------------
(* invoke: reserve, call the model, complete or fail *)

Usable(g) == /\ ~Closed(g[1]) /\ grants[g].state = "issued"
             /\ suites[g[1]].created <= now /\ now < suites[g[1]].created + Life

Reserve(t, g) ==
  /\ pc[t] = "idle"
  /\ Usable(g)
  /\ grants' = [grants EXCEPT ![g].state = "reserved"]
  /\ req' = [req EXCEPT ![t] = g]
  /\ Goto(t, "calling")
  /\ UNCHANGED <<now, suites, ids, answer, view, served>>

\* The call reaches the model, and its answer may be lost; or it never does.
Call(t, id) ==
  /\ pc[t] = "calling"
  /\ \/ /\ served' = [served EXCEPT ![req[t]] = @ + 1]
        /\ \/ answer' = [answer EXCEPT ![t] = id] /\ Goto(t, "completing")
           \/ answer' = answer /\ Goto(t, "failing")
     \/ served' = served /\ answer' = answer /\ Goto(t, "failing")
  /\ UNCHANGED <<now, tables, req, view>>

Completable(t) == /\ grants[req[t]].state = "reserved"
                  /\ \A row \in ids : row.id # answer[t]

Settled(t, state) == [grants EXCEPT ![req[t]].state = state, ![req[t]].finished = now]

Complete(t) ==
  /\ pc[t] = "completing"
  /\ Completable(t)
  /\ ids' = ids \cup {[id |-> answer[t], grant |-> req[t]]}
  /\ grants' = Settled(t, "completed")
  /\ Return(t)
  /\ UNCHANGED <<now, suites, view, served>>

\* Mutant of CompleteRefused: the RequestId is inserted before the state is looked at.
CompleteRefusedKept(t) ==
  /\ pc[t] = "completing"
  /\ Goto(t, "failing")
  /\ ids' = ids \cup {[id |-> answer[t], grant |-> req[t]]}
  /\ UNCHANGED <<now, suites, grants, req, answer, view, served>>

\* Evidence that is incomplete, or a RequestId that was seen before.
CompleteRefused(t) ==
  /\ pc[t] = "completing"
  /\ Goto(t, "failing")
  /\ UNCHANGED <<now, tables, req, answer, view, served>>

\* fail changes a reserved grant and refuses any other.
Fail(t) ==
  /\ pc[t] = "failing"
  /\ grants' = IF grants[req[t]].state = "reserved" THEN Settled(t, "error") ELSE grants
  /\ Return(t)
  /\ UNCHANGED <<now, suites, ids, view, served>>

-----------------------------------------------------------------------------
(* ledger: the suite and its grants are read one after the other *)

ReadSuite(s) ==
  /\ Issued(s)
  /\ view' = [NoView EXCEPT !.suite = s, !.closed = Closed(s)]
  /\ UNCHANGED <<now, tables, pc, req, answer, served>>

Observed(s) == [view EXCEPT !.states = StatesOf(s), !.done = TRUE]

ReadGrants ==
  /\ view.suite # None /\ ~view.done
  /\ view' = Observed(view.suite)
  /\ UNCHANGED <<now, tables, pc, req, answer, served>>

-----------------------------------------------------------------------------
Crash == /\ pc' = [t \in Threads |-> "idle"]
         /\ req' = [t \in Threads |-> None]
         /\ answer' = [t \in Threads |-> NoId]
         /\ view' = NoView
         /\ UNCHANGED <<now, tables, served>>
Tick == now' \in Times /\ UNCHANGED <<tables, pc, req, answer, view, served>>

Step(t) == \/ \E id \in Ids : Call(t, id)
           \/ Complete(t) \/ CompleteRefused(t) \/ Fail(t)

Next == \/ \E s \in Suites : Issue(s) \/ Close(s) \/ ReadSuite(s)
        \/ \E t \in Threads : \/ \E g \in Grants : Reserve(t, g)
                              \/ Step(t)
        \/ ReadGrants \/ Crash \/ Tick

Spec == Init /\ [][Next]_vars

-----------------------------------------------------------------------------
(* Properties. *)

States == {"none", "issued", "reserved", "completed", "error", "closed_unused"}

TypeOK ==
  /\ now \in Times
  /\ suites \in [Suites -> [created : 0..MaxTime, closed : 0..MaxTime]]
  /\ grants \in [Grants -> [state : States, finished : 0..MaxTime]]
  /\ ids \subseteq [id : Ids, grant : Grants]
  /\ pc \in [Threads -> {"idle", "calling", "completing", "failing"}]
  /\ req \in [Threads -> Grants \cup {None}]
  /\ \A t \in Threads : req[t] = None <=> pc[t] = "idle"
  /\ answer \in [Threads -> Ids \cup {NoId}]
  /\ view \in [suite : Suites \cup {None}, closed : BOOLEAN, states : SUBSET States, done : BOOLEAN]
  /\ served \in [Grants -> Nat]

\* A grant lets the model be called once, and a grant whose call was made is
\* never shown as issued or unused.
OneUse ==
  \A g \in Grants : /\ served[g] <= 1
                    /\ served[g] = 1 => grants[g].state \in {"reserved", "completed", "error"}

\* Each completed grant has exactly one RequestId, which is no other grant's.
ReceiptsMatch ==
  \A g \in Grants :
    (grants[g].state = "completed") <=>
       \E row \in ids : row.grant = g /\ \A other \in ids : (other.id = row.id \/ other.grant = g) => other = row

\* A ledger that says the suite is closed shows no grant that may still change,
\* although it is read in two steps.
LedgerIsSound ==
  view.done /\ view.closed => view.states \cap {"issued", "reserved"} = {}

\* A grant is used once and has the receipt of that use, and a closed ledger is final.
GrantsHold == OneUse /\ ReceiptsMatch /\ LedgerIsSound

=============================================================================

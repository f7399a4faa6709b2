-------------------------- MODULE CapabilitiesProofs --------------------------
(***************************************************************************)
(* Proofs about one-use grants: about Capabilities (P12), for any suites,  *)
(* grants, threads and ids, any life of a suite, and a clock that may be   *)
(* set to any time; about RoleSuite (P07 and P08), for any number of       *)
(* normal and of risk cases and of tries of closing the suite; and about   *)
(* TokenTable (the tokens of the application gateway), for any tabs and    *)
(* any number of token pairs and keys.                                     *)
(***************************************************************************)
EXTENDS Capabilities, Sequences, FiniteSets, FiniteSetTheorems, TLAPS

-----------------------------------------------------------------------------
(* The inductive invariant. *)

Busy(t) == pc[t] # "idle"

\* A grant is in the hands of one thread at most, and is reserved as long as it is.
Exclusive == \A t, u \in Threads : Busy(t) /\ Busy(u) /\ t # u => req[t] # req[u]
Held == \A t \in Threads : Busy(t) => grants[req[t]].state = "reserved"
Answered == \A t \in Threads : pc[t] = "completing" => answer[t] \in Ids
Owners == Exclusive /\ Held /\ Answered

\* The model is called for a reserved grant, once, by the thread that has it.
Unserved == \A t \in Threads : pc[t] = "calling" => served[req[t]] = 0
Served == \A g \in Grants : /\ served[g] <= 1
                            /\ grants[g].state \notin {"reserved", "completed", "error"} => served[g] = 0
Uses == Unserved /\ Served

\* The table of ids has one row for each completed grant.
Receipts == /\ \A g \in Grants : grants[g].state = "completed" <=> \E row \in ids : row.grant = g
            /\ \A row, other \in ids : row.id = other.id \/ row.grant = other.grant => row = other

\* A suite's grants exist when it does, and are final when it is closed, as a reader finds later.
Ordered(s) == /\ ~Issued(s) => ~Closed(s) /\ \A g \in GrantsOf(s) : grants[g].state = "none"
              /\ Closed(s) => \A g \in GrantsOf(s) : grants[g].state \notin {"issued", "reserved"}
Viewed == /\ view.closed => view.suite \in Suites /\ Closed(view.suite)
          /\ LedgerIsSound
Closings == (\A s \in Suites : Ordered(s)) /\ Viewed

IInv == TypeOK /\ Owners /\ Uses /\ Receipts /\ Closings

-----------------------------------------------------------------------------
(* Types. *)

GrantRows == [state : States, finished : 0..MaxTime]
SuiteRows == [created : 0..MaxTime, closed : 0..MaxTime]
Views == [suite : Suites \cup {None}, closed : BOOLEAN, states : SUBSET States, done : BOOLEAN]

LEMMA InitType == Init => TypeOK
  BY SentinelAssumption DEF Init, TypeOK, Times, NoView, States

LEMMA SettledRows ==
  ASSUME TypeOK, NEW t \in Threads, req[t] \in Grants, NEW state \in States
  PROVE  /\ Settled(t, state) \in [Grants -> GrantRows]
         /\ Settled(t, state)[req[t]].state = state
         /\ \A g \in Grants : g # req[t] => Settled(t, state)[g] = grants[g]
<1>1. now \in 0..MaxTime  BY SentinelAssumption DEF TypeOK, Times
<1>2. \A g \in Grants : grants[g] \in GrantRows  BY DEF TypeOK, GrantRows
<1> QED BY <1>1, <1>2 DEF Settled, TypeOK, GrantRows

\* Issuing and closing rewrite the grants of a suite.
LEMMA SuiteSteps ==
  ASSUME TypeOK, NEW s \in Suites, Issue(s) \/ Close(s)
  PROVE  /\ grants' \in [Grants -> GrantRows] /\ suites' \in [Suites -> SuiteRows]
         /\ \A g \in Grants : /\ grants'[g].state # grants[g].state =>
                                   /\ g[1] = s
                                   /\ \/ Issue(s) /\ grants'[g].state = "issued"
                                      \/ /\ grants[g].state = "issued"
                                         /\ grants'[g].state = "closed_unused"
                              /\ Issue(s) /\ g[1] = s => grants'[g].state = "issued"
                              /\ Close(s) /\ g[1] = s => grants'[g].state # "issued"
         /\ \A x \in Suites : x # s => suites'[x] = suites[x]
         /\ Issue(s) => suites'[s].created # 0 /\ suites'[s].closed = suites[s].closed
         /\ Close(s) => suites'[s].created = suites[s].created /\ suites'[s].closed # 0
<1>0. now \in 1..MaxTime /\ now \in 0..MaxTime /\ now # 0  BY SentinelAssumption DEF TypeOK, Times
<1>1. \A g \in Grants : grants[g] \in GrantRows  BY DEF TypeOK, GrantRows
<1>2. \A x \in Suites : suites[x] \in SuiteRows  BY DEF TypeOK, SuiteRows
<1>3. CASE Issue(s)
  <2>1. \A g \in Grants : grants'[g] = IF g[1] = s THEN [state |-> "issued", finished |-> 0] ELSE grants[g]
    BY <1>3 DEF Issue
  <2>2. [state |-> "issued", finished |-> 0] \in GrantRows
    BY SentinelAssumption DEF GrantRows, States
  <2>3. grants' \in [Grants -> GrantRows]
    BY <1>3, <1>1, <2>2 DEF Issue
  <2>4. suites' \in [Suites -> SuiteRows] /\ suites'[s].created # 0 /\ suites'[s].closed = suites[s].closed
        /\ \A x \in Suites : x # s => suites'[x] = suites[x]
    BY <1>0, <1>2, <1>3 DEF Issue, SuiteRows, TypeOK
  <2>5. ~Close(s)
    BY <1>0, <1>3 DEF Issue, Close, Issued
  <2> QED BY <1>3, <2>1, <2>3, <2>4, <2>5
<1>4. CASE Close(s)
  <2>1. \A g \in Grants : grants'[g] = IF g[1] = s /\ grants[g].state = "issued"
                                       THEN [grants[g] EXCEPT !.state = "closed_unused"] ELSE grants[g]
    BY <1>4 DEF Close
  <2>2. \A g \in Grants : [grants[g] EXCEPT !.state = "closed_unused"] \in GrantRows
                          /\ [grants[g] EXCEPT !.state = "closed_unused"].state = "closed_unused"
    BY <1>1 DEF GrantRows, States
  <2>3. grants' \in [Grants -> GrantRows]
    BY <1>4, <1>1, <2>2 DEF Close
  <2>4. suites' \in [Suites -> SuiteRows] /\ suites'[s].created = suites[s].created /\ suites'[s].closed # 0
        /\ \A x \in Suites : x # s => suites'[x] = suites[x]
    BY <1>0, <1>2, <1>4 DEF Close, SuiteRows, TypeOK
  <2>5. ~Issue(s)
    BY <1>4 DEF Issue, Close
  <2> QED BY <1>4, <2>1, <2>2, <2>3, <2>4, <2>5
<1> QED BY <1>3, <1>4

LEMMA StepType ==
  ASSUME TypeOK, Owners, NEW t \in Threads, Step(t)
  PROVE  TypeOK'
<1> USE DEF TypeOK
<1>0. req[t] \in Grants /\ {"completed", "error"} \subseteq States
  BY DEF Step, Call, Complete, CompleteRefused, Fail, States
<1>1. CASE \E id \in Ids : Call(t, id)
  <2> PICK id \in Ids : Call(t, id)  BY <1>1
  <2>1. served[req[t]] + 1 \in Nat  BY <1>0
  <2>2. served' \in [Grants -> Nat]  BY <2>1, <1>0 DEF Call
  <2>3. /\ pc[t] = "calling" /\ UNCHANGED <<now, suites, grants, ids, req, view>>
        /\ pc' = [pc EXCEPT ![t] = "completing"] \/ pc' = [pc EXCEPT ![t] = "failing"]
        /\ answer' = answer \/ answer' = [answer EXCEPT ![t] = id]
    BY DEF Call, Goto, tables
  <2>4. answer' \in [Threads -> Ids \cup {NoId}]  BY <2>3
  <2>5. /\ pc' \in [Threads -> {"idle", "calling", "completing", "failing"}]
        /\ \A u \in Threads : pc'[u] = "idle" <=> pc[u] = "idle"
    BY <2>3
  <2> QED BY <2>2, <2>3, <2>4, <2>5
<1>2. CASE Complete(t)
  <2>1. [id |-> answer[t], grant |-> req[t]] \in [id : Ids, grant : Grants]
    BY <1>2, <1>0 DEF Complete, Owners, Answered
  <2>2. grants' \in [Grants -> GrantRows]
    BY <1>2, <1>0, SettledRows DEF Complete
  <2> QED BY <1>2, <2>1, <2>2 DEF Complete, Return, Goto, GrantRows
<1>3. CASE CompleteRefused(t)
  BY <1>3 DEF CompleteRefused, Goto, tables
<1>4. CASE Fail(t)
  <2>1. grants' \in [Grants -> GrantRows]
    BY <1>4, <1>0, SettledRows DEF Fail, GrantRows
  <2> QED BY <1>4, <2>1 DEF Fail, Return, Goto, GrantRows
<1> QED BY <1>1, <1>2, <1>3, <1>4 DEF Step

LEMMA NextType == IInv /\ [Next]_vars => TypeOK'
<1> SUFFICES ASSUME IInv, [Next]_vars PROVE TypeOK'  OBVIOUS
<1> USE DEF IInv
<1>1. CASE UNCHANGED vars
  BY <1>1 DEF vars, TypeOK
<1>2. ASSUME NEW s \in Suites, Issue(s) \/ Close(s) PROVE TypeOK'
  <2>1. grants' \in [Grants -> GrantRows] /\ suites' \in [Suites -> SuiteRows]  BY <1>2, SuiteSteps
  <2> QED BY <1>2, <2>1 DEF Issue, Close, TypeOK, GrantRows, SuiteRows
<1>3. ASSUME NEW s \in Suites, ReadSuite(s) PROVE TypeOK'
  <2>1. NoView \in Views  BY DEF NoView, Views
  <2>2. [NoView EXCEPT !.suite = s, !.closed = Closed(s)] \in Views  BY <2>1 DEF Views, Closed
  <2> QED BY <1>3, <2>2 DEF ReadSuite, TypeOK, Views, tables
<1>4. ASSUME NEW t \in Threads, NEW g \in Grants, Reserve(t, g) PROVE TypeOK'
  <2>1. \A x \in Grants : grants[x] \in GrantRows  BY DEF TypeOK, GrantRows
  <2>2. [grants[g] EXCEPT !.state = "reserved"] \in GrantRows  BY <2>1 DEF GrantRows, States
  <2>3. grants' = [grants EXCEPT ![g] = [grants[g] EXCEPT !.state = "reserved"]]
    BY <1>4 DEF Reserve
  <2>4. grants \in [Grants -> GrantRows]  BY DEF TypeOK, GrantRows
  <2>5. grants' \in [Grants -> GrantRows]  BY <2>2, <2>3, <2>4
  <2> QED BY <1>4, <2>5, SentinelAssumption DEF Reserve, Goto, TypeOK, GrantRows
<1>5. ASSUME NEW t \in Threads, Step(t) PROVE TypeOK'
  BY <1>5, StepType
<1>6. CASE ReadGrants
  <2>1. StatesOf(view.suite) \subseteq States  BY DEF StatesOf, GrantsOf, TypeOK
  <2>2. Observed(view.suite) \in Views  BY <2>1 DEF Observed, TypeOK, Views
  <2> QED BY <1>6, <2>2 DEF ReadGrants, TypeOK, Views, tables
<1>7. CASE Crash
  BY <1>7 DEF Crash, TypeOK, NoView, tables
<1>8. CASE Tick
  BY <1>8 DEF Tick, TypeOK, tables
<1> QED BY <1>1, <1>2, <1>3, <1>4, <1>5, <1>6, <1>7, <1>8 DEF Next

-----------------------------------------------------------------------------
(* Every step preserves the rest of the invariant. *)

LEMMA InitInv == Init => IInv
<1> SUFFICES ASSUME Init PROVE IInv  OBVIOUS
<1>1. TypeOK  BY InitType
<1>2. Owners /\ Uses /\ Receipts
  BY DEF Init, Owners, Exclusive, Held, Answered, Busy, Uses, Unserved, Served, Receipts
<1>3. Closings
  BY DEF Init, Closings, Ordered, Viewed, LedgerIsSound, Issued, Closed, GrantsOf, NoView
<1> QED BY <1>1, <1>2, <1>3 DEF IInv

\* Issuing and closing a suite leave the grants that were taken as they are.
LEMMA SuiteInv ==
  ASSUME IInv, NEW s \in Suites, Issue(s) \/ Close(s)
  PROVE  Owners' /\ Uses' /\ Receipts' /\ Closings'
<1> USE DEF IInv
<1>0. UNCHANGED <<ids, pc, req, answer, view, served>>  BY DEF Issue, Close
<1>1. \A g \in Grants : grants'[g].state # grants[g].state =>
         grants[g].state \in {"none", "issued"} /\ grants'[g].state \in {"issued", "closed_unused"}
  <2> SUFFICES ASSUME NEW g \in Grants, grants'[g].state # grants[g].state
               PROVE  grants[g].state \in {"none", "issued"} /\ grants'[g].state \in {"issued", "closed_unused"}
    OBVIOUS
  <2>1. CASE grants[g].state = "issued" /\ grants'[g].state = "closed_unused"
    BY <2>1
  <2>2. CASE Issue(s) /\ g[1] = s /\ grants'[g].state = "issued"
    BY <2>2 DEF Issue, Closings, Ordered, GrantsOf
  <2> QED BY <2>1, <2>2, SuiteSteps
<1>2. \A t \in Threads : Busy(t) => req[t] \in Grants  BY DEF TypeOK, Busy
<1>3. Owners'
  BY <1>0, <1>1, <1>2 DEF Owners, Exclusive, Held, Answered, Busy
<1>4. Uses'
  BY <1>0, <1>1 DEF Uses, Unserved, Served
<1>5. Receipts'
  BY <1>0, <1>1 DEF Receipts
<1>6. ASSUME NEW x \in Suites PROVE Ordered(x)'
  <2>1. CASE x # s
    <3>1. suites'[x] = suites[x] /\ \A g \in GrantsOf(x) : grants'[g].state = grants[g].state
      BY <2>1, SuiteSteps DEF GrantsOf
    <3> QED BY <3>1 DEF Closings, Ordered, Issued, Closed, GrantsOf
  <2>2. CASE x = s /\ Issue(s)
    <3>1. suites'[s].created # 0 /\ suites'[s].closed = 0
      BY <2>2, SuiteSteps DEF Issue, Closings, Ordered, Closed
    <3> QED BY <2>2, <3>1 DEF Ordered, Issued, Closed
  <2>3. CASE x = s /\ Close(s)
    <3>1. suites'[s].created # 0  BY <2>3, SuiteSteps DEF Close, Issued
    <3>2. \A g \in GrantsOf(s) : grants[g].state # "reserved"
      BY <2>3 DEF Close, Resolved, StatesOf
    <3>3. \A g \in GrantsOf(s) : grants'[g].state \notin {"issued", "reserved"}
      BY <1>1, <2>3, <3>2, SuiteSteps DEF GrantsOf
    <3> QED BY <2>3, <3>1, <3>3 DEF Ordered, Issued, GrantsOf
  <2> QED BY <2>1, <2>2, <2>3
<1>7. \A x \in Suites : Closed(x) => Closed(x)'
  BY SuiteSteps DEF Closed
<1>8. Closings'
  BY <1>0, <1>6, <1>7 DEF Closings, Viewed, LedgerIsSound
<1> QED BY <1>3, <1>4, <1>5, <1>8

LEMMA ReserveInv ==
  ASSUME IInv, NEW t \in Threads, NEW g \in Grants, Reserve(t, g)
  PROVE  Owners' /\ Uses' /\ Receipts' /\ Closings'
<1> USE DEF IInv
<1>0. /\ pc[t] = "idle" /\ grants[g].state = "issued" /\ ~Closed(g[1])
      /\ UNCHANGED <<now, suites, ids, answer, view, served>>
  BY DEF Reserve, Usable
<1>1. /\ grants'[g].state = "reserved"
      /\ \A x \in Grants : x # g => grants'[x] = grants[x]
  BY DEF Reserve, TypeOK
<1>2. /\ req'[t] = g /\ pc'[t] = "calling"
      /\ \A u \in Threads : u # t => req'[u] = req[u] /\ pc'[u] = pc[u]
  BY DEF Reserve, Goto, TypeOK
<1>3. \A u \in Threads : Busy(u) => req[u] \in Grants /\ req[u] # g
  BY <1>0 DEF TypeOK, Busy, Owners, Held
<1>4. Exclusive'  BY <1>2, <1>3 DEF Owners, Exclusive, Busy
<1>5. Held'  BY <1>1, <1>2, <1>3 DEF Owners, Held, Busy
<1>6. Answered'  BY <1>0, <1>2 DEF Owners, Answered
<1>7. Unserved'  BY <1>0, <1>2 DEF Uses, Unserved, Served
<1>8. Served'  BY <1>0, <1>1 DEF Uses, Served
<1>9. Receipts'  BY <1>0, <1>1 DEF Receipts
<1>10. ASSUME NEW x \in Suites PROVE Ordered(x)'
  <2>1. g \in GrantsOf(g[1]) /\ g[1] \in Suites  BY DEF GrantsOf, Grants
  <2>2. Issued(g[1])  BY <1>0, <2>1 DEF Closings, Ordered
  <2>3. CASE x = g[1]
    BY <1>0, <2>2, <2>3 DEF Ordered, Issued, Closed
  <2>4. CASE x # g[1]
    <3>1. \A y \in GrantsOf(x) : grants'[y] = grants[y]  BY <1>1, <2>4 DEF GrantsOf
    <3> QED BY <1>0, <3>1 DEF Closings, Ordered, Issued, Closed, GrantsOf
  <2> QED BY <2>3, <2>4
<1>11. Closings'  BY <1>0, <1>10 DEF Closings, Viewed, LedgerIsSound, Closed
<1> QED BY <1>4, <1>5, <1>6, <1>7, <1>8, <1>9, <1>11 DEF Owners, Uses

LEMMA CallInv ==
  ASSUME IInv, NEW t \in Threads, NEW id \in Ids, Call(t, id)
  PROVE  Owners' /\ Uses' /\ Receipts' /\ Closings'
<1> USE DEF IInv
<1>0. pc[t] = "calling" /\ req[t] \in Grants /\ UNCHANGED <<now, suites, grants, ids, req, view>>
  BY DEF Call, tables, TypeOK
<1>1. /\ pc'[t] \in {"completing", "failing"}
      /\ pc'[t] = "completing" => answer'[t] = id
      /\ \A u \in Threads : u # t => pc'[u] = pc[u] /\ answer'[u] = answer[u]
  BY DEF Call, Goto, TypeOK
<1>2. /\ served'[req[t]] \in {served[req[t]], served[req[t]] + 1}
      /\ \A x \in Grants : x # req[t] => served'[x] = served[x]
  BY <1>0 DEF Call, TypeOK
<1>3. served[req[t]] = 0 /\ grants[req[t]].state = "reserved"
  BY <1>0 DEF Uses, Unserved, Owners, Held, Busy
<1>4. \A u \in Threads : Busy(u)' <=> Busy(u)  BY <1>0, <1>1 DEF Busy
<1>5. Owners'
  BY <1>0, <1>1, <1>4 DEF Owners, Exclusive, Held, Answered
<1>6. Unserved'
  <2> SUFFICES ASSUME NEW u \in Threads, pc'[u] = "calling" PROVE served'[req[u]] = 0
    BY <1>0 DEF Unserved
  <2>1. u # t /\ pc[u] = "calling"  BY <1>1
  <2>2. req[u] \in Grants /\ req[u] # req[t]
    BY <1>0, <2>1 DEF TypeOK, Owners, Exclusive, Busy
  <2> QED BY <1>2, <2>1, <2>2 DEF Uses, Unserved
<1>7. Served'  BY <1>0, <1>2, <1>3 DEF Uses, Served
<1>8. Receipts' /\ Closings'
  BY <1>0 DEF Receipts, Closings, Ordered, Viewed, LedgerIsSound, Issued, Closed
<1> QED BY <1>5, <1>6, <1>7, <1>8 DEF Uses

\* A thread that is done with its grant gives it up, and the grant ends as it says.
LEMMA SettledInv ==
  ASSUME IInv, NEW t \in Threads, Busy(t), NEW state \in {"completed", "error"},
         grants' = Settled(t, state), Return(t), UNCHANGED <<suites, view, served>>
  PROVE  Owners' /\ Uses' /\ Closings'
<1> USE DEF IInv
<1>0. req[t] \in Grants /\ state \in States /\ grants[req[t]].state = "reserved"
  BY DEF TypeOK, Busy, States, Owners, Held
<1>1. grants'[req[t]].state = state /\ \A g \in Grants : g # req[t] => grants'[g] = grants[g]
  BY <1>0, SettledRows
<1>2. /\ pc'[t] = "idle"
      /\ \A u \in Threads : u # t => pc'[u] = pc[u] /\ req'[u] = req[u] /\ answer'[u] = answer[u]
  BY DEF Return, Goto, TypeOK
<1>3. \A u \in Threads : Busy(u)' => /\ u # t /\ Busy(u) /\ req'[u] = req[u]
                                     /\ req[u] \in Grants /\ req[u] # req[t]
  BY <1>2 DEF Busy, Owners, Exclusive, TypeOK
<1>4. Owners'
  BY <1>1, <1>2, <1>3 DEF Owners, Exclusive, Held, Answered, Busy
<1>5. Uses'
  <2>1. Unserved'  BY <1>2, <1>3 DEF Uses, Unserved, Busy
  <2>2. Served'  BY <1>0, <1>1 DEF Uses, Served
  <2> QED BY <2>1, <2>2 DEF Uses
<1>6. ASSUME NEW x \in Suites PROVE Ordered(x)'
  <2>1. suites'[x] = suites[x]  OBVIOUS
  <2>2. ~Issued(x) => \A g \in GrantsOf(x) : g # req[t]
    BY <1>0 DEF Closings, Ordered
  <2> QED BY <1>1, <2>1, <2>2 DEF Closings, Ordered, Issued, Closed, GrantsOf
<1>7. Closings'
  BY <1>6 DEF Closings, Viewed, LedgerIsSound, Closed
<1> QED BY <1>4, <1>5, <1>7

LEMMA CompleteInv ==
  ASSUME IInv, NEW t \in Threads, Complete(t)
  PROVE  Owners' /\ Uses' /\ Receipts' /\ Closings'
<1> USE DEF IInv
<1> DEFINE row == [id |-> answer[t], grant |-> req[t]]
<1>0. req[t] \in Grants /\ Busy(t) /\ grants[req[t]].state = "reserved" /\ ids' = ids \cup {row}
  BY DEF Complete, Completable, Busy, TypeOK
<1>1. Owners' /\ Uses' /\ Closings'
  BY <1>0, SettledInv DEF Complete
<1>2. /\ grants'[req[t]].state = "completed"
      /\ \A g \in Grants : g # req[t] => grants'[g] = grants[g]
  BY <1>0, SettledRows DEF Complete, States
<1>3. \A other \in ids : other.id # row.id /\ other.grant # row.grant
  <2>1. \A other \in ids : other.id # answer[t]  BY DEF Complete, Completable
  <2>2. \A other \in ids : other.grant # req[t]  BY <1>0 DEF Receipts
  <2> QED BY <2>1, <2>2
<1>4. Receipts'
  <2>1. \A g \in Grants : grants'[g].state = "completed" <=> \E other \in ids' : other.grant = g
    <3>1. row.grant = req[t]  OBVIOUS
    <3> HIDE DEF row
    <3> QED BY <1>0, <1>2, <3>1 DEF Receipts
  <2>2. \A one, other \in ids' : one.id = other.id \/ one.grant = other.grant => one = other
    <3> HIDE DEF row
    <3> QED BY <1>0, <1>3 DEF Receipts
  <2> QED BY <2>1, <2>2 DEF Receipts
<1> QED BY <1>1, <1>4

LEMMA FailInv ==
  ASSUME IInv, NEW t \in Threads, Fail(t)
  PROVE  Owners' /\ Uses' /\ Receipts' /\ Closings'
<1> USE DEF IInv
<1>0. req[t] \in Grants /\ Busy(t) /\ ids' = ids /\ grants[req[t]].state = "reserved"
  BY DEF Fail, Busy, TypeOK, Owners, Held
<1>1. grants' = Settled(t, "error")  BY <1>0 DEF Fail
<1>2. Owners' /\ Uses' /\ Closings'  BY <1>0, <1>1, SettledInv DEF Fail
<1>3. \A g \in Grants : grants'[g].state = "completed" <=> grants[g].state = "completed"
  BY <1>0, <1>1, SettledRows DEF States
<1>4. Receipts'  BY <1>0, <1>3 DEF Receipts
<1> QED BY <1>2, <1>4

\* What is refused, and what only reads.
LEMMA RefusedInv ==
  ASSUME IInv, NEW t \in Threads, CompleteRefused(t)
  PROVE  Owners' /\ Uses' /\ Receipts' /\ Closings'
<1> USE DEF IInv
<1>1. /\ pc[t] = "completing" /\ pc'[t] = "failing" /\ UNCHANGED <<tables, req, answer, view, served>>
      /\ \A u \in Threads : u # t => pc'[u] = pc[u]
  BY DEF CompleteRefused, Goto, TypeOK
<1>2. \A u \in Threads : Busy(u)' <=> Busy(u)  BY <1>1 DEF Busy
<1>3. Owners' /\ Uses'
  BY <1>1, <1>2 DEF Owners, Exclusive, Held, Answered, Uses, Unserved, Served, tables
<1>4. Receipts' /\ Closings'
  BY <1>1 DEF Receipts, Closings, Ordered, Viewed, LedgerIsSound, Issued, Closed, tables
<1> QED BY <1>3, <1>4

LEMMA ReadInv ==
  ASSUME IInv, ReadGrants \/ \E s \in Suites : ReadSuite(s)
  PROVE  Owners' /\ Uses' /\ Receipts' /\ Closings'
<1> USE DEF IInv
<1>1. UNCHANGED <<tables, pc, req, answer, served>>  BY DEF ReadSuite, ReadGrants
<1>2. Owners' /\ Uses' /\ Receipts' /\ \A s \in Suites : Ordered(s)'
  BY <1>1 DEF Owners, Exclusive, Held, Answered, Busy, Uses, Unserved, Served, Receipts,
              Closings, Ordered, Issued, Closed, tables
<1>3. ASSUME NEW s \in Suites, ReadSuite(s) PROVE Viewed'
  <2>1. view'.suite = s /\ view'.closed = Closed(s) /\ view'.done = FALSE
    BY <1>3 DEF ReadSuite, NoView
  <2> QED BY <1>1, <2>1 DEF Viewed, LedgerIsSound, Closed, tables
<1>4. ASSUME ReadGrants PROVE Viewed'
  <2>1. view'.suite = view.suite /\ view'.closed = view.closed /\ view'.states = StatesOf(view.suite)
    BY <1>4 DEF ReadGrants, Observed, TypeOK
  <2>2. view.closed => view.suite \in Suites /\ Closed(view.suite)  BY DEF Closings, Viewed
  <2>3. view.closed => StatesOf(view.suite) \cap {"issued", "reserved"} = {}
    BY <2>2 DEF Closings, Ordered, StatesOf
  <2>4. (view.closed => view.suite \in Suites /\ Closed(view.suite))'
    BY <1>1, <2>1, <2>2 DEF Closed, tables
  <2>5. LedgerIsSound'  BY <2>1, <2>3 DEF LedgerIsSound
  <2> QED BY <2>4, <2>5 DEF Viewed
<1> QED BY <1>2, <1>3, <1>4 DEF Closings

LEMMA NextInv == IInv /\ [Next]_vars => IInv'
<1> SUFFICES ASSUME IInv, [Next]_vars PROVE IInv'  OBVIOUS
<1>1. TypeOK'  BY NextType
<1>2. CASE UNCHANGED vars \/ Tick
  BY <1>1, <1>2 DEF IInv, vars, Tick, tables, Owners, Exclusive, Held, Answered, Busy, Uses, Unserved,
     Served, Receipts, Closings, Ordered, Viewed, LedgerIsSound, Issued, Closed
<1>3. CASE Crash
  <2>1. /\ \A t \in Threads : pc'[t] = "idle"
        /\ view'.closed = FALSE /\ UNCHANGED <<tables, served>>
    BY <1>3 DEF Crash, NoView
  <2>2. Owners' /\ Uses'
    BY <2>1 DEF IInv, tables, Owners, Exclusive, Held, Answered, Busy, Uses, Unserved, Served
  <2>3. Receipts' /\ Closings'
    BY <2>1 DEF IInv, tables, Receipts, Closings, Ordered, Viewed, LedgerIsSound, Issued, Closed
  <2> QED BY <1>1, <2>2, <2>3 DEF IInv
<1>4. ASSUME NEW t \in Threads, Step(t) PROVE IInv'
  BY <1>1, <1>4, CallInv, CompleteInv, RefusedInv, FailInv DEF Step, IInv
<1> QED BY <1>1, <1>2, <1>3, <1>4, SuiteInv, ReserveInv, ReadInv DEF Next, IInv

-----------------------------------------------------------------------------
(* The theorems. *)

\* The store, the requests and the reads keep to their types.
THEOREM TypeCorrect == Spec => []TypeOK
<1>1. Init => IInv  BY InitInv
<1>2. IInv /\ [Next]_vars => IInv'  BY NextInv
<1>3. IInv => TypeOK  BY DEF IInv
<1> QED BY <1>1, <1>2, <1>3, PTL DEF Spec

\* A busy request owns the grant it reserved, a grant is called for only while it is
\* reserved and only once, and a closed suite has no grant that may still change.
THEOREM Inductive == Spec => []IInv
<1>1. Init => IInv  BY InitInv
<1>2. IInv /\ [Next]_vars => IInv'  BY NextInv
<1> QED BY <1>1, <1>2, PTL DEF Spec

\* However requests, closes, reads and crashes interleave: a capability reaches the model
\* once, a completed one has the one RequestId of its call, and a ledger shown as closed
\* is final.
THEOREM GrantsHoldAlways == Spec => []GrantsHold
<1>1. IInv => GrantsHold
  <2> SUFFICES ASSUME IInv PROVE GrantsHold  OBVIOUS
  <2> USE DEF IInv
  <2>1. OneUse
    BY DEF OneUse, Uses, Served, TypeOK
  <2>2. ReceiptsMatch
    <3>1. ASSUME NEW g \in Grants, NEW row \in ids, row.grant = g
          PROVE  \A other \in ids : other.id = row.id \/ other.grant = g => other = row
      BY <3>1 DEF Receipts
    <3> QED BY <3>1 DEF ReceiptsMatch, Receipts
  <2>3. LedgerIsSound
    BY DEF Closings, Viewed
  <2> QED BY <2>1, <2>2, <2>3 DEF GrantsHold
<1>2. Init => IInv  BY InitInv
<1>3. IInv /\ [Next]_vars => IInv'  BY NextInv
<1> QED BY <1>1, <1>2, <1>3, PTL DEF Spec

-----------------------------------------------------------------------------
(* The role grants of P07 and P08. *)

CONSTANTS Cases, Normal, Tries
VARIABLES mission, build, caps, calls, closures, late, threads, reached, receipt, run, note, used

Role == INSTANCE RoleSuite

\* There is a case, and the suite is tried to be closed; how many of the cases are normal
\* does not matter.
Bounds == Cases \in Nat \ {0} /\ Normal \in Nat /\ Tries \in Nat \ {0}

Places == {"new", "run", "close case", "read", "calls", "close", "final", "final calls", "abort", "ended"}
Verdicts == {"none", "PASS", "HIT", "ERR"}
Runs == [at: Places, case: 1..Cases, tries: 0..Tries, verdict: Verdicts]
Answers == {"safe", "unsafe", "invalid", "reply", "marker"}
CallRows == [key: Role!Keys, result: Answers]
Ends == {"open", "in time", "late"}

RoleTypes == /\ mission \in {"P07", "P08"} /\ build \in {"starter", "fixed"}
             /\ caps \in [Role!Keys -> Role!Statuses] /\ note \in [Role!Keys -> Role!Statuses]
             /\ calls \in Seq(CallRows)
             /\ closures \in [0..Cases -> Ends]
             /\ late \in BOOLEAN /\ threads \subseteq Role!Keys /\ reached \subseteq Role!Keys
             /\ receipt \in Seq(SUBSET Role!Roles)
             /\ run \in Runs
             /\ used \in [Role!Keys -> Nat]

\* A call that is under way holds a reserved grant; one that reached the model left its mark.
InFlightHold == \A k \in threads: caps[k] = "reserved"
ReachedHold == \A k \in reached: caps[k] \in {"reserved", "completed", "failed"}
CallsCompleted == \A n \in DOMAIN calls: caps[calls[n].key] = "completed"

\* No grant of a closed case, or of a closed suite, can be used any more.
ClosedIsSettled == \A c \in 0..Cases: closures[c] # "open" =>
                     \A k \in Role!KeysOf(c): caps[k] \notin {"issued", "reserved"}
NewIsOpen == run.at = "new" => /\ \A c \in 0..Cases: closures[c] = "open"
                               /\ \A k \in Role!Keys: caps[k] = "none"

\* What the control center has done before it asks for the last check, and what the check has read.
AtTheEnd == /\ run.at \in {"close", "final", "final calls"} => run.case = Cases
            /\ run.at \in {"final", "final calls"} => closures[0] # "open"
            /\ run.at = "final calls" => note = caps
PassedClosed == run.verdict = "PASS" => run.at = "ended" /\ closures[0] # "open"
OwnersInRange == \A k \in Role!Keys: used[k] # 0 => used[k] \in DOMAIN calls /\ calls[used[k]].key = k

GrantsAgree == InFlightHold /\ ReachedHold /\ CallsCompleted /\ ClosedIsSettled
RunAgrees == NewIsOpen /\ AtTheEnd /\ PassedClosed /\ Role!PassedIsTrue
RoleInv == RoleTypes /\ GrantsAgree /\ RunAgrees /\ OwnersInRange

-----------------------------------------------------------------------------

LEMMA KeyFacts ==
  ASSUME Bounds, NEW k \in Role!Keys
  PROVE  /\ k[1] \in 1..Cases /\ k[2] \in Role!Roles /\ k = <<k[1], k[2]>>
         /\ 0 \in 0..Cases /\ k[1] \in 0..Cases
         /\ Role!KeysOf(0) = Role!Keys /\ k \in Role!KeysOf(0) /\ k \in Role!KeysOf(k[1])
         /\ \A c \in 0..Cases: Role!KeysOf(c) \subseteq Role!Keys
  BY DEF Bounds, Role!Keys, Role!KeysOf

\* What a change of the control center's record leaves.
Moved(r, a) == [r EXCEPT !.at = a]
Ended(r, a, v) == [r EXCEPT !.at = a, !.verdict = v]
Concluded(r, a, v) == [r EXCEPT !.at = a, !.verdict = v, !.tries = 0]
Advanced(r, a, c) == [r EXCEPT !.at = a, !.case = c]

LEMMA RunAt ==
  ASSUME NEW r \in Runs, NEW a \in Places, NEW s, s = Moved(r, a)
  PROVE  s \in Runs /\ s.at = a /\ s.case = r.case /\ s.verdict = r.verdict
  <1> DEFINE N == 1..Cases
             T == 0..Tries
  <1>1. Runs = [at: Places, case: N, tries: T, verdict: Verdicts]
    BY DEF Runs
  <1> HIDE DEF N, T
  <1> QED BY <1>1 DEF Moved

LEMMA RunEnds ==
  ASSUME NEW r \in Runs, NEW a \in Places, NEW v \in Verdicts,
         NEW s, s = Ended(r, a, v)
  PROVE  s \in Runs /\ s.at = a /\ s.verdict = v
  <1> DEFINE N == 1..Cases
             T == 0..Tries
  <1>1. Runs = [at: Places, case: N, tries: T, verdict: Verdicts]
    BY DEF Runs
  <1> HIDE DEF N, T
  <1> QED BY <1>1 DEF Ended

LEMMA RunConcludes ==
  ASSUME Bounds, NEW r \in Runs, NEW a \in Places, NEW v \in Verdicts,
         NEW s, s = Concluded(r, a, v)
  PROVE  s \in Runs /\ s.at = a /\ s.case = r.case /\ s.verdict = v
  <1> DEFINE N == 1..Cases
             T == 0..Tries
  <1>1. Runs = [at: Places, case: N, tries: T, verdict: Verdicts] /\ 0 \in T
    BY DEF Runs, Bounds
  <1> HIDE DEF N, T
  <1> QED BY <1>1 DEF Concluded

LEMMA RunTries ==
  ASSUME NEW r \in Runs, NEW t \in 0..Tries, NEW s, s = [r EXCEPT !.tries = t]
  PROVE  s \in Runs /\ s.at = r.at /\ s.case = r.case /\ s.verdict = r.verdict
  <1> DEFINE N == 1..Cases
             T == 0..Tries
  <1>1. Runs = [at: Places, case: N, tries: T, verdict: Verdicts] /\ t \in T
    BY DEF Runs
  <1> HIDE DEF N, T
  <1> QED BY <1>1

LEMMA RunNext ==
  ASSUME NEW r \in Runs, NEW a \in Places, NEW c \in 1..Cases,
         NEW s, s = Advanced(r, a, c)
  PROVE  s \in Runs /\ s.at = a /\ s.verdict = r.verdict
  <1> DEFINE N == 1..Cases
             T == 0..Tries
  <1>1. Runs = [at: Places, case: N, tries: T, verdict: Verdicts] /\ c \in N
    BY DEF Runs
  <1> HIDE DEF N, T
  <1> QED BY <1>1 DEF Advanced

\* A verification that is given up has no verdict to be believed.
LEMMA AbortFacts ==
  ASSUME Bounds, run \in Runs
  PROVE  /\ Role!Abort \in Runs /\ Role!Abort.at = "abort" /\ Role!Abort.verdict = "ERR"
         /\ \A v \in Verdicts: LET ended == [Role!Abort EXCEPT !.verdict = v]
                               IN ended \in Runs /\ ended.at = "abort" /\ ended.verdict = v
  <1> DEFINE N == 1..Cases
             T == 0..Tries
  <1>1. Runs = [at: Places, case: N, tries: T, verdict: Verdicts] /\ 0 \in T
    BY DEF Runs, Bounds
  <1>2. "abort" \in Places /\ "ERR" \in Verdicts
    BY DEF Places, Verdicts
  <1> HIDE DEF N, T
  <1>3. Role!Abort \in Runs /\ Role!Abort.at = "abort" /\ Role!Abort.verdict = "ERR"
    BY <1>1, <1>2 DEF Role!Abort
  <1> HIDE DEF N, T
  <1> QED BY <1>1, <1>3

LEMMA RoleInit == ASSUME Bounds, Role!Init PROVE RoleInv
  <1>1. run \in Runs
    BY DEF Bounds, Role!Init, Runs, Places, Verdicts
  <1>2. /\ caps \in [Role!Keys -> Role!Statuses] /\ note \in [Role!Keys -> Role!Statuses]
        /\ used \in [Role!Keys -> Nat]
    BY DEF Role!Init, Role!Statuses, Role!NoNote
  <1>3. closures \in [0..Cases -> Ends]
    BY DEF Role!Init, Ends
  <1>4. mission \in {"P07", "P08"} /\ build \in {"starter", "fixed"} /\ late \in BOOLEAN
    BY DEF Role!Init
  <1>5. calls \in Seq(CallRows) /\ receipt \in Seq(SUBSET Role!Roles) /\ DOMAIN calls = {}
    BY DEF Role!Init
  <1>6. RoleTypes
    BY <1>1, <1>2, <1>3, <1>4, <1>5 DEF Role!Init, RoleTypes
  <1> QED
    BY <1>5, <1>6 DEF Role!Init, RoleInv, GrantsAgree, InFlightHold, ReachedHold, CallsCompleted,
       ClosedIsSettled, RunAgrees, NewIsOpen, AtTheEnd, PassedClosed, Role!PassedIsTrue, OwnersInRange

-----------------------------------------------------------------------------
(* The gateway. *)

\* What a change of one grant leaves.
LEMMA OneGrant ==
  ASSUME NEW k \in Role!Keys, NEW s \in Role!Statuses,
         caps \in [Role!Keys -> Role!Statuses], caps' = [caps EXCEPT ![k] = s]
  PROVE  /\ caps' \in [Role!Keys -> Role!Statuses] /\ caps'[k] = s
         /\ \A j \in Role!Keys: j # k => caps'[j] = caps[j]
  OBVIOUS

LEMMA PrepareStep == ASSUME Bounds, RoleInv, Role!Prepare PROVE RoleInv'
  <1> USE DEF RoleInv, GrantsAgree, RunAgrees
  <1>1. /\ run'.at = "run" /\ run'.verdict = run.verdict
        /\ run' \in Runs /\ run.verdict # "PASS"
    <2>1. run' = Moved(run, "run") /\ run \in Runs /\ "run" \in Places
      BY DEF Role!Prepare, RoleTypes, Places, Moved
    <2>2. run.verdict # "PASS"
      BY DEF Role!Prepare, PassedClosed
    <2> QED BY <2>1, <2>2, RunAt
  <1>2. caps' = [j \in Role!Keys |-> "issued"] /\ caps' \in [Role!Keys -> Role!Statuses]
    BY DEF Role!Prepare, Role!Statuses
  <1>3. RoleTypes'
    BY <1>1, <1>2 DEF Role!Prepare, RoleTypes, Role!suite
  <1>4. \A c \in 0..Cases: closures'[c] = "open"
    BY DEF Role!Prepare, NewIsOpen
  <1>5. threads = {} /\ reached = {} /\ DOMAIN calls = {}
    <2>1. \A k \in Role!Keys: caps[k] = "none"
      BY DEF Role!Prepare, NewIsOpen
    <2>2. threads = {} /\ reached = {}
      BY <2>1 DEF InFlightHold, ReachedHold, RoleTypes
    <2>3. ASSUME NEW n \in DOMAIN calls PROVE FALSE
      <3>1. calls[n] \in CallRows
        BY DEF RoleTypes
      <3>2. calls[n].key \in Role!Keys
        BY <3>1 DEF CallRows
      <3> QED BY <2>1, <3>2 DEF CallsCompleted
    <2> QED BY <2>2, <2>3
  <1>6. GrantsAgree'
    BY <1>4, <1>5 DEF Role!Prepare, InFlightHold, ReachedHold, CallsCompleted, ClosedIsSettled
  <1>7. RunAgrees'
    BY <1>1 DEF Role!Prepare, NewIsOpen, AtTheEnd, PassedClosed, Role!PassedIsTrue
  <1>8. OwnersInRange'
    BY DEF Role!Prepare, OwnersInRange
  <1> QED BY <1>3, <1>6, <1>7, <1>8

\* While a grant can still be used, nothing has been closed over it, and nothing has passed.
LEMMA GrantIsOpen ==
  ASSUME Bounds, RoleInv, NEW k \in Role!Keys, caps[k] \in {"issued", "reserved"}
  PROVE  /\ closures[0] = "open" /\ closures[k[1]] = "open"
         /\ run.at \notin {"new", "final", "final calls"} /\ run.verdict # "PASS"
  BY KeyFacts DEF RoleInv, GrantsAgree, RunAgrees, ClosedIsSettled, NewIsOpen, AtTheEnd, PassedClosed

LEMMA ReserveStep == ASSUME Bounds, RoleInv, NEW k \in Role!Keys, Role!Reserve(k) PROVE RoleInv'
  <1> USE DEF RoleInv, GrantsAgree, RunAgrees
  <1>1. caps[k] = "issued" /\ UNCHANGED <<mission, build, calls, closures, late, receipt, run, note, used>>
    BY DEF Role!Reserve, Role!Reservable, Role!suite
  <1>2. /\ closures[0] = "open" /\ closures[k[1]] = "open"
        /\ run.at \notin {"new", "final", "final calls"} /\ run.verdict # "PASS"
    BY <1>1, GrantIsOpen
  <1>3. PICK s \in {"expired", "reserved"}:
          /\ caps' = [caps EXCEPT ![k] = s]
          /\ s = "expired" => UNCHANGED <<threads, reached>>
          /\ s = "reserved" => threads' = threads \cup {k} /\ reached' = reached \cup {k}
    BY DEF Role!Reserve
  <1>4. /\ caps' \in [Role!Keys -> Role!Statuses] /\ caps'[k] = s
        /\ \A j \in Role!Keys: j # k => caps'[j] = caps[j]
    BY <1>3, OneGrant DEF RoleTypes, Role!Statuses
  <1>5. RoleTypes'
    BY <1>1, <1>3, <1>4 DEF RoleTypes
  <1>6. InFlightHold' /\ ReachedHold'
    BY <1>1, <1>3, <1>4 DEF RoleTypes, InFlightHold, ReachedHold
  <1>7. CallsCompleted'
    <2> SUFFICES ASSUME NEW n \in DOMAIN calls PROVE caps'[calls[n].key] = "completed"
      BY <1>1 DEF CallsCompleted
    <2>1. calls[n] \in CallRows
      BY DEF RoleTypes
    <2>2. calls[n].key \in Role!Keys
      BY <2>1 DEF CallRows
    <2> QED BY <1>1, <1>4, <2>2 DEF CallsCompleted
  <1>8. ClosedIsSettled'
    BY <1>1, <1>2, <1>4 DEF ClosedIsSettled, Role!KeysOf
  <1>9. RunAgrees'
    BY <1>1, <1>2 DEF NewIsOpen, AtTheEnd, PassedClosed, Role!PassedIsTrue
  <1>10. OwnersInRange'
    BY <1>1 DEF OwnersInRange
  <1> QED BY <1>5, <1>6, <1>7, <1>8, <1>9, <1>10

LEMMA CompleteStep == ASSUME Bounds, RoleInv, NEW k \in Role!Keys, Role!Complete(k) PROVE RoleInv'
  <1> USE DEF RoleInv, GrantsAgree, RunAgrees
  <1>1. PICK result \in Role!Results(k):
          /\ k \in threads /\ caps[k] = "reserved"
          /\ caps' = [caps EXCEPT ![k] = "completed"]
          /\ calls' = Append(calls, [key |-> k, result |-> result])
          /\ threads' = threads \ {k}
          /\ UNCHANGED <<mission, build, closures, late, reached, receipt, run, note, used>>
    BY DEF Role!Complete, Role!suite
  <1>2. /\ closures[0] = "open" /\ closures[k[1]] = "open"
        /\ run.at \notin {"new", "final", "final calls"} /\ run.verdict # "PASS"
    BY <1>1, GrantIsOpen
  <1>3. /\ caps' \in [Role!Keys -> Role!Statuses] /\ caps'[k] = "completed"
        /\ \A j \in Role!Keys: j # k => caps'[j] = caps[j]
    BY <1>1, OneGrant DEF RoleTypes, Role!Statuses
  <1> DEFINE row == [key |-> k, result |-> result]
  <1>4. row \in CallRows /\ row.key = k
    BY DEF CallRows, Answers, Role!Results
  <1>5. /\ calls' \in Seq(CallRows)
        /\ \A n \in DOMAIN calls: n \in DOMAIN calls' /\ calls'[n] = calls[n]
        /\ \A n \in DOMAIN calls': n \in DOMAIN calls \/ calls'[n] = row
    <2>1. calls' = Append(calls, row) /\ calls \in Seq(CallRows)
      BY <1>1 DEF RoleTypes
    <2> HIDE DEF row
    <2> QED BY <1>4, <2>1
  <1>6. RoleTypes'
    BY <1>1, <1>3, <1>5 DEF RoleTypes
  <1>7. InFlightHold' /\ ReachedHold'
    BY <1>1, <1>3 DEF RoleTypes, InFlightHold, ReachedHold
  <1>8. CallsCompleted'
    <2> SUFFICES ASSUME NEW n \in DOMAIN calls' PROVE caps'[calls'[n].key] = "completed"
      BY DEF CallsCompleted
    <2>1. CASE calls'[n] = row
      BY <1>3, <1>4, <2>1
    <2>2. CASE n \in DOMAIN calls
      <3>1. calls[n] \in CallRows
        BY <2>2 DEF RoleTypes
      <3>2. calls[n].key \in Role!Keys
        BY <3>1 DEF CallRows
      <3>3. caps[calls[n].key] = "completed" /\ calls'[n] = calls[n]
        BY <1>5, <2>2 DEF CallsCompleted
      <3> QED BY <1>3, <3>2, <3>3
    <2> QED BY <1>5, <2>1, <2>2
  <1>9. ClosedIsSettled'
    BY <1>1, <1>2, <1>3 DEF ClosedIsSettled, Role!KeysOf
  <1>10. RunAgrees'
    BY <1>1, <1>2 DEF NewIsOpen, AtTheEnd, PassedClosed, Role!PassedIsTrue
  <1>11. OwnersInRange'
    BY <1>1, <1>5 DEF OwnersInRange
  <1> QED BY <1>6, <1>7, <1>8, <1>9, <1>10, <1>11

LEMMA FailStep == ASSUME Bounds, RoleInv, NEW k \in Role!Keys, Role!Fail(k) PROVE RoleInv'
  <1> USE DEF RoleInv, GrantsAgree, RunAgrees
  <1>1. /\ k \in threads /\ threads' = threads \ {k}
        /\ UNCHANGED <<mission, build, calls, closures, late, reached, receipt, run, note, used>>
    BY DEF Role!Fail, Role!suite
  <1>2. caps[k] = "reserved" /\ caps' = [caps EXCEPT ![k] = "failed"]
    BY <1>1 DEF Role!Fail, InFlightHold, RoleTypes
  <1>3. /\ closures[0] = "open" /\ closures[k[1]] = "open"
        /\ run.at \notin {"new", "final", "final calls"} /\ run.verdict # "PASS"
    BY <1>2, GrantIsOpen
  <1>4. /\ caps' \in [Role!Keys -> Role!Statuses] /\ caps'[k] = "failed"
        /\ \A j \in Role!Keys: j # k => caps'[j] = caps[j]
    BY <1>2, OneGrant DEF RoleTypes, Role!Statuses
  <1>5. RoleTypes'
    BY <1>1, <1>4 DEF RoleTypes
  <1>6. InFlightHold' /\ ReachedHold'
    BY <1>1, <1>4 DEF RoleTypes, InFlightHold, ReachedHold
  <1>7. CallsCompleted'
    <2> SUFFICES ASSUME NEW n \in DOMAIN calls PROVE caps'[calls[n].key] = "completed"
      BY <1>1 DEF CallsCompleted
    <2>1. calls[n] \in CallRows
      BY DEF RoleTypes
    <2>2. calls[n].key \in Role!Keys
      BY <2>1 DEF CallRows
    <2> QED BY <1>2, <1>4, <2>2 DEF CallsCompleted
  <1>8. ClosedIsSettled'
    BY <1>1, <1>3, <1>4 DEF ClosedIsSettled, Role!KeysOf
  <1>9. RunAgrees'
    BY <1>1, <1>3 DEF NewIsOpen, AtTheEnd, PassedClosed, Role!PassedIsTrue
  <1>10. OwnersInRange'
    BY <1>1 DEF OwnersInRange
  <1> QED BY <1>5, <1>6, <1>7, <1>8, <1>9, <1>10

LEMMA CrashStep == ASSUME Bounds, RoleInv, Role!Crash PROVE RoleInv'
  <1> USE DEF RoleInv, GrantsAgree, RunAgrees
  <1>1. RoleTypes' /\ OwnersInRange'
    BY DEF Role!Crash, Role!suite, RoleTypes, OwnersInRange
  <1>2. GrantsAgree'
    BY DEF Role!Crash, InFlightHold, ReachedHold, CallsCompleted, ClosedIsSettled
  <1>3. RunAgrees'
    BY DEF Role!Crash, NewIsOpen, AtTheEnd, PassedClosed, Role!PassedIsTrue
  <1> QED BY <1>1, <1>2, <1>3

LEMMA ExpireStep == ASSUME Bounds, RoleInv, Role!Expire PROVE RoleInv'
  <1> USE DEF RoleInv, GrantsAgree, RunAgrees
  <1>1. RoleTypes' /\ OwnersInRange'
    BY DEF Role!Expire, Role!suite, RoleTypes, OwnersInRange
  <1>2. GrantsAgree'
    BY DEF Role!Expire, InFlightHold, ReachedHold, CallsCompleted, ClosedIsSettled
  <1>3. RunAgrees'
    BY DEF Role!Expire, NewIsOpen, AtTheEnd, PassedClosed, Role!PassedIsTrue
  <1> QED BY <1>1, <1>2, <1>3

-----------------------------------------------------------------------------
(* The control center. *)

LEMMA GrantsStay == ASSUME UNCHANGED Role!gateway, GrantsAgree PROVE GrantsAgree'
  BY DEF Role!gateway, GrantsAgree, InFlightHold, ReachedHold, CallsCompleted, ClosedIsSettled

LEMMA RunCaseStep == ASSUME Bounds, RoleInv, Role!RunCase PROVE RoleInv'
  <1> USE DEF RoleInv, RunAgrees
  <1>1. /\ run.at = "run" /\ run'.at = "close case" /\ run'.verdict = run.verdict /\ run' \in Runs
        /\ run.verdict # "PASS"
    <2>1. run' = Moved(run, "close case") /\ run \in Runs /\ "close case" \in Places
      BY DEF Role!RunCase, RoleTypes, Places, Moved
    <2>2. run.at = "run" /\ run.verdict # "PASS"
      BY DEF Role!RunCase, PassedClosed
    <2> QED BY <2>1, <2>2, RunAt
  <1>2. UNCHANGED <<mission, build, caps, calls, closures, late, threads, reached, note, used>>
    BY DEF Role!RunCase, Role!suite, Role!gateway
  <1>3. receipt' \in Seq(SUBSET Role!Roles)
    <2> DEFINE S == SUBSET Role!Roles
               said == {r \in Role!Roles: caps[<<run.case, r>>] = "completed"}
    <2>1. receipt \in Seq(S) /\ said \in S /\ receipt' = Append(receipt, said)
      BY DEF Role!RunCase, RoleTypes
    <2> HIDE DEF S, said
    <2>2. receipt' \in Seq(S)
      BY <2>1
    <2> QED BY <2>2 DEF S
  <1>4. RoleTypes' /\ OwnersInRange'
    BY <1>1, <1>2, <1>3 DEF RoleTypes, OwnersInRange
  <1>5. GrantsAgree'
    BY GrantsStay DEF Role!RunCase
  <1>6. RunAgrees'
    BY <1>1 DEF NewIsOpen, AtTheEnd, PassedClosed, Role!PassedIsTrue
  <1> QED BY <1>4, <1>5, <1>6

LEMMA GiveUpStep == ASSUME Bounds, RoleInv, Role!GiveUp PROVE RoleInv'
  <1> USE DEF RoleInv, RunAgrees
  <1>1. run' \in Runs /\ run'.at \in {"abort", "ended"} /\ run'.verdict = "ERR"
    <2>1. run \in Runs /\ "ended" \in Places /\ "ERR" \in Verdicts
      BY DEF RoleTypes, Places, Verdicts
    <2>2. \/ run' = Ended(run, "ended", "ERR")
          \/ run' = Role!Abort
      BY DEF Role!GiveUp, Ended
    <2>3. CASE run' = Ended(run, "ended", "ERR")
      BY <2>1, <2>3, RunEnds
    <2>4. CASE run' = Role!Abort
      BY <2>1, <2>4, AbortFacts
    <2> QED BY <2>2, <2>3, <2>4
  <1>2. UNCHANGED <<mission, build, caps, calls, closures, late, threads, reached, receipt, used>>
    BY DEF Role!GiveUp, Role!suite, Role!gateway
  <1>3. note' \in [Role!Keys -> Role!Statuses]
    BY DEF Role!GiveUp, Role!NoNote, Role!Statuses
  <1>4. RoleTypes' /\ OwnersInRange'
    BY <1>1, <1>2, <1>3 DEF RoleTypes, OwnersInRange
  <1>5. GrantsAgree'
    BY GrantsStay DEF Role!GiveUp
  <1>6. RunAgrees'
    BY <1>1 DEF NewIsOpen, AtTheEnd, PassedClosed, Role!PassedIsTrue
  <1> QED BY <1>4, <1>5, <1>6

\* Closing a case or the suite takes away the grants nobody used, and no others.
LEMMA CloseFacts ==
  ASSUME Bounds, RoleInv, NEW c \in 0..Cases, Role!Closable(c), Role!Close(c)
  PROVE  /\ caps' \in [Role!Keys -> Role!Statuses] /\ closures' \in [0..Cases -> Ends]
         /\ closures'[c] # "open" /\ \A d \in 0..Cases: closures[d] # "open" => closures'[d] # "open"
         /\ \A k \in Role!Keys: caps'[k] = caps[k] \/ (caps[k] = "issued" /\ caps'[k] = "closed_unused")
         /\ ClosedIsSettled'
  <1> USE DEF RoleInv, GrantsAgree
  <1>1. CASE closures[c] # "open"
    <2>1. UNCHANGED <<caps, closures>>
      BY <1>1 DEF Role!Close
    <2> QED BY <1>1, <2>1 DEF RoleTypes, ClosedIsSettled
  <1>2. CASE closures[c] = "open"
    <2>1. PICK e \in {"late", "in time"}: closures' = [closures EXCEPT ![c] = e]
      BY <1>2 DEF Role!Close
    <2>2. /\ closures' \in [0..Cases -> Ends] /\ closures'[c] = e
          /\ \A d \in 0..Cases: d # c => closures'[d] = closures[d]
      BY <2>1 DEF RoleTypes, Ends
    <2>3. caps' = [k \in Role!Keys |->
                     IF k \in Role!KeysOf(c) /\ caps[k] = "issued" THEN "closed_unused" ELSE caps[k]]
      BY <1>2 DEF Role!Close, Role!Unused
    <2>4. caps' \in [Role!Keys -> Role!Statuses]
      BY <2>3 DEF RoleTypes, Role!Statuses
    <2>5. \A k \in Role!Keys: caps'[k] = caps[k] \/ (caps[k] = "issued" /\ caps'[k] = "closed_unused")
      BY <2>3
    <2>6. \A k \in Role!KeysOf(c): caps'[k] \notin {"issued", "reserved"}
      BY <2>3 DEF Role!Closable, Role!InFlight, Role!KeysOf
    <2>7. ClosedIsSettled'
      <3> SUFFICES ASSUME NEW d \in 0..Cases, closures'[d] # "open", NEW k \in Role!KeysOf(d)
                   PROVE caps'[k] \notin {"issued", "reserved"}
        BY DEF ClosedIsSettled, Role!KeysOf
      <3>1. k \in Role!Keys
        BY DEF Role!KeysOf
      <3> QED BY <2>2, <2>5, <2>6, <3>1 DEF ClosedIsSettled
    <2> QED BY <2>1, <2>2, <2>4, <2>5, <2>7
  <1> QED BY <1>1, <1>2

LEMMA CloseKeepsGrants ==
  ASSUME Bounds, RoleInv, NEW c \in 0..Cases, Role!Closable(c), Role!Close(c),
         UNCHANGED <<calls, threads, reached>>
  PROVE  GrantsAgree'
  <1> USE DEF RoleInv, GrantsAgree
  <1>1. /\ \A k \in Role!Keys: caps'[k] = caps[k] \/ (caps[k] = "issued" /\ caps'[k] = "closed_unused")
        /\ ClosedIsSettled'
    BY CloseFacts
  <1>2. InFlightHold' /\ ReachedHold'
    BY <1>1 DEF RoleTypes, InFlightHold, ReachedHold
  <1>3. CallsCompleted'
    <2> SUFFICES ASSUME NEW n \in DOMAIN calls PROVE caps'[calls[n].key] = "completed"
      BY DEF CallsCompleted
    <2>1. calls[n] \in CallRows
      BY DEF RoleTypes
    <2>2. calls[n].key \in Role!Keys
      BY <2>1 DEF CallRows
    <2> QED BY <1>1, <2>2 DEF CallsCompleted
  <1> QED BY <1>1, <1>2, <1>3

LEMMA CloseCaseStep == ASSUME Bounds, RoleInv, Role!CloseCase PROVE RoleInv'
  <1> USE DEF RoleInv, RunAgrees
  <1>1. run.at = "close case" /\ run.verdict # "PASS" /\ run \in Runs /\ run.case \in 0..Cases
    <2>1. run.at = "close case" /\ run \in Runs
      BY DEF Role!CloseCase, RoleTypes
    <2>2. run.case \in 1..Cases
      BY <2>1 DEF Runs
    <2>3. run.case \in 0..Cases
      BY <2>2
    <2> QED BY <2>1, <2>3 DEF PassedClosed
  <1>2. UNCHANGED <<mission, build, calls, late, threads, reached, receipt, note, used>>
    BY DEF Role!CloseCase, Role!suite
  <1>3. OwnersInRange'
    BY <1>2 DEF OwnersInRange
  <1>4. CASE Role!Closable(run.case)
    <2>1. Role!Close(run.case) /\ run' = Moved(run, "read")
      BY <1>4 DEF Role!CloseCase, Moved
    <2>2. run' \in Runs /\ run'.at = "read" /\ run'.verdict = run.verdict
      <3>1. "read" \in Places
        BY DEF Places
      <3> QED BY <1>1, <2>1, <3>1, RunAt
    <2>3. GrantsAgree' /\ caps' \in [Role!Keys -> Role!Statuses] /\ closures' \in [0..Cases -> Ends]
      BY <1>1, <1>2, <1>4, <2>1, CloseFacts, CloseKeepsGrants
    <2>4. RoleTypes'
      BY <1>2, <2>2, <2>3 DEF RoleTypes
    <2>5. RunAgrees'
      BY <1>1, <2>2 DEF NewIsOpen, AtTheEnd, PassedClosed, Role!PassedIsTrue
    <2> QED BY <1>3, <2>3, <2>4, <2>5
  <1>5. CASE ~Role!Closable(run.case)
    <2>1. run' \in Runs /\ run'.at = "abort" /\ run'.verdict = "ERR" /\ UNCHANGED <<caps, closures>>
      BY <1>1, <1>5, AbortFacts DEF Role!CloseCase
    <2>2. GrantsAgree'
      BY <1>2, <2>1, GrantsStay DEF Role!gateway
    <2>3. RoleTypes'
      BY <1>2, <2>1 DEF RoleTypes
    <2>4. RunAgrees'
      BY <2>1 DEF NewIsOpen, AtTheEnd, PassedClosed, Role!PassedIsTrue
    <2> QED BY <1>3, <2>2, <2>3, <2>4
  <1> QED BY <1>4, <1>5

\* A verification that fails is aborted before the suite is closed: closing it passes nothing.
LEMMA CloseSuiteStep == ASSUME Bounds, RoleInv, Role!CloseSuite PROVE RoleInv'
  <1> USE DEF RoleInv, RunAgrees
  <1> PICK answered \in BOOLEAN:
    /\ run.at \in {"close", "abort"}
    /\ IF Role!Closable(0)
         THEN /\ Role!Close(0)
              /\ run' = IF run.at = "close" /\ answered THEN [run EXCEPT !.at = "final", !.tries = 0]
                        ELSE IF run.at = "close" THEN Role!Abort
                        ELSE [run EXCEPT !.at = "ended", !.verdict = IF answered THEN @ ELSE "ERR", !.tries = 0]
         ELSE /\ run' = IF run.tries + 1 < Tries /\ answered THEN [run EXCEPT !.tries = @ + 1]
                        ELSE IF run.at = "close" THEN Role!Abort
                        ELSE [run EXCEPT !.at = "ended", !.verdict = "ERR", !.tries = 0]
              /\ UNCHANGED <<caps, closures>>
    BY DEF Role!CloseSuite
  <1>1. run.verdict # "PASS" /\ run \in Runs /\ run.verdict \in Verdicts /\ run.tries \in 0..Tries
    BY DEF PassedClosed, RoleTypes, Runs
  <1>2. UNCHANGED <<mission, build, calls, late, threads, reached, receipt, note, used>>
    BY DEF Role!CloseSuite, Role!suite
  <1>3. OwnersInRange'
    BY <1>2 DEF OwnersInRange
  <1>4. CASE Role!Closable(0)
    <2>1. Role!Close(0) /\ 0 \in 0..Cases
      BY <1>4 DEF Bounds
    <2>2. /\ GrantsAgree' /\ caps' \in [Role!Keys -> Role!Statuses] /\ closures' \in [0..Cases -> Ends]
          /\ closures'[0] # "open"
      BY <1>2, <1>4, <2>1, CloseFacts, CloseKeepsGrants
    <2>3. /\ run' \in Runs /\ run'.at \in {"final", "abort", "ended"} /\ run'.verdict # "PASS"
          /\ run'.at = "final" => run.at = "close" /\ run'.case = run.case
      <3>1. CASE run.at = "close" /\ answered
        <4>1. run' = Concluded(run, "final", run.verdict) /\ "final" \in Places
          BY <1>1, <1>4, <3>1 DEF Places, Concluded, Runs
        <4> QED BY <1>1, <3>1, <4>1, RunConcludes
      <3>2. CASE run.at = "close" /\ ~answered
        BY <1>1, <1>4, <3>2, AbortFacts
      <3>3. CASE run.at = "abort"
        <4>1. PICK v \in Verdicts \ {"PASS"}: run' = Concluded(run, "ended", v)
          BY <1>1, <1>4, <3>3 DEF Verdicts, Concluded
        <4>2. "ended" \in Places
          BY DEF Places
        <4> QED BY <1>1, <4>1, <4>2, RunConcludes
      <3> QED BY <3>1, <3>2, <3>3
    <2>4. RoleTypes'
      BY <1>2, <2>2, <2>3 DEF RoleTypes
    <2>5. RunAgrees'
      BY <2>2, <2>3 DEF NewIsOpen, AtTheEnd, PassedClosed, Role!PassedIsTrue
    <2> QED BY <1>3, <2>2, <2>4, <2>5
  <1>5. CASE ~Role!Closable(0)
    <2>1. UNCHANGED <<caps, closures>>
      BY <1>5
    <2>2. GrantsAgree'
      BY <1>2, <2>1, GrantsStay DEF Role!gateway
    <2>3. /\ run' \in Runs /\ run'.at \in {"close", "abort", "ended"} /\ run'.verdict # "PASS"
          /\ run'.at = "close" => run.at = "close" /\ run'.case = run.case
      <3>1. CASE run.tries + 1 < Tries /\ answered
        <4>1. run.tries + 1 \in 0..Tries /\ run' = [run EXCEPT !.tries = run.tries + 1]
          <5>1. run.tries + 1 \in 0..Tries
            BY <1>1, <3>1 DEF Bounds
          <5>2. run' = [run EXCEPT !.tries = run.tries + 1]
            BY <1>5, <3>1
          <5> QED BY <5>1, <5>2
        <4> QED BY <1>1, <4>1, RunTries
      <3>2. CASE ~(run.tries + 1 < Tries /\ answered) /\ run.at = "close"
        BY <1>1, <1>5, <3>2, AbortFacts
      <3>3. CASE ~(run.tries + 1 < Tries /\ answered) /\ run.at = "abort"
        <4>1. run' = Concluded(run, "ended", "ERR") /\ "ended" \in Places /\ "ERR" \in Verdicts
          BY <1>5, <3>3 DEF Places, Verdicts, Concluded
        <4> QED BY <1>1, <4>1, RunConcludes
      <3> QED BY <3>1, <3>2, <3>3
    <2>4. RoleTypes'
      BY <1>2, <2>1, <2>3 DEF RoleTypes
    <2>5. RunAgrees'
      BY <2>1, <2>3 DEF NewIsOpen, AtTheEnd, PassedClosed, Role!PassedIsTrue
    <2> QED BY <1>3, <2>2, <2>4, <2>5
  <1> QED BY <1>4, <1>5

-----------------------------------------------------------------------------
(* The verifier. *)

LEMMA ReadCapabilitiesStep == ASSUME Bounds, RoleInv, Role!ReadCapabilities PROVE RoleInv'
  <1> USE DEF RoleInv, RunAgrees
  <1>1. /\ run.at \in {"read", "final"} /\ run.verdict # "PASS" /\ run \in Runs
        /\ UNCHANGED <<mission, build, caps, calls, closures, late, threads, reached, receipt, used>>
        /\ note' = caps
    BY DEF Role!ReadCapabilities, PassedClosed, RoleTypes, Role!suite, Role!gateway
  <1>2. PICK a \in {"calls", "final calls"}: /\ run' = Moved(run, a)
                                             /\ a = "final calls" <=> run.at = "final"
    BY <1>1 DEF Role!ReadCapabilities, Moved
  <1>3. run' \in Runs /\ run'.at = a /\ run'.case = run.case /\ run'.verdict = run.verdict
    <2>1. a \in Places
      BY DEF Places
    <2> QED BY <1>1, <1>2, <2>1, RunAt
  <1>4. RoleTypes' /\ OwnersInRange'
    BY <1>1, <1>3 DEF RoleTypes, OwnersInRange
  <1>5. GrantsAgree'
    BY GrantsStay DEF Role!ReadCapabilities
  <1>6. RunAgrees'
    BY <1>1, <1>2, <1>3 DEF NewIsOpen, AtTheEnd, PassedClosed, Role!PassedIsTrue
  <1> QED BY <1>4, <1>5, <1>6

\* Each of the suite's calls is one of the numbers from 1; those in scope are all of them.
LEMMA NumberFacts ==
  ASSUME RoleInv, Role!NoFutureCalls, NEW k \in Role!Keys, Role!Called(k)
  PROVE  Role!Number(k) \in DOMAIN calls /\ calls[Role!Number(k)].key = k /\ Role!Number(k) \in Nat \ {0}
  <1>1. calls \in Seq(CallRows) /\ DOMAIN calls = 1..Len(calls) /\ Len(calls) \in Nat
    BY DEF RoleInv, RoleTypes
  <1>2. Role!InScope = 1..Len(calls)
    BY <1>1 DEF Role!NoFutureCalls
  <1>3. PICK n \in DOMAIN calls: calls[n].key = k
    BY <1>1 DEF Role!Called, Role!ResultOf, Role!ToSet
  <1> DEFINE call == CHOOSE m \in Role!InScope: calls[m].key = k
  <1>4. call \in 1..Len(calls) /\ calls[call].key = k
    BY <1>1, <1>2, <1>3
  <1> HIDE DEF call
  <1>5. {m \in Role!InScope: m <= call} = 1..call
    BY <1>1, <1>2, <1>4
  <1>6. Cardinality(1..call) = call
    <2>1. call \in Int /\ 1 \in Int /\ call >= 1
      BY <1>1, <1>4
    <2>2. Cardinality(1..call) = IF 1 > call THEN 0 ELSE call - 1 + 1
      BY <2>1, FS_Interval
    <2> QED BY <2>1, <2>2
  <1>7. Role!Number(k) = call
    <2>1. Role!Cardinality(1..call) = Cardinality(1..call)
      BY DEF Role!Cardinality, Cardinality
    <2> QED BY <1>5, <1>6, <2>1 DEF Role!Number, call
  <1> QED BY <1>1, <1>4, <1>7

\* Claiming the evidence of the calls keeps every owner the call it was claimed with.
LEMMA ReservesFacts ==
  ASSUME Bounds, RoleInv, NEW verdict, Role!Reserves(verdict),
         Role!NoFutureCalls \/ verdict = "ERR", UNCHANGED calls
  PROVE  used' \in [Role!Keys -> Nat] /\ OwnersInRange'
  <1> USE DEF RoleInv
  <1>1. CASE UNCHANGED used
    BY <1>1 DEF RoleTypes, OwnersInRange
  <1>2. CASE used' # used
    <2>1. /\ Role!NoFutureCalls
          /\ used' = [k \in Role!Keys |-> IF k \in Role!Claims THEN Role!Number(k) ELSE used[k]]
      BY <1>2 DEF Role!Reserves
    <2>2. \A k \in Role!Claims: k \in Role!Keys /\ Role!Called(k)
      BY DEF Role!Claims
    <2>3. \A k \in Role!Claims: /\ Role!Number(k) \in DOMAIN calls /\ calls[Role!Number(k)].key = k
                                /\ Role!Number(k) \in Nat
      BY <2>1, <2>2, NumberFacts
    <2>4. \A k \in Role!Keys: IF k \in Role!Claims THEN used'[k] = Role!Number(k) ELSE used'[k] = used[k]
      BY <2>1
    <2>5. used' \in [Role!Keys -> Nat]
      BY <2>1, <2>3 DEF RoleTypes
    <2>6. OwnersInRange'
      BY <2>3, <2>4 DEF OwnersInRange
    <2> QED BY <2>5, <2>6
  <1> QED BY <1>1, <1>2

\* A verdict is one of three.
LEMMA VerdictIsOne == Role!Verdict \in {"PASS", "HIT", "ERR"}
  BY DEF Role!Verdict, Role!SafetyVerdict, Role!SelfCheckVerdict

LEMMA CheckCaseStep == ASSUME Bounds, RoleInv, Role!CheckCase PROVE RoleInv'
  <1> USE DEF RoleInv, RunAgrees
  <1> DEFINE verdict == IF Role!NoFutureCalls THEN Role!Verdict ELSE "ERR"
  <1>1. /\ run.at = "calls" /\ Role!Reserves(verdict)
        /\ UNCHANGED <<mission, build, caps, calls, closures, late, threads, reached, receipt>>
        /\ note' \in [Role!Keys -> Role!Statuses]
        /\ run' = IF verdict # "PASS" THEN [Role!Abort EXCEPT !.verdict = verdict]
                  ELSE IF run.case < Cases THEN [run EXCEPT !.at = "run", !.case = @ + 1]
                  ELSE [run EXCEPT !.at = "close"]
    BY DEF Role!CheckCase, Role!suite, Role!gateway, Role!NoNote, Role!Statuses
  <1>2. verdict \in {"PASS", "HIT", "ERR"} /\ (Role!NoFutureCalls \/ verdict = "ERR")
    BY VerdictIsOne
  <1>3. used' \in [Role!Keys -> Nat] /\ OwnersInRange'
    BY <1>1, <1>2, ReservesFacts
  <1>4. run \in Runs /\ run.verdict # "PASS" /\ run.case \in 1..Cases
    <2>1. run \in Runs
      BY DEF RoleTypes
    <2> QED BY <1>1, <2>1 DEF Runs, PassedClosed
  <1>5. /\ run' \in Runs /\ run'.at \in {"abort", "run", "close"} /\ run'.verdict # "PASS"
        /\ run'.at = "close" => run'.case = Cases
    <2>1. CASE verdict # "PASS"
      <3>1. verdict \in Verdicts /\ run' = [Role!Abort EXCEPT !.verdict = verdict]
        BY <1>1, <1>2, <2>1 DEF Verdicts
      <3> HIDE DEF verdict
      <3> QED BY <1>4, <2>1, <3>1, AbortFacts
    <2>2. CASE verdict = "PASS" /\ run.case < Cases
      <3>1. run' = Advanced(run, "run", run.case + 1) /\ "run" \in Places
        BY <1>1, <2>2 DEF Places, Advanced
      <3>2. run.case + 1 \in 1..Cases
        BY <1>4, <2>2 DEF Bounds
      <3> QED BY <1>4, <3>1, <3>2, RunNext
    <2>3. CASE verdict = "PASS" /\ ~(run.case < Cases)
      <3>1. run' = Moved(run, "close") /\ "close" \in Places
        BY <1>1, <2>3 DEF Places, Moved
      <3>2. run.case = Cases
        BY <1>4, <2>3 DEF Bounds
      <3> QED BY <1>4, <3>1, <3>2, RunAt
    <2> QED BY <2>1, <2>2, <2>3
  <1>6. RoleTypes'
    BY <1>1, <1>3, <1>5 DEF RoleTypes
  <1>7. GrantsAgree'
    BY <1>1, GrantsStay DEF Role!gateway
  <1>8. RunAgrees'
    BY <1>5 DEF NewIsOpen, AtTheEnd, PassedClosed, Role!PassedIsTrue
  <1> QED BY <1>3, <1>6, <1>7, <1>8

LEMMA RiskIsCase ==
  ASSUME Bounds, NEW c \in Normal + 1..Cases
  PROVE  c \in 1..Cases /\ c <= Cases /\ <<c, "main">> \in Role!Keys
  <1>1. c \in 1..Cases /\ c <= Cases
    BY DEF Bounds
  <1> QED BY <1>1 DEF Role!Keys, Role!Roles

\* What the last check asks for of each risk: no call of its main model.
LEMMA RiskHasNoCall ==
  ASSUME Role!Verdict = "PASS", run.case = Cases, run.at = "final calls", Bounds,
         NEW c \in Normal + 1..Cases
  PROVE  ~Role!Called(<<c, "main">>)
  <1>1. Role!Consistent
    BY DEF Role!Verdict
  <1>2. CASE mission = "P07"
    BY <1>1, <1>2 DEF Role!Verdict, Role!SafetyVerdict, Role!RiskIsStopped, Role!RiskIsServed
  <1>3. CASE mission # "P07"
    <2>1. note[<<c, "main">>] = "closed_unused"
      BY <1>1, <1>3 DEF Role!Verdict, Role!SelfCheckVerdict, Role!Stopped
    <2>2. <<c, "main">> \in Role!Considered
      <3>1. c <= Cases /\ <<c, "main">> \in Role!Keys
        BY RiskIsCase
      <3> QED BY <3>1 DEF Role!Considered
    <2> QED BY <1>1, <2>1, <2>2 DEF Role!Consistent, Role!Settled
  <1> QED BY <1>2, <1>3

LEMMA FinalCheckStep == ASSUME Bounds, RoleInv, Role!FinalCheck PROVE RoleInv'
  <1> USE DEF RoleInv, RunAgrees
  <1>1. /\ run.at = "final calls" /\ Role!Reserves(Role!Verdict)
        /\ UNCHANGED <<mission, build, caps, calls, closures, late, threads, reached, receipt>>
        /\ note' \in [Role!Keys -> Role!Statuses]
    BY DEF Role!FinalCheck, Role!suite, Role!gateway, Role!NoNote, Role!Statuses
  <1>2. run \in Runs /\ run.case = Cases /\ note = caps /\ closures[0] # "open"
    BY <1>1 DEF RoleTypes, AtTheEnd
  <1>3. Role!NoFutureCalls
    <2> SUFFICES ASSUME NEW n \in DOMAIN calls PROVE calls[n].key[1] <= run.case
      BY DEF Role!NoFutureCalls, Role!InScope
    <2>1. calls[n] \in CallRows
      BY DEF RoleTypes
    <2>2. calls[n].key \in Role!Keys
      BY <2>1 DEF CallRows
    <2>3. calls[n].key[1] \in 1..Cases
      BY <2>2 DEF Role!Keys
    <2> QED BY <1>2, <2>3
  <1>4. used' \in [Role!Keys -> Nat] /\ OwnersInRange'
    BY <1>1, <1>3, ReservesFacts
  <1>5. PICK v \in {Role!Verdict, "ERR"}: run' = Ended(run, "ended", v)
    BY DEF Role!FinalCheck, Ended
  <1>6. run' \in Runs /\ run'.at = "ended" /\ run'.verdict = v
    <2>1. v \in Verdicts /\ "ended" \in Places
      BY <1>5, VerdictIsOne DEF Verdicts, Places
    <2> HIDE DEF RoleInv, RunAgrees
    <2> QED BY <1>2, <1>5, <2>1, RunEnds
  <1>7. RoleTypes'
    BY <1>1, <1>4, <1>6 DEF RoleTypes
  <1>8. GrantsAgree'
    BY <1>1, GrantsStay DEF Role!gateway
  <1>9. ASSUME run'.verdict = "PASS" PROVE Role!PassedIsTrue'
    <2>1. Role!Verdict = "PASS"
      BY <1>5, <1>6, <1>9
    <2>2. Role!Consistent
      BY <2>1 DEF Role!Verdict
    <2>3. \A k \in Role!Keys: k \in Role!Considered
      BY <1>2, KeyFacts DEF Role!Considered
    <2>4. \A k \in Role!Keys: /\ caps[k] \in {"completed", "closed_unused"}
                              /\ (caps[k] = "completed" <=> Role!Called(k))
      BY <1>2, <2>2, <2>3 DEF Role!Consistent, Role!Settled
    <2>5. threads = {}
      BY <2>4 DEF GrantsAgree, InFlightHold, RoleTypes
    <2>6. ASSUME NEW c \in Normal + 1..Cases PROVE <<c, "main">> \notin reached
      <3>1. ~Role!Called(<<c, "main">>)
        BY <1>1, <1>2, <2>1, RiskHasNoCall
      <3>2. <<c, "main">> \in Role!Keys
        BY RiskIsCase
      <3> QED BY <2>4, <3>1, <3>2 DEF GrantsAgree, ReachedHold
    <2> QED BY <1>1, <2>4, <2>5, <2>6 DEF Role!PassedIsTrue
  <1>10. RunAgrees'
    BY <1>1, <1>2, <1>6, <1>9 DEF NewIsOpen, AtTheEnd, PassedClosed, Role!PassedIsTrue
  <1> QED BY <1>4, <1>7, <1>8, <1>10

-----------------------------------------------------------------------------
\* What the inductive invariant says holds in every state.
LEMMA RoleStep == ASSUME Bounds, RoleInv, [Role!Next]_(Role!vars) PROVE RoleInv'
  <1>1. CASE Role!Next
    BY <1>1, PrepareStep, ReserveStep, CompleteStep, FailStep, CrashStep, ExpireStep, RunCaseStep, GiveUpStep,
       CloseCaseStep, CloseSuiteStep, ReadCapabilitiesStep, CheckCaseStep, FinalCheckStep
       DEF Role!Next, Role!Gateway, Role!Control, Role!Verifier
  <1>2. CASE UNCHANGED Role!vars
    <2>1. UNCHANGED <<mission, build, caps, calls, closures, late, threads, reached, receipt, run, note, used>>
      BY <1>2 DEF Role!vars
    <2>2. RoleTypes' /\ OwnersInRange'
      BY <2>1 DEF RoleInv, RoleTypes, OwnersInRange
    <2>3. GrantsAgree'
      BY <2>1, GrantsStay DEF RoleInv, Role!gateway
    <2>4. RunAgrees'
      BY <2>1 DEF RoleInv, RunAgrees, NewIsOpen, AtTheEnd, PassedClosed, Role!PassedIsTrue
    <2> QED BY <2>2, <2>3, <2>4 DEF RoleInv
  <1> QED BY <1>1, <1>2

\* Every step of the application, the gateway, the control center and the verifier keeps
\* the inductive invariant.
THEOREM RoleInductive == ASSUME Bounds PROVE Role!Spec => []RoleInv
  <1>1. Role!Init => RoleInv
    BY RoleInit
  <1>2. RoleInv /\ [Role!Next]_(Role!vars) => RoleInv'
    BY RoleStep
  <1> QED BY <1>1, <1>2, PTL DEF Role!Spec

\* A verification passes only when no request for the main model of a risk case ever
\* reached it, and none can any more: the last check reads grants that the closed suite
\* keeps as they are.
THEOREM RolePassed == ASSUME Bounds PROVE Role!Spec => []Role!PassedIsTrue
  <1>1. RoleInv => Role!PassedIsTrue
    BY DEF RoleInv, RunAgrees
  <1> QED BY <1>1, RoleInductive, PTL

\* Evidence that was claimed keeps its owner: a call's number among those in scope is
\* its number in the whole suite, as none of a later case may be there yet.
THEOREM RoleOwners == ASSUME Bounds PROVE Role!Spec => []Role!OwnersAreStable
  <1>1. RoleInv => Role!OwnersAreStable
    BY DEF RoleInv, OwnersInRange, Role!OwnersAreStable
  <1> QED BY <1>1, RoleInductive, PTL


\* A step of the gateway changes no grant, and no call, of a closed case.
LEMMA ClosedStep ==
  ASSUME Bounds, RoleInv, Role!Next, NEW c \in 1..Cases, closures[c] # "open"
  PROVE  (\A r \in Role!Roles: caps'[<<c, r>>] = caps[<<c, r>>]) /\ Role!CallsOf(c)' = Role!CallsOf(c)
  <1> USE DEF RoleInv, GrantsAgree
  <1>1. \A r \in Role!Roles: <<c, r>> \in Role!Keys /\ caps[<<c, r>>] \notin {"issued", "reserved"}
    BY DEF ClosedIsSettled, Role!KeysOf, Role!Keys, Bounds
  <1>2. run.at # "new"
    BY DEF RunAgrees, NewIsOpen, Bounds
  <1>3. ASSUME NEW k \in Role!Keys, Role!Reserve(k) \/ Role!Complete(k) \/ Role!Fail(k)
        PROVE  /\ k[1] # c /\ \A j \in Role!Keys: j # k => caps'[j] = caps[j]
               /\ \/ UNCHANGED calls
                  \/ \E result: calls' = Append(calls, [key |-> k, result |-> result])
    <2>1. caps[k] \in {"issued", "reserved"}
      BY <1>3 DEF Role!Reserve, Role!Reservable, Role!Complete, Role!Fail, InFlightHold
    <2>2. k[1] # c
      BY <2>1, KeyFacts DEF ClosedIsSettled
    <2>3. \A j \in Role!Keys: j # k => caps'[j] = caps[j]
      BY <1>3 DEF Role!Reserve, Role!Complete, Role!Fail, RoleTypes
    <2>4. UNCHANGED calls \/ \E result: calls' = Append(calls, [key |-> k, result |-> result])
      BY <1>3 DEF Role!Reserve, Role!Complete, Role!Fail
    <2> QED BY <2>2, <2>3, <2>4
  <1>4. ASSUME NEW k \in Role!Keys, Role!Reserve(k) \/ Role!Complete(k) \/ Role!Fail(k)
        PROVE  (\A r \in Role!Roles: caps'[<<c, r>>] = caps[<<c, r>>]) /\ Role!CallsOf(c)' = Role!CallsOf(c)
    <2>1. \A r \in Role!Roles: caps'[<<c, r>>] = caps[<<c, r>>]
      BY <1>1, <1>3, <1>4
    <2>2. CASE UNCHANGED calls
      BY <2>1, <2>2 DEF Role!CallsOf
    <2>3. ASSUME NEW result, calls' = Append(calls, [key |-> k, result |-> result])
          PROVE  Role!CallsOf(c)' = Role!CallsOf(c)
      <3> DEFINE row == [key |-> k, result |-> result]
      <3>1. row.key[1] # c
        BY <1>3, <1>4
      <3>2. calls \in Seq(CallRows) /\ calls' = Append(calls, row)
        BY <2>3 DEF RoleTypes
      <3> HIDE DEF row
      <3>3. /\ DOMAIN calls' = DOMAIN calls \cup {Len(calls) + 1} /\ calls'[Len(calls) + 1] = row
            /\ \A n \in DOMAIN calls: calls'[n] = calls[n]
        BY <3>2
      <3>4. {n \in DOMAIN calls': calls'[n].key[1] = c} = {n \in DOMAIN calls: calls[n].key[1] = c}
        BY <3>1, <3>3
      <3> QED BY <3>3, <3>4 DEF Role!CallsOf
    <2> QED BY <1>3, <1>4, <2>1, <2>2, <2>3
  <1>5. ASSUME NEW d \in 0..Cases, Role!Closable(d), Role!Close(d)
        PROVE  \A r \in Role!Roles: caps'[<<c, r>>] = caps[<<c, r>>]
    BY <1>1, <1>5, CloseFacts
  <1>6. CASE Role!Prepare
    BY <1>2, <1>6 DEF Role!Prepare
  <1>7. CASE Role!Crash \/ Role!Expire \/ Role!RunCase \/ Role!GiveUp \/ Role!Verifier
    <2>1. UNCHANGED <<caps, calls>>
      BY <1>7 DEF Role!Crash, Role!Expire, Role!RunCase, Role!GiveUp, Role!Verifier,
         Role!ReadCapabilities, Role!CheckCase, Role!FinalCheck, Role!gateway
    <2> QED BY <2>1 DEF Role!CallsOf
  <1>8. CASE Role!CloseCase \/ Role!CloseSuite
    <2>1. UNCHANGED calls
      BY <1>8 DEF Role!CloseCase, Role!CloseSuite
    <2>2. run.case \in 0..Cases /\ 0 \in 0..Cases
      <3>1. run \in Runs
        BY DEF RoleTypes
      <3>2. run.case \in 1..Cases
        BY <3>1 DEF Runs
      <3> QED BY <3>2 DEF Bounds
    <2>3. UNCHANGED caps \/ \E d \in 0..Cases: Role!Closable(d) /\ Role!Close(d)
      BY <1>8, <2>2 DEF Role!CloseCase, Role!CloseSuite
    <2> QED BY <1>5, <2>1, <2>3 DEF Role!CallsOf
  <1> QED BY <1>4, <1>6, <1>7, <1>8 DEF Role!Next, Role!Gateway, Role!Control

\* What a closed case's evidence is judged by stays as it was closed.
THEOREM RoleClosed == ASSUME Bounds PROVE Role!Spec => Role!ClosedIsFinal
  <1>1. RoleInv /\ [Role!Next]_(Role!vars) => [Role!ClosedIsFinalStep]_(Role!vars)
    BY ClosedStep DEF Role!ClosedIsFinalStep
  <1> QED BY <1>1, RoleInductive, PTL DEF Role!Spec, Role!ClosedIsFinal

\* A grant is used for one call: the calls are no more than the grants.
OnceEach == \A m, n \in DOMAIN calls: calls[m].key = calls[n].key => m = n

LEMMA OnceStep == ASSUME Bounds, RoleInv, OnceEach, [Role!Next]_(Role!vars) PROVE OnceEach'
  <1> USE DEF RoleInv, GrantsAgree
  <1>1. CASE UNCHANGED calls
    BY <1>1 DEF OnceEach
  <1>2. ASSUME NEW k \in Role!Keys, Role!Complete(k) PROVE OnceEach'
    <2>1. PICK result: calls' = Append(calls, [key |-> k, result |-> result])
      BY <1>2 DEF Role!Complete
    <2> DEFINE row == [key |-> k, result |-> result]
    <2>2. calls \in Seq(CallRows) /\ calls' = Append(calls, row) /\ row.key = k
      BY <2>1 DEF RoleTypes
    <2>3. \A n \in DOMAIN calls: calls[n].key # k
      BY <1>2 DEF Role!Complete, CallsCompleted
    <2> HIDE DEF row
    <2>4. /\ DOMAIN calls' = DOMAIN calls \cup {Len(calls) + 1} /\ calls'[Len(calls) + 1] = row
          /\ \A n \in DOMAIN calls: calls'[n] = calls[n]
      BY <2>2
    <2> QED BY <2>2, <2>3, <2>4 DEF OnceEach
  <1>3. UNCHANGED calls \/ \E k \in Role!Keys: Role!Complete(k)
    BY DEF Role!Next, Role!Gateway, Role!Control, Role!Verifier, Role!vars, Role!Prepare, Role!Crash,
       Role!Expire, Role!Reserve, Role!Fail, Role!RunCase, Role!GiveUp,
       Role!CloseCase, Role!CloseSuite, Role!ReadCapabilities, Role!CheckCase, Role!FinalCheck, Role!gateway
  <1> QED BY <1>1, <1>2, <1>3

LEMMA CallsAreFew ==
  ASSUME Bounds, RoleInv, OnceEach
  PROVE  Len(calls) <= 2 * Cases
  <1>1. calls \in Seq(CallRows) /\ Len(calls) \in Nat /\ DOMAIN calls = 1..Len(calls)
    BY DEF RoleInv, RoleTypes
  <1>2. IsFiniteSet(Role!Keys) /\ Cardinality(Role!Keys) = Cases * 2
    <2>1. IsFiniteSet(1..Cases) /\ Cardinality(1..Cases) = Cases
      <3>1. Cases \in Int /\ 1 \in Int /\ Cases >= 1
        BY DEF Bounds
      <3>2. IsFiniteSet(1..Cases) /\ Cardinality(1..Cases) = IF 1 > Cases THEN 0 ELSE Cases - 1 + 1
        BY <3>1, FS_Interval
      <3> QED BY <3>1, <3>2
    <2>2. IsFiniteSet({"guard"}) /\ Cardinality({"guard"}) = 1
      BY FS_Singleton
    <2>3. IsFiniteSet({"guard"} \cup {"main"}) /\ Cardinality({"guard"} \cup {"main"}) = 1 + 1
      BY <2>2, FS_AddElement
    <2>4. IsFiniteSet(Role!Roles) /\ Cardinality(Role!Roles) = 2
      <3>1. Role!Roles = {"guard"} \cup {"main"}
        BY DEF Role!Roles
      <3> QED BY <2>3, <3>1
    <2> DEFINE C == 1..Cases
    <2>5. IsFiniteSet(C) /\ Cardinality(C) = Cases
      BY <2>1
    <2> HIDE DEF C
    <2>6. /\ IsFiniteSet(C \X Role!Roles)
          /\ Cardinality(C \X Role!Roles) = Cardinality(C) * Cardinality(Role!Roles)
      BY <2>4, <2>5, FS_Product
    <2>7. Role!Keys = C \X Role!Roles
      BY DEF Role!Keys, C
    <2> QED BY <2>4, <2>5, <2>6, <2>7
  <1> DEFINE S == 1..Len(calls)
             key == [n \in S |-> calls[n].key]
  <1>3. key \in [S -> Role!Keys]
    <2> SUFFICES ASSUME NEW n \in S PROVE calls[n].key \in Role!Keys
      OBVIOUS
    <2>1. calls[n] \in CallRows
      BY <1>1
    <2> QED BY <2>1 DEF CallRows
  <1>4. \A m, n \in S: key[m] = key[n] => m = n
    BY <1>1 DEF OnceEach
  <1>5. IsFiniteSet(S) /\ Cardinality(S) = Len(calls)
    <2>1. 1 \in Int /\ Len(calls) \in Int /\ Len(calls) >= 0
      BY <1>1
    <2>2. IsFiniteSet(S) /\ Cardinality(S) = IF 1 > Len(calls) THEN 0 ELSE Len(calls) - 1 + 1
      BY <2>1, FS_Interval
    <2> QED BY <2>1, <2>2
  <1> HIDE DEF S, key
  <1>6. ~(Cardinality(Role!Keys) < Cardinality(S))
    BY <1>2, <1>3, <1>4, <1>5, FS_PigeonHole
  <1> QED BY <1>1, <1>2, <1>5, <1>6 DEF Bounds

\* Every variable keeps to its type; no call has a number beyond the number of grants.
THEOREM RoleTypeOK == ASSUME Bounds PROVE Role!Spec => []Role!TypeOK
  <1>1. Role!Init => RoleInv /\ OnceEach
    <2>1. Role!Init => OnceEach
      <3> SUFFICES ASSUME Role!Init PROVE DOMAIN calls = {}
        BY DEF OnceEach
      <3> QED BY DEF Role!Init
    <2> QED BY <2>1, RoleInit
  <1>2. RoleInv /\ OnceEach /\ [Role!Next]_(Role!vars) => (RoleInv /\ OnceEach)'
    BY RoleStep, OnceStep
  <1>3. RoleInv /\ OnceEach => Role!TypeOK
    <2> SUFFICES ASSUME RoleInv, OnceEach PROVE Role!TypeOK
      OBVIOUS
    <2>1. used \in [Role!Keys -> 0..2 * Cases]
      <3> SUFFICES ASSUME NEW k \in Role!Keys PROVE used[k] \in 0..2 * Cases
        BY DEF RoleInv, RoleTypes
      <3>1. used[k] \in Nat /\ (used[k] # 0 => used[k] \in 1..Len(calls)) /\ Len(calls) \in Nat
        BY DEF RoleInv, RoleTypes, OwnersInRange
      <3> QED BY <3>1, CallsAreFew DEF Bounds
    <2> QED BY <2>1 DEF Role!TypeOK, RoleInv, RoleTypes, CallRows, Answers, Ends, Runs, Places, Verdicts
  <1> QED BY <1>1, <1>2, <1>3, PTL DEF Role!Spec
-----------------------------------------------------------------------------
(* The tokens of the application gateway. *)

CONSTANTS Tabs, NoTab, MaxPairs, MaxKeys
VARIABLES row, server, pem, marker, active, signed, cookie, bearer, wire, root, mishap

Token == INSTANCE TokenTable

\* There is a key to begin with.
Keyed == MaxPairs \in Nat /\ MaxKeys \in Nat \ {0}

Handling == {"access", "refresh", "issued"}
TokenRows == [access: Token!States, refresh: Token!States]
Servers == [at: {"idle", "access", "refresh", "issued", "logout", "key", "marker"},
            tab: Tabs \cup {NoTab}, pair: Nat, old: 0..MaxPairs]
PairAnswers == {"pair", "gone"}
Messages == [op: {"none", "login", "logout", "chat", "refresh", "pair", "gone", "unauthorized"},
             cookie: 0..MaxPairs, bearer: 0..MaxPairs]

TokenTyped == /\ row \in [Token!Pairs -> TokenRows] /\ server \in Servers
              /\ pem \in [Token!Kids -> {"none", "torn", "whole"}] /\ marker \in 0..MaxKeys /\ active \in Token!Kids
              /\ signed \in [Token!Pairs -> 0..MaxKeys] /\ root \in [Token!Pairs -> 0..MaxPairs]
              /\ cookie \in 0..MaxPairs /\ bearer \in [Tabs -> 0..MaxPairs] /\ mishap \in BOOLEAN
              /\ wire \in [Tabs -> Messages]

\* A pair is recorded with its second transaction; it is signed then, and has its login.
Recorded(p) == row[p].refresh # "none"
RowsHold == \A p \in Token!Pairs: /\ Recorded(p) => signed[p] \in Token!Kids /\ pem[signed[p]] = "whole"
                                  /\ Recorded(p) <=> root[p] # 0
                                  /\ root[p] # 0 => root[root[p]] = root[p]

\* A key is whole before it is marked or used.
KeysHold == /\ pem[active] = "whole" /\ (marker # 0 => pem[marker] = "whole")
            /\ server.at \in {"key", "marker"} => server.pair \in Token!Kids
            /\ server.at = "marker" => pem[server.pair] = "whole"

\* What is in the browser, or on its way, was recorded.
HeldPair(p) == p # 0 => Recorded(p)
BrowserHolds == /\ HeldPair(cookie)
                /\ \A t \in Tabs: HeldPair(bearer[t]) /\ HeldPair(wire[t].cookie) /\ HeldPair(wire[t].bearer)

\* What the place of the handler says of its request, and of the pair it issues.
ServerHolds ==
  /\ server.at = "idle" => server = Token!Waiting
  /\ server.at \in Handling \cup {"logout"} => server.tab \in Tabs
  /\ server.at \in Handling => wire[server.tab].op \in {"login", "refresh"} /\ server.pair \in Token!Pairs
  /\ server.at = "logout" => wire[server.tab].op = "logout"
  /\ server.at \in {"access", "refresh"} =>
       /\ ~Recorded(server.pair) /\ HeldPair(server.old)
       /\ server.old # 0 => \A q \in Token!Pairs: root[q] = root[server.old] => row[q].refresh # "live"
  /\ server.at = "issued" => Recorded(server.pair)

\* A pair that is on its way to its tab is unknown to all others.
Unseen(p) == cookie # p /\ \A u \in Tabs: wire[u].op # "pair" => wire[u].cookie # p
PairsUnseen ==
  /\ server.at = "issued" => Unseen(server.pair) /\ \A t \in Tabs: wire[t].cookie # server.pair
  /\ \A t \in Tabs: wire[t].op = "pair" =>
       /\ wire[t].cookie # 0 /\ Unseen(wire[t].cookie)
       /\ \A u \in Tabs: wire[u].cookie = wire[t].cookie => u = t

GoneIsEmpty == \A t \in Tabs: wire[t].op = "gone" => wire[t].cookie = 0

\* Unless something went wrong, what is on its way works, and a cookie that does not will be replaced.
Live(p) == row[p].refresh = "live"
Outstanding(t) == wire[t].op \in PairAnswers \/ (server.tab = t /\ server.at \in Handling \cup {"logout"})
CookieFollows ==
  ~mishap => /\ server.at = "issued" => Live(server.pair)
             /\ \A t \in Tabs: wire[t].op = "pair" => Live(wire[t].cookie)
             /\ cookie # 0 => Live(cookie) \/ \E t \in Tabs: Outstanding(t)

TokenInv == TokenTyped /\ RowsHold /\ KeysHold /\ BrowserHolds /\ ServerHolds /\ PairsUnseen
            /\ GoneIsEmpty /\ CookieFollows /\ Token!OneHeir

-----------------------------------------------------------------------------
(* Types, and what the updates leave. *)

LEMMA TokenConstants ==
  ASSUME Keyed
  PROVE  /\ Token!Waiting \in Servers /\ Token!Quiet \in Messages /\ Token!NoRow \in TokenRows
         /\ 0 \in 0..MaxPairs /\ 0 \in 0..MaxKeys
         /\ Token!Waiting.at = "idle" /\ Token!Quiet.op = "none" /\ Token!Quiet.cookie = 0 /\ Token!Quiet.bearer = 0
         /\ Token!NoRow.refresh = "none"
         /\ Token!Pairs \subseteq 0..MaxPairs /\ 0 \notin Token!Pairs
         /\ Token!Kids \subseteq 0..MaxKeys /\ 0 \notin Token!Kids
  BY DEF Keyed, Token!Waiting, Servers, Token!Quiet, Messages, Token!NoRow, TokenRows,
         Token!States, Token!Pairs, Token!Kids

\* A token that is revoked or expires keeps its row's other token.
OverIn(r, type) == [r EXCEPT ![type] = "over"]

LEMMA RowOver ==
  ASSUME NEW r \in TokenRows, NEW type \in {"access", "refresh"}, NEW s, s = OverIn(r, type)
  PROVE  s \in TokenRows /\ s.refresh = IF type = "refresh" THEN "over" ELSE r.refresh
<1>1. "over" \in Token!States
  BY DEF Token!States
<1>2. CASE type = "access"
  BY <1>1, <1>2 DEF TokenRows, OverIn
<1>3. CASE type = "refresh"
  BY <1>1, <1>3 DEF TokenRows, OverIn
<1> QED BY <1>2, <1>3

LEMMA RevokedFacts ==
  ASSUME TokenTyped, NEW p \in Token!Pairs, NEW type \in {"access", "refresh"}
  PROVE  /\ Token!Revoked(p, type) \in [Token!Pairs -> TokenRows]
         /\ \A q \in Token!Pairs: Token!Revoked(p, type)[q].refresh =
                              IF q = p /\ type = "refresh" THEN "over" ELSE row[q].refresh
<1>1. row \in [Token!Pairs -> TokenRows] /\ row[p] \in TokenRows
  BY DEF TokenTyped
<1> DEFINE s == OverIn(row[p], type)
<1>2. Token!Revoked(p, type) = [row EXCEPT ![p] = s]
  BY <1>1 DEF Token!Revoked, OverIn
<1>3. s \in TokenRows /\ s.refresh = IF type = "refresh" THEN "over" ELSE row[p].refresh
  BY <1>1, RowOver
<1> HIDE DEF s
<1> QED BY <1>1, <1>2, <1>3

LEMMA UsableFacts ==
  ASSUME Keyed, TokenTyped, NEW p \in 0..MaxPairs, NEW type, Token!Usable(p, type)
  PROVE  p \in Token!Pairs /\ row[p][type] = "live"
  BY DEF Token!Usable, Token!Known, Token!Pairs, Keyed

LEMMA FreshFacts ==
  ASSUME Keyed, Token!Room
  PROVE  Token!Fresh \in Token!Pairs /\ ~Recorded(Token!Fresh)
<1>1. Token!Fresh \in Token!Pairs /\ row[Token!Fresh] = Token!NoRow
  BY DEF Token!Room, Token!Fresh
<1> QED BY <1>1, TokenConstants DEF Recorded

LEMMA NewKidFacts ==
  ASSUME Token!KeyRoom
  PROVE  Token!NewKid \in Token!Kids /\ pem[Token!NewKid] = "none"
  BY DEF Token!KeyRoom, Token!NewKid

\* What was recorded stays so, and nothing comes to life.
RecordedKept == \A p \in Token!Pairs: Recorded(p)' <=> Recorded(p)
LiveKept == \A p \in Token!Pairs: Live(p)' => Live(p)
WholeKept == \A k \in Token!Kids: pem[k] = "whole" => pem'[k] = "whole"

LEMMA RowsKept ==
  ASSUME TokenInv, RecordedKept, WholeKept, UNCHANGED <<signed, root>>
  PROVE  RowsHold'
<1> SUFFICES ASSUME NEW p \in Token!Pairs
             PROVE  /\ Recorded(p)' => signed[p] \in Token!Kids /\ pem'[signed[p]] = "whole"
                    /\ Recorded(p)' <=> root[p] # 0
                    /\ root[p] # 0 => root[root[p]] = root[p]
  BY DEF RowsHold
<1> QED BY DEF TokenInv, RowsHold, RecordedKept, WholeKept

LEMMA HeirKept ==
  ASSUME TokenInv, LiveKept, root' = root
  PROVE  Token!OneHeir'
  BY DEF TokenInv, Token!OneHeir, LiveKept, Live

LEMMA BrowserKept ==
  ASSUME Keyed, TokenInv, \A p \in Token!Pairs: Recorded(p) => Recorded(p)', UNCHANGED <<cookie, bearer, wire>>
  PROVE  BrowserHolds'
<1>1. \A p \in 0..MaxPairs: HeldPair(p) => HeldPair(p)'
  BY DEF HeldPair, Token!Pairs, Keyed
<1>2. cookie \in 0..MaxPairs
  BY DEF TokenInv, TokenTyped
<1>3. ASSUME NEW t \in Tabs
      PROVE  bearer[t] \in 0..MaxPairs /\ wire[t].cookie \in 0..MaxPairs /\ wire[t].bearer \in 0..MaxPairs
  <2>1. bearer[t] \in 0..MaxPairs /\ wire[t] \in Messages
    BY DEF TokenInv, TokenTyped
  <2> QED BY <2>1 DEF Messages
<1>4. HeldPair(cookie)'
  BY <1>1, <1>2 DEF TokenInv, BrowserHolds, HeldPair
<1>5. ASSUME NEW t \in Tabs
      PROVE  HeldPair(bearer[t])' /\ HeldPair(wire[t].cookie)' /\ HeldPair(wire[t].bearer)'
  <2>1. HeldPair(bearer[t]) /\ HeldPair(wire[t].cookie) /\ HeldPair(wire[t].bearer)
    BY DEF TokenInv, BrowserHolds
  <2> QED BY <1>1, <1>3, <2>1 DEF HeldPair
<1> QED BY <1>4, <1>5 DEF BrowserHolds

-----------------------------------------------------------------------------
(* The page, the network, and an answer that changes no row. *)

\* A tab's message changes, while no handler works for it; the cookie stays, is that of an answer, or is gone.
LEMMA WireStep ==
  ASSUME Keyed, TokenInv, NEW t \in Tabs, NEW m \in Messages, wire' = [wire EXCEPT ![t] = m],
         UNCHANGED <<row, server, Token!keys, signed, root>>,
         cookie' \in 0..MaxPairs, bearer' \in [Tabs -> 0..MaxPairs], mishap' \in BOOLEAN, mishap => mishap',
         HeldPair(cookie'), \A u \in Tabs: HeldPair(bearer'[u]), HeldPair(m.cookie), HeldPair(m.bearer),
         server.at \in Handling \cup {"logout"} => server.tab # t,
         m.op \notin PairAnswers, m.cookie \in {0, cookie'},
         \/ cookie' = cookie /\ (mishap' \/ wire[t].op \notin PairAnswers)
         \/ wire[t].op = "pair" /\ cookie' = wire[t].cookie
         \/ cookie' = 0
  PROVE  TokenInv'
<1>1. /\ wire' \in [Tabs -> Messages] /\ wire'[t] = m
      /\ \A u \in Tabs \ {t}: wire'[u] = wire[u]
  BY DEF TokenInv, TokenTyped
<1>2. TokenTyped'
  BY <1>1 DEF TokenInv, TokenTyped, Token!keys
<1>3. RowsHold' /\ Token!OneHeir'
  BY RowsKept, HeirKept DEF RecordedKept, LiveKept, WholeKept, Recorded, Live, Token!keys
<1>4. KeysHold'
  BY DEF TokenInv, KeysHold, Token!keys
<1>5. \A p: (HeldPair(p)' <=> HeldPair(p)) /\ (Live(p)' <=> Live(p)) /\ (Recorded(p)' <=> Recorded(p))
  BY DEF HeldPair, Recorded, Live
<1>6. BrowserHolds'
  <2>1. ASSUME NEW u \in Tabs
        PROVE  HeldPair(bearer'[u]) /\ HeldPair(wire'[u].cookie) /\ HeldPair(wire'[u].bearer)
    BY <1>1 DEF TokenInv, BrowserHolds
  <2> QED BY <2>1 DEF BrowserHolds, HeldPair, Recorded
<1>7. ServerHolds'
  <2>1. server.at \in Handling \cup {"logout"} => wire'[server.tab] = wire[server.tab]
    BY <1>1 DEF TokenInv, ServerHolds
  <2> QED BY <2>1 DEF TokenInv, ServerHolds, Token!Waiting, Handling, HeldPair, Recorded
<1>8. PairsUnseen'
  <2>1. server.at = "issued" => server.pair \in Token!Pairs /\ server.pair # 0
    BY TokenConstants DEF TokenInv, ServerHolds, Handling
  <2>2. ASSUME server.at = "issued"
        PROVE  /\ cookie' # server.pair /\ \A u \in Tabs: wire'[u].cookie # server.pair
    BY <1>1, <2>1, <2>2 DEF TokenInv, PairsUnseen, Unseen
  <2>3. ASSUME NEW u \in Tabs, wire'[u].op = "pair"
        PROVE  /\ wire'[u].cookie # 0 /\ cookie' # wire'[u].cookie
               /\ \A v \in Tabs: wire'[v].cookie = wire'[u].cookie => v = u
    <3>1. u # t /\ wire'[u] = wire[u]
      BY <1>1, <2>3 DEF PairAnswers
    <3>2. /\ wire[u].cookie # 0 /\ cookie # wire[u].cookie
          /\ \A v \in Tabs: wire[v].cookie = wire[u].cookie => v = u
      BY <2>3, <3>1 DEF TokenInv, PairsUnseen, Unseen
    <3>3. cookie' # wire[u].cookie
      BY <3>1, <3>2
    <3> QED BY <1>1, <3>1, <3>2, <3>3
  <2> QED BY <1>1, <2>2, <2>3 DEF PairsUnseen, Unseen
<1>9. CookieFollows'
  <2> SUFFICES ASSUME ~mishap'
               PROVE  /\ server.at = "issued" => Live(server.pair)
                      /\ \A u \in Tabs: wire'[u].op = "pair" => Live(wire'[u].cookie)
                      /\ cookie' # 0 => Live(cookie') \/ \E u \in Tabs: Outstanding(u)'
    BY DEF CookieFollows, Live
  <2>1. /\ server.at = "issued" => Live(server.pair)
        /\ \A u \in Tabs: wire[u].op = "pair" => Live(wire[u].cookie)
        /\ cookie # 0 => Live(cookie) \/ \E u \in Tabs: Outstanding(u)
    BY DEF TokenInv, CookieFollows, TokenTyped
  <2>2. \A u \in Tabs: wire'[u].op = "pair" => Live(wire'[u].cookie)
    BY <1>1, <2>1 DEF PairAnswers
  <2>3. ASSUME cookie' = cookie, wire[t].op \notin PairAnswers, NEW u \in Tabs, Outstanding(u)
        PROVE  Outstanding(u)'
    <3>1. u # t
      BY <2>3 DEF Outstanding
    <3> QED BY <1>1, <2>3, <3>1 DEF Outstanding
  <2>4. cookie' # 0 => Live(cookie') \/ \E u \in Tabs: Outstanding(u)'
    BY <2>1, <2>3
  <2> QED BY <2>1, <2>2, <2>4
<1>10. GoneIsEmpty'
  BY <1>1 DEF TokenInv, GoneIsEmpty, PairAnswers
<1> QED BY <1>2, <1>3, <1>4, <1>6, <1>7, <1>8, <1>9, <1>10 DEF TokenInv

\* A tab that the handler works for has its request on the wire.
LEMMA ServedTab ==
  ASSUME TokenInv, server.at \in Handling \cup {"logout"}
  PROVE  server.tab \in Tabs /\ wire[server.tab].op \in {"login", "refresh", "logout"}
  BY DEF TokenInv, ServerHolds

LEMMA MessageFacts ==
  ASSUME Keyed, TokenInv, NEW t \in Tabs, NEW op \in {"login", "logout", "chat", "refresh"}
  PROVE  /\ Token!Request(op, t) \in Messages /\ Token!Request(op, t).op = op
         /\ Token!Request(op, t).cookie \in {0, cookie}
         /\ HeldPair(Token!Request(op, t).cookie) /\ HeldPair(Token!Request(op, t).bearer)
<1>1. cookie \in 0..MaxPairs /\ bearer[t] \in 0..MaxPairs /\ 0 \in 0..MaxPairs
  BY TokenConstants DEF TokenInv, TokenTyped
<1>2. HeldPair(cookie) /\ HeldPair(bearer[t]) /\ HeldPair(0)
  BY DEF TokenInv, BrowserHolds, HeldPair
<1> QED BY <1>1, <1>2 DEF Token!Request, Messages

LEMMA ClickStep ==
  ASSUME Keyed, TokenInv, NEW t \in Tabs, Token!Click(t)
  PROVE  TokenInv'
<1>1. PICK op \in {"login", "logout", "chat"}: wire' = [wire EXCEPT ![t] = Token!Request(op, t)]
  BY DEF Token!Click
<1>2. wire[t].op = "none" /\ UNCHANGED <<row, server, Token!keys, signed, root, cookie, bearer, mishap>>
  BY TokenConstants DEF Token!Click, Token!browser
<1>3. /\ Token!Request(op, t) \in Messages /\ Token!Request(op, t).op = op
      /\ Token!Request(op, t).cookie \in {0, cookie}
      /\ HeldPair(Token!Request(op, t).cookie) /\ HeldPair(Token!Request(op, t).bearer)
  BY MessageFacts
<1>4. server.at \in Handling \cup {"logout"} => server.tab # t
  BY <1>2, ServedTab
<1>5. cookie \in 0..MaxPairs /\ bearer \in [Tabs -> 0..MaxPairs] /\ mishap \in BOOLEAN
  BY DEF TokenInv, TokenTyped
<1>6. HeldPair(cookie) /\ \A u \in Tabs: HeldPair(bearer[u])
  BY DEF TokenInv, BrowserHolds
<1> DEFINE m == Token!Request(op, t)
<1>7. wire[t].op \notin PairAnswers /\ m.op \notin PairAnswers
  BY <1>2, <1>3 DEF PairAnswers
<1> HIDE DEF m
<1> QED BY <1>1, <1>2, <1>3, <1>4, <1>5, <1>6, <1>7, WireStep DEF m

LEMMA ReceiveStep ==
  ASSUME Keyed, TokenInv, NEW t \in Tabs, Token!Receive(t)
  PROVE  TokenInv'
<1> DEFINE m == IF wire[t].op = "unauthorized" /\ cookie # 0 THEN Token!Request("refresh", t) ELSE Token!Quiet
<1>1. wire[t] \in Messages /\ wire[t].cookie \in 0..MaxPairs /\ wire[t].bearer \in 0..MaxPairs
  BY DEF TokenInv, TokenTyped, Messages
<1>2. /\ HeldPair(cookie) /\ (\A u \in Tabs: HeldPair(bearer[u])) /\ HeldPair(wire[t].cookie)
      /\ HeldPair(wire[t].bearer) /\ HeldPair(0)
  BY DEF TokenInv, BrowserHolds, HeldPair
<1>3. m \in Messages /\ m.op \in {"refresh", "none"} /\ HeldPair(m.cookie) /\ HeldPair(m.bearer)
  BY <1>2, MessageFacts, TokenConstants
<1>4. m.cookie \in {0, cookie} /\ (wire[t].op # "unauthorized" => m.cookie = 0)
  BY MessageFacts, TokenConstants
<1>5. wire' = [wire EXCEPT ![t] = m] /\ UNCHANGED <<row, server, Token!keys, signed, root, mishap>>
  BY DEF Token!Receive
<1>6. server.at \in Handling \cup {"logout"} => server.tab # t
  BY ServedTab DEF Token!Receive
<1>7. /\ wire[t].op \in {"pair", "gone", "unauthorized"}
      /\ cookie' = IF wire[t].op \in {"pair", "gone"} THEN wire[t].cookie ELSE cookie
      /\ bearer' = IF wire[t].op \in {"pair", "gone"} THEN [bearer EXCEPT ![t] = wire[t].bearer] ELSE bearer
  BY DEF Token!Receive
<1>8. cookie' \in 0..MaxPairs /\ bearer' \in [Tabs -> 0..MaxPairs] /\ mishap \in BOOLEAN
  BY <1>1, <1>7 DEF TokenInv, TokenTyped
<1>9. HeldPair(cookie') /\ \A u \in Tabs: HeldPair(bearer'[u])
  BY <1>2, <1>7 DEF TokenInv, TokenTyped
<1>10. m.cookie \in {0, cookie'}
  BY <1>4, <1>7
<1>11. wire[t].op = "gone" => wire[t].cookie = 0
  BY DEF TokenInv, GoneIsEmpty
<1>12. \/ cookie' = cookie /\ wire[t].op \notin PairAnswers
       \/ wire[t].op = "pair" /\ cookie' = wire[t].cookie
       \/ cookie' = 0
  BY <1>7, <1>11 DEF PairAnswers
<1> HIDE DEF m
<1>13. m.op \notin PairAnswers
  BY <1>3 DEF PairAnswers
<1> QED BY <1>3, <1>5, <1>6, <1>8, <1>9, <1>10, <1>12, <1>13, WireStep

LEMMA LoseStep ==
  ASSUME Keyed, TokenInv, NEW t \in Tabs, Token!Lose(t)
  PROVE  TokenInv'
<1>1. /\ wire' = [wire EXCEPT ![t] = Token!Quiet] /\ mishap' = TRUE
      /\ UNCHANGED <<row, server, Token!keys, signed, root, cookie, bearer>>
  BY DEF Token!Lose, Token!browser
<1>2. /\ Token!Quiet \in Messages /\ Token!Quiet.op \notin PairAnswers /\ Token!Quiet.cookie \in {0, cookie}
      /\ HeldPair(Token!Quiet.cookie) /\ HeldPair(Token!Quiet.bearer)
  BY TokenConstants DEF HeldPair, PairAnswers
<1>3. server.at \in Handling \cup {"logout"} => server.tab # t
  BY ServedTab DEF Token!Lose
<1>4. cookie \in 0..MaxPairs /\ bearer \in [Tabs -> 0..MaxPairs]
  BY DEF TokenInv, TokenTyped
<1>5. HeldPair(cookie) /\ \A u \in Tabs: HeldPair(bearer[u])
  BY DEF TokenInv, BrowserHolds
<1> QED BY <1>1, <1>2, <1>3, <1>4, <1>5, WireStep

\* A request that is answered at once.
LEMMA AnsweredStep ==
  ASSUME Keyed, TokenInv, NEW t \in Tabs, NEW m \in Messages, server = Token!Waiting, wire[t].op \notin PairAnswers,
         wire' = [wire EXCEPT ![t] = m], UNCHANGED <<row, server, Token!keys, signed, root, cookie, bearer, mishap>>,
         m.op \notin PairAnswers, m.cookie = 0, m.bearer = 0
  PROVE  TokenInv'
<1>1. server.at \notin Handling \cup {"logout"}
  BY TokenConstants DEF Handling
<1>2. cookie \in 0..MaxPairs /\ bearer \in [Tabs -> 0..MaxPairs] /\ mishap \in BOOLEAN
  BY DEF TokenInv, TokenTyped
<1>3. HeldPair(cookie) /\ (\A u \in Tabs: HeldPair(bearer[u])) /\ HeldPair(0)
  BY DEF TokenInv, BrowserHolds, HeldPair
<1> QED BY <1>1, <1>2, <1>3, WireStep

LEMMA ChatStep ==
  ASSUME Keyed, TokenInv, NEW t \in Tabs, Token!Chat(t)
  PROVE  TokenInv'
<1> DEFINE m == IF Token!Usable(wire[t].bearer, "access") THEN Token!Quiet
                ELSE [op |-> "unauthorized", cookie |-> 0, bearer |-> 0]
<1>1. m \in Messages /\ m.op \notin PairAnswers /\ m.cookie = 0 /\ m.bearer = 0
  BY TokenConstants DEF Messages, PairAnswers
<1>2. /\ server = Token!Waiting /\ wire[t].op \notin PairAnswers /\ wire' = [wire EXCEPT ![t] = m]
      /\ UNCHANGED <<row, server, Token!keys, signed, root, cookie, bearer, mishap>>
  BY DEF Token!Chat, Token!Free, PairAnswers, Token!Answer, Token!browser
<1> HIDE DEF m
<1> QED BY <1>1, <1>2, AnsweredStep

LEMMA PairIsPair ==
  ASSUME Keyed, TokenInv, NEW u \in Tabs, wire[u].op = "pair"
  PROVE  wire[u].cookie \in Token!Pairs
<1>1. wire[u] \in Messages /\ wire[u].cookie # 0
  BY DEF TokenInv, TokenTyped, PairsUnseen
<1> QED BY <1>1 DEF Messages, Token!Pairs, Keyed

-----------------------------------------------------------------------------
(* Handlers that work on: nothing in the browser or on its way changes. *)

\* A pair that is issued begins.
LEMMA IssueStep ==
  ASSUME Keyed, TokenInv, NEW t \in Tabs, server = Token!Waiting, wire[t].op \in {"login", "refresh"}, Token!Room,
         NEW old \in 0..MaxPairs, Token!Issue(t, old),
         UNCHANGED <<Token!keys, signed, cookie, bearer, wire, root, mishap>>,
         row' \in [Token!Pairs -> TokenRows], RecordedKept, LiveKept, HeldPair(old),
         old # 0 => \A q \in Token!Pairs: root[q] = root[old] => row'[q].refresh # "live",
         \A p \in Token!Pairs: Live(p) => Live(p)' \/ (p = wire[t].cookie /\ wire[t].op # "pair")
  PROVE  TokenInv'
<1>1. Token!Fresh \in Token!Pairs /\ ~Recorded(Token!Fresh) /\ Token!Fresh \in Nat
  BY FreshFacts DEF Token!Pairs
<1> DEFINE new == [at |-> "access", tab |-> t, pair |-> Token!Fresh, old |-> old]
<1>2. server' = new
  BY DEF Token!Issue
<1>3. new \in Servers /\ new.at = "access" /\ new.tab = t /\ new.pair = Token!Fresh /\ new.old = old
  BY <1>1 DEF Servers
<1> HIDE DEF new
<1>4. TokenTyped'
  BY <1>2, <1>3 DEF TokenInv, TokenTyped, Token!keys
<1>5. RowsHold' /\ Token!OneHeir' /\ BrowserHolds'
  BY RowsKept, HeirKept, BrowserKept DEF RecordedKept, WholeKept, Token!keys
<1>6. KeysHold'
  BY <1>2, <1>3 DEF TokenInv, KeysHold, Token!keys
<1>7. ServerHolds'
  <2>1. row'[Token!Fresh].refresh = "none" /\ (old # 0 => row'[old].refresh # "none")
    BY <1>1 DEF RecordedKept, Recorded, HeldPair, Token!Pairs, Keyed
  <2>2. server'.pair = Token!Fresh /\ server'.old = old /\ server'.tab = t /\ server'.at = "access"
    BY <1>2, <1>3
  <2> QED BY <1>1, <2>1, <2>2 DEF ServerHolds, Handling, HeldPair, Recorded
<1>8. PairsUnseen'
  BY <1>2, <1>3 DEF TokenInv, PairsUnseen, Unseen
<1>9. GoneIsEmpty'
  BY DEF TokenInv, GoneIsEmpty
<1>10. CookieFollows'
  <2> SUFFICES ASSUME ~mishap
               PROVE  /\ \A u \in Tabs: wire[u].op = "pair" => Live(wire[u].cookie)'
                      /\ cookie # 0 => Live(cookie)' \/ Outstanding(t)'
    BY <1>2, <1>3 DEF CookieFollows, Live
  <2>1. ASSUME NEW u \in Tabs, wire[u].op = "pair"
        PROVE  Live(wire[u].cookie)'
    <3>1. Live(wire[u].cookie) /\ wire[u].cookie \in Token!Pairs
      BY <2>1, PairIsPair DEF TokenInv, CookieFollows
    <3>2. wire[t].op # "pair" => wire[t].cookie # wire[u].cookie
      BY <2>1 DEF TokenInv, PairsUnseen, Unseen
    <3>3. Live(wire[u].cookie) => row'[wire[u].cookie].refresh = "live"
      BY <3>1, <3>2 DEF Live
    <3> QED BY <3>1, <3>3 DEF Live
  <2>2. Outstanding(t)'
    BY <1>2, <1>3 DEF Outstanding, Handling
  <2> QED BY <2>1, <2>2
<1> QED BY <1>4, <1>5, <1>6, <1>7, <1>8, <1>9, <1>10 DEF TokenInv

LEMMA LoginStep ==
  ASSUME Keyed, TokenInv, NEW t \in Tabs, Token!Login(t)
  PROVE  TokenInv'
<1>1. /\ server = Token!Waiting /\ wire[t].op = "login" /\ Token!Room /\ Token!Issue(t, 0)
      /\ UNCHANGED <<row, Token!keys, signed, cookie, bearer, wire, root, mishap>>
  BY DEF Token!Login, Token!Free, Token!browser
<1>2. row' \in [Token!Pairs -> TokenRows] /\ 0 \in 0..MaxPairs
  BY <1>1, TokenConstants DEF TokenInv, TokenTyped
<1>3. RecordedKept /\ LiveKept /\ HeldPair(0) /\ \A p \in Token!Pairs: Live(p) => Live(p)'
  BY <1>1 DEF RecordedKept, LiveKept, Recorded, Live, HeldPair
<1> QED BY <1>1, <1>2, <1>3, IssueStep

LEMMA RefreshStep ==
  ASSUME Keyed, TokenInv, NEW t \in Tabs, Token!Refresh(t)
  PROVE  TokenInv'
<1> DEFINE c == wire[t].cookie
<1>1. /\ server = Token!Waiting /\ wire[t].op = "refresh"
      /\ UNCHANGED <<Token!keys, signed, cookie, bearer, root, mishap>>
  BY DEF Token!Refresh, Token!Free, Token!browser
<1>2. c \in 0..MaxPairs /\ HeldPair(c)
  <2>1. wire[t] \in Messages
    BY DEF TokenInv, TokenTyped
  <2> QED BY <2>1 DEF Messages, TokenInv, BrowserHolds
<1>3. CASE Token!Usable(c, "refresh")
  <2>1. Token!Room /\ Token!Issue(t, c) /\ row' = Token!Revoked(c, "refresh") /\ wire' = wire
    BY <1>3 DEF Token!Refresh
  <2>2. c \in Token!Pairs /\ row[c].refresh = "live"
    BY <1>2, <1>3, UsableFacts DEF TokenInv
  <2> HIDE DEF c
  <2>3. /\ row' \in [Token!Pairs -> TokenRows]
        /\ \A q \in Token!Pairs: row'[q].refresh = IF q = c THEN "over" ELSE row[q].refresh
    BY <2>1, <2>2, RevokedFacts DEF TokenInv
  <2>4. RecordedKept /\ LiveKept
    BY <2>2, <2>3 DEF RecordedKept, LiveKept, Recorded, Live
  <2>5. ASSUME NEW q \in Token!Pairs, root[q] = root[c]
        PROVE  row'[q].refresh # "live"
    <3>1. root[c] # 0
      BY <2>2 DEF TokenInv, RowsHold, Recorded
    <3> QED BY <2>2, <2>3, <2>5, <3>1 DEF TokenInv, Token!OneHeir
  <2>6. \A p \in Token!Pairs: Live(p) => Live(p)' \/ p = c
    BY <2>3 DEF Live
  <2> QED BY <1>1, <1>2, <2>1, <2>3, <2>4, <2>5, <2>6, IssueStep DEF c
<1>4. CASE ~Token!Usable(c, "refresh")
  <2>1. wire' = [wire EXCEPT ![t] = Token!Quiet] /\ UNCHANGED <<row, server>>
    BY <1>4 DEF Token!Refresh
  <2>2. /\ Token!Quiet \in Messages /\ Token!Quiet.op \notin PairAnswers
        /\ Token!Quiet.cookie = 0 /\ Token!Quiet.bearer = 0
    BY TokenConstants DEF PairAnswers
  <2>3. wire[t].op \notin PairAnswers
    BY <1>1 DEF PairAnswers
  <2> QED BY <1>1, <2>1, <2>2, <2>3, AnsweredStep
<1> QED BY <1>3, <1>4

\* The server's record with another place.
LEMMA ServerMoves ==
  ASSUME NEW r \in Servers, NEW a \in {"access", "refresh", "issued", "logout", "key", "marker"},
         NEW s, s = [r EXCEPT !.at = a]
  PROVE  s \in Servers /\ s.at = a /\ s.tab = r.tab /\ s.pair = r.pair /\ s.old = r.old
<1> DEFINE T == Tabs \cup {NoTab}
           O == 0..MaxPairs
<1>1. r \in [at: {"idle", "access", "refresh", "issued", "logout", "key", "marker"}, tab: T, pair: Nat, old: O]
  BY DEF Servers
<1> HIDE DEF T, O
<1>2. /\ s \in [at: {"idle", "access", "refresh", "issued", "logout", "key", "marker"}, tab: T, pair: Nat, old: O]
      /\ s.at = a /\ s.tab = r.tab /\ s.pair = r.pair /\ s.old = r.old
  BY <1>1
<1> QED BY <1>2 DEF Servers, T, O

\* While a handler goes on, what is on its way still works, and its tab's answer is outstanding.
LEMMA ServingKept ==
  ASSUME Keyed, TokenInv, server.at \in Handling, server'.at \in Handling, server'.tab = server.tab,
         UNCHANGED <<cookie, wire, mishap>>, \A p \in Token!Pairs: Live(p) => Live(p)',
         server'.at = "issued" => row'[server'.pair].refresh = "live"
  PROVE  CookieFollows'
<1> SUFFICES ASSUME ~mishap
             PROVE  /\ \A u \in Tabs: wire[u].op = "pair" => row'[wire[u].cookie].refresh = "live"
                    /\ cookie # 0 => row'[cookie].refresh = "live" \/ \E u \in Tabs: Outstanding(u)'
  BY DEF CookieFollows, Live
<1>1. ASSUME NEW u \in Tabs, wire[u].op = "pair"
      PROVE  row'[wire[u].cookie].refresh = "live"
  BY <1>1, PairIsPair DEF TokenInv, CookieFollows, Live
<1>2. server.tab \in Tabs
  BY DEF TokenInv, ServerHolds
<1>3. Outstanding(server.tab)'
  BY DEF Outstanding
<1> QED BY <1>1, <1>2, <1>3

LEMMA RecordAccessStep ==
  ASSUME Keyed, TokenInv, Token!RecordAccess
  PROVE  TokenInv'
<1> DEFINE p == server.pair
<1>1. /\ server.at = "access" /\ row' = [row EXCEPT ![p].access = "live"]
      /\ server' = [server EXCEPT !.at = "refresh"]
      /\ UNCHANGED <<Token!keys, signed, cookie, bearer, wire, root, mishap>>
  BY DEF Token!RecordAccess, Token!browser
<1>2. /\ server' \in Servers /\ server'.at = "refresh" /\ server'.tab = server.tab /\ server'.pair = p
      /\ server'.old = server.old
  BY <1>1, ServerMoves DEF TokenInv, TokenTyped
<1>3. p \in Token!Pairs
  BY <1>1 DEF TokenInv, ServerHolds, Handling
<1>4. row' \in [Token!Pairs -> TokenRows] /\ \A q \in Token!Pairs: row'[q].refresh = row[q].refresh
  <2> DEFINE new == [row[p] EXCEPT !.access = "live"]
  <2>1. row \in [Token!Pairs -> TokenRows] /\ row[p] \in TokenRows
    BY <1>3 DEF TokenInv, TokenTyped
  <2>2. new \in TokenRows /\ new.refresh = row[p].refresh
    BY <2>1 DEF TokenRows, Token!States
  <2>3. row' = [row EXCEPT ![p] = new]
    BY <1>1, <2>1
  <2> HIDE DEF new
  <2> QED BY <1>3, <2>1, <2>2, <2>3
<1> HIDE DEF p
<1>5. TokenTyped'
  BY <1>1, <1>2, <1>4 DEF TokenInv, TokenTyped, Token!keys
<1>6. /\ RecordedKept /\ LiveKept /\ WholeKept
      /\ \A q \in Token!Pairs: (Recorded(q) => Recorded(q)') /\ (Live(q) => Live(q)')
  BY <1>1, <1>4 DEF RecordedKept, LiveKept, WholeKept, Recorded, Live, Token!keys
<1>7. RowsHold' /\ Token!OneHeir' /\ BrowserHolds'
  BY <1>1, <1>6, RowsKept, HeirKept, BrowserKept
<1>8. KeysHold'
  BY <1>1, <1>2 DEF TokenInv, KeysHold, Token!keys
<1>9. ServerHolds'
  <2>1. /\ server.tab \in Tabs /\ wire[server.tab].op \in {"login", "refresh"} /\ ~Recorded(p) /\ HeldPair(server.old)
        /\ server.old # 0 => \A q \in Token!Pairs: root[q] = root[server.old] => row[q].refresh # "live"
    BY <1>1 DEF TokenInv, ServerHolds, Handling, p
  <2>2. server.old \in 0..MaxPairs
    BY DEF TokenInv, TokenTyped, Servers
  <2>3. HeldPair(server.old) => (server.old # 0 => row'[server.old].refresh # "none")
    BY <1>4, <2>2 DEF HeldPair, Recorded, Token!Pairs, Keyed
  <2>4. ~Recorded(p)'
    BY <1>1, <1>2, <1>3, <1>4, <2>1 DEF Recorded, p
  <2> QED BY <1>1, <1>2, <1>3, <1>4, <2>1, <2>3, <2>4 DEF ServerHolds, Handling, HeldPair, Recorded, p
<1>10. PairsUnseen' /\ GoneIsEmpty'
  BY <1>1, <1>2 DEF TokenInv, PairsUnseen, Unseen, GoneIsEmpty
<1>11. CookieFollows'
  BY <1>1, <1>2, <1>6, ServingKept DEF Handling
<1> QED BY <1>5, <1>7, <1>8, <1>9, <1>10, <1>11 DEF TokenInv

LEMMA RecordRefreshStep ==
  ASSUME Keyed, TokenInv, Token!RecordRefresh
  PROVE  TokenInv'
<1> DEFINE p == server.pair
           o == server.old
           r == IF o = 0 THEN p ELSE root[o]
<1>1. /\ server.at = "refresh" /\ row' = [row EXCEPT ![p].refresh = "live"]
      /\ signed' = [signed EXCEPT ![p] = active] /\ root' = [root EXCEPT ![p] = r]
      /\ server' = [server EXCEPT !.at = "issued"] /\ UNCHANGED <<Token!keys, cookie, bearer, wire, mishap>>
  BY DEF Token!RecordRefresh, Token!browser
<1>2. /\ server' \in Servers /\ server'.at = "issued" /\ server'.tab = server.tab /\ server'.pair = p
  BY <1>1, ServerMoves DEF TokenInv, TokenTyped
<1>3. /\ p \in Token!Pairs /\ ~Recorded(p) /\ HeldPair(o) /\ o \in 0..MaxPairs
      /\ o # 0 => \A q \in Token!Pairs: root[q] = root[o] => row[q].refresh # "live"
      /\ server.tab \in Tabs /\ wire[server.tab].op \in {"login", "refresh"}
  BY <1>1 DEF TokenInv, TokenTyped, Servers, ServerHolds, Handling
<1>4. row' \in [Token!Pairs -> TokenRows] /\ row'[p].refresh = "live" /\ \A q \in Token!Pairs \ {p}: row'[q] = row[q]
  <2> DEFINE new == [row[p] EXCEPT !.refresh = "live"]
  <2>1. row \in [Token!Pairs -> TokenRows] /\ row[p] \in TokenRows
    BY <1>3 DEF TokenInv, TokenTyped
  <2>2. new \in TokenRows /\ new.refresh = "live"
    BY <2>1 DEF TokenRows, Token!States
  <2>3. row' = [row EXCEPT ![p] = new]
    BY <1>1, <2>1
  <2> HIDE DEF new
  <2> QED BY <1>3, <2>1, <2>2, <2>3
<1>5. o # 0 => o \in Token!Pairs /\ Recorded(o) /\ root[o] # 0 /\ root[root[o]] = root[o]
  BY <1>3 DEF HeldPair, Token!Pairs, Keyed, TokenInv, RowsHold
<1>6. root[p] = 0 /\ p # 0
  BY <1>3, TokenConstants DEF TokenInv, RowsHold
<1>7. \A q \in Token!Pairs: root[q] # p
  BY <1>3, <1>6 DEF TokenInv, RowsHold
<1>8. r \in Token!Pairs /\ r # 0
  <2>1. o # 0 => root[o] \in 0..MaxPairs
    BY <1>5 DEF TokenInv, TokenTyped
  <2> QED BY <1>3, <1>5, <1>6, <2>1 DEF Token!Pairs, Keyed
<1>9. o = 0 => r = p
  OBVIOUS
<1>10. o # 0 => r = root[o] /\ r # p
  BY <1>5, <1>7
<1> HIDE DEF p, o, r
<1>11. /\ signed' \in [Token!Pairs -> 0..MaxKeys] /\ root' \in [Token!Pairs -> 0..MaxPairs]
       /\ signed'[p] = active /\ root'[p] = r
       /\ \A q \in Token!Pairs \ {p}: signed'[q] = signed[q] /\ root'[q] = root[q]
  BY <1>1, <1>3, <1>8, TokenConstants DEF TokenInv, TokenTyped
<1>12. TokenTyped'
  BY <1>1, <1>2, <1>4, <1>11 DEF TokenInv, TokenTyped, Token!keys
<1>13. RowsHold'
  <2>1. pem' = pem /\ active \in Token!Kids /\ pem[active] = "whole"
    BY <1>1 DEF TokenInv, TokenTyped, KeysHold, Token!keys
  <2>2. root'[r] = r
    BY <1>5, <1>8, <1>9, <1>10, <1>11
  <2> SUFFICES ASSUME NEW q \in Token!Pairs
               PROVE  /\ row'[q].refresh # "none" => signed'[q] \in Token!Kids /\ pem'[signed'[q]] = "whole"
                      /\ row'[q].refresh # "none" <=> root'[q] # 0
                      /\ root'[q] # 0 => root'[root'[q]] = root'[q]
    BY DEF RowsHold, Recorded
  <2>3. CASE q = p
    BY <1>4, <1>8, <1>11, <2>1, <2>2, <2>3
  <2>4. CASE q # p
    <3>1. row'[q] = row[q] /\ signed'[q] = signed[q] /\ root'[q] = root[q]
      BY <1>4, <1>11, <2>4
    <3>2. /\ row[q].refresh # "none" => signed[q] \in Token!Kids /\ pem[signed[q]] = "whole"
          /\ row[q].refresh # "none" <=> root[q] # 0
          /\ root[q] # 0 => root[root[q]] = root[q]
      BY DEF TokenInv, RowsHold, Recorded
    <3>3. root[q] # 0 => root[q] \in Token!Pairs \ {p}
      BY <1>7 DEF TokenInv, TokenTyped, Token!Pairs, Keyed
    <3>4. root[q] # 0 => root'[root[q]] = root[root[q]]
      BY <1>11, <3>3
    <3> QED BY <2>1, <3>1, <3>2, <3>4
  <2> QED BY <2>3, <2>4
<1>14. Token!OneHeir'
  <2>1. ASSUME NEW q \in Token!Pairs \ {p}, root'[q] = r
        PROVE  row'[q].refresh # "live"
    <3>1. root[q] = r /\ row'[q] = row[q]
      BY <1>4, <1>11, <2>1
    <3> QED BY <1>3, <1>7, <1>9, <1>10, <3>1
  <2>2. ASSUME NEW q \in Token!Pairs \ {p}, NEW v \in Token!Pairs \ {p}, root'[q] # 0, root'[q] = root'[v],
               row'[q].refresh = "live", row'[v].refresh = "live"
        PROVE  q = v
    <3>1. root[q] # 0 /\ root[q] = root[v] /\ row[q].refresh = "live" /\ row[v].refresh = "live"
      BY <1>4, <1>11, <2>2
    <3> QED BY <3>1 DEF TokenInv, Token!OneHeir
  <2> QED BY <1>11, <2>1, <2>2 DEF Token!OneHeir
<1>15. \A q \in Token!Pairs: (Recorded(q) => Recorded(q)') /\ (Live(q) => Live(q)')
  BY <1>4 DEF Recorded, Live
<1>16. BrowserHolds'
  BY <1>1, <1>15, BrowserKept
<1>17. KeysHold'
  BY <1>1, <1>2 DEF TokenInv, KeysHold, Token!keys
<1>18. ServerHolds'
  BY <1>1, <1>2, <1>3, <1>4 DEF ServerHolds, Handling, Recorded
<1>19. cookie # p /\ \A u \in Tabs: wire[u].cookie # p
  BY <1>3, <1>6 DEF TokenInv, BrowserHolds, HeldPair
<1>20. PairsUnseen' /\ GoneIsEmpty'
  BY <1>1, <1>2, <1>19 DEF TokenInv, PairsUnseen, Unseen, GoneIsEmpty
<1>21. CookieFollows'
  <2>1. server.at \in Handling /\ server'.at \in Handling
    BY <1>1, <1>2 DEF Handling
  <2>2. server'.at = "issued" => Live(server.pair)'
    BY <1>1, <1>2, <1>4 DEF Live, p
  <2> QED BY <1>1, <1>2, <1>4, <1>15, <2>1, ServingKept DEF p, Live
<1> QED BY <1>12, <1>13, <1>14, <1>16, <1>17, <1>18, <1>20, <1>21 DEF TokenInv

LEMMA IssuedStep ==
  ASSUME Keyed, TokenInv, Token!Issued
  PROVE  TokenInv'
<1> DEFINE t == server.tab
           p == server.pair
           m == [op |-> "pair", cookie |-> p, bearer |-> p]
<1>1. /\ server.at = "issued" /\ wire' = [wire EXCEPT ![t] = m] /\ server' = Token!Waiting
      /\ UNCHANGED <<row, Token!keys, signed, root, cookie, bearer, mishap>>
  BY DEF Token!Issued, Token!Answer, Token!browser
<1>2. t \in Tabs /\ p \in Token!Pairs /\ Recorded(p)
  BY <1>1 DEF TokenInv, ServerHolds, Handling
<1>3. m \in Messages /\ m.op = "pair" /\ m.cookie = p /\ m.bearer = p /\ p # 0
  BY <1>2, TokenConstants DEF Messages
<1>4. cookie # p /\ \A u \in Tabs: wire[u].cookie # p
  BY <1>1 DEF TokenInv, PairsUnseen, Unseen
<1> HIDE DEF m
<1>5. wire' \in [Tabs -> Messages] /\ wire'[t] = m /\ \A u \in Tabs \ {t}: wire'[u] = wire[u]
  BY <1>1, <1>2, <1>3 DEF TokenInv, TokenTyped
<1>6. TokenTyped'
  BY <1>1, <1>5, TokenConstants DEF TokenInv, TokenTyped, Token!keys
<1>7. RowsHold' /\ Token!OneHeir'
  BY <1>1, RowsKept, HeirKept DEF RecordedKept, LiveKept, WholeKept, Recorded, Live, Token!keys
<1>8. KeysHold'
  BY <1>1, TokenConstants DEF TokenInv, KeysHold, Token!keys
<1>9. BrowserHolds'
  <2>1. row[p].refresh # "none"
    BY <1>2 DEF Recorded
  <2>2. ASSUME NEW u \in Tabs
        PROVE  /\ bearer[u] # 0 => row[bearer[u]].refresh # "none"
               /\ wire'[u].cookie # 0 => row[wire'[u].cookie].refresh # "none"
               /\ wire'[u].bearer # 0 => row[wire'[u].bearer].refresh # "none"
    <3>1. /\ bearer[u] # 0 => row[bearer[u]].refresh # "none"
          /\ wire[u].cookie # 0 => row[wire[u].cookie].refresh # "none"
          /\ wire[u].bearer # 0 => row[wire[u].bearer].refresh # "none"
      BY DEF TokenInv, BrowserHolds, HeldPair, Recorded
    <3> QED BY <1>3, <1>5, <2>1, <3>1
  <2>3. cookie # 0 => row[cookie].refresh # "none"
    BY DEF TokenInv, BrowserHolds, HeldPair, Recorded
  <2> QED BY <1>1, <2>2, <2>3 DEF BrowserHolds, HeldPair, Recorded
<1>10. ServerHolds'
  BY <1>1, TokenConstants DEF ServerHolds, Handling, Token!Waiting
<1>11. GoneIsEmpty'
  BY <1>3, <1>5 DEF TokenInv, GoneIsEmpty
<1>12. PairsUnseen'
  <2>1. server'.at = "idle"
    BY <1>1, TokenConstants
  <2>2. ASSUME NEW u \in Tabs, wire'[u].op = "pair"
        PROVE  /\ wire'[u].cookie # 0 /\ cookie # wire'[u].cookie
               /\ \A v \in Tabs: wire'[v].cookie = wire'[u].cookie => v = u
    <3>1. CASE u = t
      BY <1>3, <1>4, <1>5, <3>1
    <3>2. CASE u # t
      <4>1. wire'[u] = wire[u]
        BY <1>5, <3>2
      <4>2. /\ wire[u].cookie # 0 /\ cookie # wire[u].cookie
            /\ \A v \in Tabs: wire[v].cookie = wire[u].cookie => v = u
        BY <2>2, <4>1 DEF TokenInv, PairsUnseen, Unseen
      <4> QED BY <1>3, <1>4, <1>5, <4>1, <4>2
    <3> QED BY <3>1, <3>2
  <2> QED BY <1>1, <2>1, <2>2 DEF PairsUnseen, Unseen
<1>13. CookieFollows'
  <2> SUFFICES ASSUME ~mishap
               PROVE  /\ \A u \in Tabs: wire'[u].op = "pair" => row[wire'[u].cookie].refresh = "live"
                      /\ \E u \in Tabs: Outstanding(u)'
    BY <1>1, TokenConstants DEF CookieFollows, Live
  <2>1. row[p].refresh = "live" /\ \A u \in Tabs: wire[u].op = "pair" => row[wire[u].cookie].refresh = "live"
    BY <1>1 DEF TokenInv, CookieFollows, Live
  <2>2. \E u \in Tabs: wire'[u].op \in PairAnswers
    BY <1>2, <1>3, <1>5 DEF PairAnswers
  <2>3. \E u \in Tabs: Outstanding(u)'
    BY <2>2 DEF Outstanding
  <2> QED BY <1>2, <1>3, <1>5, <2>1, <2>3
<1> QED BY <1>6, <1>7, <1>8, <1>9, <1>10, <1>11, <1>12, <1>13 DEF TokenInv

LEMMA LogoutRefreshStep ==
  ASSUME Keyed, TokenInv, NEW t \in Tabs, Token!LogoutRefresh(t)
  PROVE  TokenInv'
<1> DEFINE c == wire[t].cookie
<1>1. /\ server = Token!Waiting /\ wire[t].op = "logout"
      /\ server' = [Token!Waiting EXCEPT !.at = "logout", !.tab = t]
      /\ row' = IF Token!Usable(c, "refresh") THEN Token!Revoked(c, "refresh") ELSE row
      /\ UNCHANGED <<Token!keys, signed, root, cookie, bearer, wire, mishap>>
  BY DEF Token!LogoutRefresh, Token!Free, Token!browser
<1>2. server' \in Servers /\ server'.at = "logout" /\ server'.tab = t
  <2>1. server' = [at |-> "logout", tab |-> t, pair |-> 0, old |-> 0]
    BY <1>1 DEF Token!Waiting
  <2> QED BY <2>1, TokenConstants DEF Servers
<1>3. c \in 0..MaxPairs
  <2>1. wire[t] \in Messages
    BY DEF TokenInv, TokenTyped
  <2> QED BY <2>1 DEF Messages
<1>4. /\ row' \in [Token!Pairs -> TokenRows]
      /\ \A q \in Token!Pairs: \/ row'[q].refresh = row[q].refresh
                               \/ q = c /\ row[q].refresh = "live" /\ row'[q].refresh = "over"
  <2>1. CASE Token!Usable(c, "refresh")
    <3>1. c \in Token!Pairs /\ row[c].refresh = "live"
      BY <1>3, <2>1, UsableFacts DEF TokenInv
    <3> HIDE DEF c
    <3>2. /\ Token!Revoked(c, "refresh") \in [Token!Pairs -> TokenRows]
          /\ \A q \in Token!Pairs: Token!Revoked(c, "refresh")[q].refresh = IF q = c THEN "over" ELSE row[q].refresh
      BY <3>1, RevokedFacts DEF TokenInv
    <3> QED BY <1>1, <2>1, <3>1, <3>2
  <2>2. CASE ~Token!Usable(c, "refresh")
    BY <1>1, <2>2 DEF TokenInv, TokenTyped
  <2> QED BY <2>1, <2>2
<1> HIDE DEF c
<1>5. TokenTyped'
  BY <1>1, <1>2, <1>4 DEF TokenInv, TokenTyped, Token!keys
<1>6. RecordedKept /\ LiveKept /\ WholeKept /\ \A q \in Token!Pairs: Live(q) => Live(q)' \/ q = c
  BY <1>1, <1>4 DEF RecordedKept, LiveKept, WholeKept, Recorded, Live, Token!keys
<1>7. RowsHold' /\ Token!OneHeir' /\ BrowserHolds'
  BY <1>1, <1>6, RowsKept, HeirKept, BrowserKept DEF RecordedKept
<1>8. KeysHold'
  BY <1>1, <1>2 DEF TokenInv, KeysHold, Token!keys
<1>9. ServerHolds'
  BY <1>1, <1>2 DEF ServerHolds, Handling
<1>10. PairsUnseen' /\ GoneIsEmpty'
  BY <1>1, <1>2 DEF TokenInv, PairsUnseen, Unseen, GoneIsEmpty
<1>11. CookieFollows'
  <2> SUFFICES ASSUME ~mishap
               PROVE  \A u \in Tabs: wire[u].op = "pair" => row'[wire[u].cookie].refresh = "live"
    <3>1. Outstanding(t)'
      BY <1>2 DEF Outstanding
    <3> QED BY <1>1, <1>2, <3>1 DEF CookieFollows, Live
  <2> SUFFICES ASSUME NEW u \in Tabs, wire[u].op = "pair"
               PROVE  row'[wire[u].cookie].refresh = "live"
    OBVIOUS
  <2>1. Live(wire[u].cookie) /\ wire[u].cookie \in Token!Pairs
    BY PairIsPair DEF TokenInv, CookieFollows
  <2>2. wire[u].cookie # c
    BY <1>1 DEF TokenInv, PairsUnseen, Unseen, c
  <2> QED BY <1>4, <2>1, <2>2 DEF Live
<1> QED BY <1>5, <1>7, <1>8, <1>9, <1>10, <1>11 DEF TokenInv

LEMMA LogoutAccessStep ==
  ASSUME Keyed, TokenInv, Token!LogoutAccess
  PROVE  TokenInv'
<1> DEFINE t == server.tab
           b == wire[t].bearer
           m == [op |-> "gone", cookie |-> 0, bearer |-> 0]
<1>1. /\ server.at = "logout" /\ wire' = [wire EXCEPT ![t] = m] /\ server' = Token!Waiting
      /\ row' = IF Token!Usable(b, "access") THEN Token!Revoked(b, "access") ELSE row
      /\ UNCHANGED <<Token!keys, signed, root, cookie, bearer, mishap>>
  BY DEF Token!LogoutAccess, Token!Answer, Token!browser
<1>2. t \in Tabs /\ wire[t].op = "logout"
  BY <1>1 DEF TokenInv, ServerHolds
<1>3. m \in Messages /\ m.op = "gone" /\ m.cookie = 0 /\ m.bearer = 0
  BY TokenConstants DEF Messages
<1>4. row' \in [Token!Pairs -> TokenRows] /\ \A q \in Token!Pairs: row'[q].refresh = row[q].refresh
  <2>1. b \in 0..MaxPairs
    <3>1. wire[t] \in Messages
      BY <1>2 DEF TokenInv, TokenTyped
    <3> QED BY <3>1 DEF Messages
  <2>2. CASE Token!Usable(b, "access")
    <3>1. b \in Token!Pairs
      BY <2>1, <2>2, UsableFacts DEF TokenInv
    <3> HIDE DEF b
    <3>2. /\ Token!Revoked(b, "access") \in [Token!Pairs -> TokenRows]
          /\ \A q \in Token!Pairs: Token!Revoked(b, "access")[q].refresh = row[q].refresh
      BY <3>1, RevokedFacts DEF TokenInv
    <3> QED BY <1>1, <2>2, <3>2
  <2>3. CASE ~Token!Usable(b, "access")
    BY <1>1, <2>3 DEF TokenInv, TokenTyped
  <2> QED BY <2>2, <2>3
<1> HIDE DEF t, b, m
<1>5. wire' \in [Tabs -> Messages] /\ wire'[t] = m /\ \A u \in Tabs \ {t}: wire'[u] = wire[u]
  BY <1>1, <1>2, <1>3 DEF TokenInv, TokenTyped
<1>6. TokenTyped'
  BY <1>1, <1>4, <1>5, TokenConstants DEF TokenInv, TokenTyped, Token!keys
<1>7. RecordedKept /\ LiveKept /\ WholeKept /\ \A q \in Token!Pairs: Live(q) => Live(q)'
  BY <1>1, <1>4 DEF RecordedKept, LiveKept, WholeKept, Recorded, Live, Token!keys
<1>8. RowsHold' /\ Token!OneHeir'
  BY <1>1, <1>7, RowsKept, HeirKept
<1>9. KeysHold'
  BY <1>1, TokenConstants DEF TokenInv, KeysHold, Token!keys
<1>10. BrowserHolds'
  <2>1. ASSUME NEW u \in Tabs
        PROVE  /\ bearer[u] # 0 => row'[bearer[u]].refresh # "none"
               /\ wire'[u].cookie # 0 => row'[wire'[u].cookie].refresh # "none"
               /\ wire'[u].bearer # 0 => row'[wire'[u].bearer].refresh # "none"
    <3>1. /\ bearer[u] # 0 => bearer[u] \in Token!Pairs /\ row[bearer[u]].refresh # "none"
          /\ wire[u].cookie # 0 => wire[u].cookie \in Token!Pairs /\ row[wire[u].cookie].refresh # "none"
          /\ wire[u].bearer # 0 => wire[u].bearer \in Token!Pairs /\ row[wire[u].bearer].refresh # "none"
      <4>1. bearer[u] \in 0..MaxPairs /\ wire[u] \in Messages
        BY DEF TokenInv, TokenTyped
      <4>2. wire[u].cookie \in 0..MaxPairs /\ wire[u].bearer \in 0..MaxPairs
        BY <4>1 DEF Messages
      <4> QED BY <4>1, <4>2 DEF TokenInv, BrowserHolds, HeldPair, Recorded, Token!Pairs, Keyed
    <3>2. CASE u = t
      BY <1>3, <1>4, <1>5, <3>1, <3>2
    <3>3. CASE u # t
      BY <1>4, <1>5, <3>1, <3>3
    <3> QED BY <3>2, <3>3
  <2>2. cookie # 0 => row'[cookie].refresh # "none"
    BY <1>4 DEF TokenInv, TokenTyped, BrowserHolds, HeldPair, Recorded, Token!Pairs, Keyed
  <2> QED BY <1>1, <2>1, <2>2 DEF BrowserHolds, HeldPair, Recorded
<1>11. ServerHolds'
  BY <1>1, TokenConstants DEF ServerHolds, Handling, Token!Waiting
<1>12. GoneIsEmpty'
  BY <1>3, <1>5 DEF TokenInv, GoneIsEmpty
<1>13. PairsUnseen'
  <2>1. server'.at = "idle"
    BY <1>1, TokenConstants
  <2>2. ASSUME NEW u \in Tabs, wire'[u].op = "pair"
        PROVE  /\ wire'[u].cookie # 0 /\ cookie # wire'[u].cookie
               /\ \A v \in Tabs: wire'[v].cookie = wire'[u].cookie => v = u
    <3>1. u # t /\ wire'[u] = wire[u]
      BY <1>3, <1>5, <2>2
    <3>2. /\ wire[u].cookie # 0 /\ cookie # wire[u].cookie
          /\ \A v \in Tabs: wire[v].cookie = wire[u].cookie => v = u
      BY <2>2, <3>1 DEF TokenInv, PairsUnseen, Unseen
    <3> QED BY <1>3, <1>5, <3>1, <3>2
  <2> QED BY <1>1, <2>1, <2>2 DEF PairsUnseen, Unseen
<1>14. CookieFollows'
  <2> SUFFICES ASSUME ~mishap, NEW u \in Tabs, wire'[u].op = "pair"
               PROVE  row'[wire'[u].cookie].refresh = "live"
    <3>1. \E u \in Tabs: wire'[u].op \in PairAnswers
      BY <1>2, <1>3, <1>5 DEF PairAnswers
    <3>2. \E u \in Tabs: Outstanding(u)'
      BY <3>1 DEF Outstanding
    <3> QED BY <1>1, <3>2, TokenConstants DEF CookieFollows, Live
  <2>1. u # t /\ wire'[u] = wire[u]
    BY <1>3, <1>5
  <2>2. Live(wire[u].cookie) /\ wire[u].cookie \in Token!Pairs
    BY <2>1, PairIsPair DEF TokenInv, CookieFollows
  <2> QED BY <1>4, <2>1, <2>2 DEF Live
<1> QED BY <1>6, <1>8, <1>9, <1>10, <1>11, <1>12, <1>13, <1>14 DEF TokenInv

-----------------------------------------------------------------------------
(* Keys, crashes and expiry. *)

\* Keys are changed while no handler works and nothing in the browser or on its way changes.
LEMMA KeyStep ==
  ASSUME Keyed, TokenInv, server.at \in {"idle", "key", "marker"}, server' \in Servers,
         server'.at \in {"key", "marker"} \/ server' = Token!Waiting,
         UNCHANGED <<row, signed, root, cookie, bearer, wire, mishap>>, WholeKept, KeysHold',
         pem' \in [Token!Kids -> {"none", "torn", "whole"}], marker' \in 0..MaxKeys, active' \in Token!Kids
  PROVE  TokenInv'
<1>1. TokenTyped'
  BY DEF TokenInv, TokenTyped
<1>2. RowsHold' /\ Token!OneHeir' /\ BrowserHolds'
  BY RowsKept, HeirKept, BrowserKept DEF RecordedKept, LiveKept, Recorded, Live
<1>3. server'.at \in {"idle", "key", "marker"}
  BY TokenConstants
<1>4. ServerHolds'
  BY <1>3, TokenConstants DEF ServerHolds, Handling, Token!Waiting
<1>5. PairsUnseen' /\ GoneIsEmpty'
  BY <1>3 DEF TokenInv, PairsUnseen, Unseen, GoneIsEmpty
<1>6. CookieFollows'
  BY <1>3 DEF TokenInv, CookieFollows, Live, Outstanding, Handling
<1> QED BY <1>1, <1>2, <1>4, <1>5, <1>6 DEF TokenInv

LEMMA WriteKeyStep ==
  ASSUME Keyed, TokenInv, Token!WriteKey
  PROVE  TokenInv'
<1> DEFINE k == Token!NewKid
<1>1. k \in Token!Kids /\ pem[k] = "none"
  BY NewKidFacts DEF Token!WriteKey
<1> HIDE DEF k
<1>2. /\ server = Token!Waiting /\ pem' = [pem EXCEPT ![k] = "torn"]
      /\ server' = [Token!Waiting EXCEPT !.at = "key", !.pair = k]
      /\ UNCHANGED <<row, marker, active, signed, root, cookie, bearer, wire, mishap>>
  BY DEF Token!WriteKey, Token!browser, k
<1>3. server' \in Servers /\ server'.at = "key" /\ server'.pair = k
  <2>1. server' = [at |-> "key", tab |-> NoTab, pair |-> k, old |-> 0]
    BY <1>2 DEF Token!Waiting
  <2>2. k \in Nat /\ 0 \in 0..MaxPairs
    BY <1>1, TokenConstants DEF Token!Kids
  <2> QED BY <2>1, <2>2 DEF Servers
<1>4. pem' \in [Token!Kids -> {"none", "torn", "whole"}] /\ \A j \in Token!Kids: j # k => pem'[j] = pem[j]
  BY <1>1, <1>2 DEF TokenInv, TokenTyped
<1>5. WholeKept
  BY <1>1, <1>4 DEF WholeKept
<1>6. active \in Token!Kids /\ marker \in 0..MaxKeys /\ (marker # 0 => marker \in Token!Kids)
  BY DEF TokenInv, TokenTyped, Token!Kids, Keyed
<1>7. KeysHold'
  BY <1>1, <1>2, <1>3, <1>5, <1>6 DEF TokenInv, KeysHold, WholeKept
<1>8. server.at = "idle"
  BY <1>2, TokenConstants
<1> QED BY <1>2, <1>3, <1>4, <1>5, <1>6, <1>7, <1>8, KeyStep

LEMMA KeyWrittenStep ==
  ASSUME Keyed, TokenInv, Token!KeyWritten
  PROVE  TokenInv'
<1> DEFINE k == server.pair
<1>1. /\ server.at = "key" /\ pem' = [pem EXCEPT ![k] = "whole"] /\ marker' = 0
      /\ server' = [server EXCEPT !.at = "marker"]
      /\ UNCHANGED <<row, active, signed, root, cookie, bearer, wire, mishap>>
  BY DEF Token!KeyWritten, Token!browser
<1>2. k \in Token!Kids
  BY <1>1 DEF TokenInv, KeysHold
<1>3. server' \in Servers /\ server'.at = "marker" /\ server'.pair = k
  BY <1>1, ServerMoves DEF TokenInv, TokenTyped
<1> HIDE DEF k
<1>4. /\ pem' \in [Token!Kids -> {"none", "torn", "whole"}] /\ pem'[k] = "whole"
      /\ \A j \in Token!Kids: j # k => pem'[j] = pem[j]
  BY <1>1, <1>2 DEF TokenInv, TokenTyped
<1>5. WholeKept
  BY <1>4 DEF WholeKept
<1>6. active \in Token!Kids /\ marker' \in 0..MaxKeys
  BY <1>1, TokenConstants DEF TokenInv, TokenTyped
<1>7. KeysHold'
  BY <1>1, <1>2, <1>3, <1>4, <1>5, <1>6 DEF TokenInv, KeysHold, WholeKept
<1> QED BY <1>1, <1>3, <1>4, <1>5, <1>6, <1>7, KeyStep

LEMMA MarkKeyStep ==
  ASSUME Keyed, TokenInv, Token!MarkKey
  PROVE  TokenInv'
<1>1. /\ server.at = "marker" /\ marker' = server.pair /\ active' = server.pair /\ server' = Token!Waiting
      /\ UNCHANGED <<row, pem, signed, root, cookie, bearer, wire, mishap>>
  BY DEF Token!MarkKey, Token!browser
<1>2. server.pair \in Token!Kids /\ pem[server.pair] = "whole"
  BY <1>1 DEF TokenInv, KeysHold
<1>3. server' \in Servers /\ server'.at = "idle" /\ server.pair \in 0..MaxKeys
  BY <1>1, <1>2, TokenConstants
<1>4. WholeKept /\ pem \in [Token!Kids -> {"none", "torn", "whole"}]
  BY <1>1 DEF WholeKept, TokenInv, TokenTyped
<1>5. KeysHold'
  BY <1>1, <1>2, <1>3 DEF KeysHold
<1> QED BY <1>1, <1>2, <1>3, <1>4, <1>5, KeyStep

LEMMA TokenCrashes ==
  ASSUME Keyed, TokenInv, Token!Crash
  PROVE  TokenInv'
<1>1. /\ server' = Token!Waiting /\ wire' = [t \in Tabs |-> Token!Quiet] /\ mishap' = TRUE
      /\ UNCHANGED <<row, signed, root, cookie, bearer>>
  BY DEF Token!Crash, Token!browser
<1>2. /\ pem' \in [Token!Kids -> {"none", "torn", "whole"}] /\ marker' \in 0..MaxKeys /\ active' \in Token!Kids
      /\ WholeKept /\ pem'[active'] = "whole" /\ (marker' # 0 => pem'[marker'] = "whole")
  <2>1. CASE Token!Marked
    <3>1. active' = marker /\ pem' = pem /\ marker' = marker /\ marker # 0
      BY <2>1 DEF Token!Crash, Token!Marked
    <3>2. marker \in Token!Kids /\ pem[marker] = "whole"
      BY <3>1 DEF TokenInv, TokenTyped, KeysHold, Token!Kids, Keyed
    <3> QED BY <3>1, <3>2 DEF TokenInv, TokenTyped, WholeKept
  <2>2. CASE ~Token!Marked
    <3>1. /\ pem' = [pem EXCEPT ![Token!NewKid] = "whole"] /\ marker' = Token!NewKid
          /\ active' = Token!NewKid /\ Token!NewKid \in Token!Kids
      BY <2>2, NewKidFacts DEF Token!Crash
    <3> QED BY <3>1, TokenConstants DEF TokenInv, TokenTyped, WholeKept
  <2> QED BY <2>1, <2>2
<1>3. /\ wire' \in [Tabs -> Messages]
      /\ \A t \in Tabs: wire'[t].op = "none" /\ wire'[t].cookie = 0 /\ wire'[t].bearer = 0
  BY <1>1, TokenConstants
<1>4. TokenTyped'
  BY <1>1, <1>2, <1>3, TokenConstants DEF TokenInv, TokenTyped
<1>5. RowsHold' /\ Token!OneHeir'
  BY <1>1, <1>2, RowsKept, HeirKept DEF RecordedKept, LiveKept, Recorded, Live
<1>6. server'.at = "idle"
  BY <1>1, TokenConstants
<1>7. KeysHold'
  BY <1>2, <1>6 DEF KeysHold
<1>8. BrowserHolds'
  BY <1>1, <1>3 DEF TokenInv, BrowserHolds, HeldPair, Recorded
<1>9. ServerHolds'
  BY <1>1, <1>6, TokenConstants DEF ServerHolds, Handling, Token!Waiting
<1>10. PairsUnseen' /\ GoneIsEmpty' /\ CookieFollows'
  BY <1>1, <1>3, <1>6 DEF PairsUnseen, GoneIsEmpty, CookieFollows
<1> QED BY <1>4, <1>5, <1>7, <1>8, <1>9, <1>10 DEF TokenInv

LEMMA TokenExpires ==
  ASSUME Keyed, TokenInv, Token!Expire
  PROVE  TokenInv'
<1>1. PICK type \in {"access", "refresh"}:
        /\ server = Token!Waiting /\ row' = Token!Expired(type) /\ mishap' = (mishap \/ type = "refresh")
        /\ UNCHANGED <<server, Token!keys, signed, root, cookie, bearer, wire>>
  BY DEF Token!Expire, Token!browser
<1>2. row \in [Token!Pairs -> TokenRows]
  BY DEF TokenInv, TokenTyped
<1>3. row' = [p \in Token!Pairs |-> IF row[p][type] = "live" THEN OverIn(row[p], type) ELSE row[p]]
  BY <1>1 DEF Token!Expired, OverIn
<1>4. ASSUME NEW p \in Token!Pairs
      PROVE  /\ row'[p] \in TokenRows
             /\ \/ row'[p].refresh = row[p].refresh
                \/ type = "refresh" /\ row[p].refresh = "live" /\ row'[p].refresh = "over"
  <2>1. row[p] \in TokenRows
    BY <1>2
  <2> DEFINE s == OverIn(row[p], type)
  <2>2. s \in TokenRows /\ s.refresh = IF type = "refresh" THEN "over" ELSE row[p].refresh
    BY <2>1, RowOver
  <2>3. row'[p] = IF row[p][type] = "live" THEN s ELSE row[p]
    BY <1>3
  <2> HIDE DEF s
  <2>4. CASE type = "refresh"
    BY <2>1, <2>2, <2>3, <2>4
  <2>5. CASE type # "refresh"
    BY <2>1, <2>2, <2>3, <2>5
  <2> QED BY <2>4, <2>5
<1>5. row' \in [Token!Pairs -> TokenRows]
  BY <1>3, <1>4
<1>6. mishap' \in BOOLEAN /\ (mishap => mishap') /\ (type = "refresh" => mishap')
  BY <1>1
<1>7. TokenTyped'
  BY <1>1, <1>5, <1>6 DEF TokenInv, TokenTyped, Token!keys
<1>8. RecordedKept /\ LiveKept /\ WholeKept
  BY <1>1, <1>4 DEF RecordedKept, LiveKept, WholeKept, Recorded, Live, Token!keys
<1>9. RowsHold' /\ Token!OneHeir' /\ BrowserHolds'
  BY <1>1, <1>8, RowsKept, HeirKept, BrowserKept DEF RecordedKept
<1>10. server.at = "idle" /\ server' = server
  BY <1>1, TokenConstants
<1>11. KeysHold' /\ ServerHolds'
  BY <1>1, <1>10, TokenConstants DEF TokenInv, KeysHold, ServerHolds, Handling, Token!Waiting, Token!keys
<1>12. PairsUnseen' /\ GoneIsEmpty'
  BY <1>1, <1>10 DEF TokenInv, PairsUnseen, Unseen, GoneIsEmpty
<1>13. CookieFollows'
  <2> SUFFICES ASSUME ~mishap'
               PROVE  /\ \A u \in Tabs: wire[u].op = "pair" => row'[wire[u].cookie].refresh = "live"
                      /\ cookie # 0 => row'[cookie].refresh = "live" \/ \E u \in Tabs: Outstanding(u)'
    BY <1>1, <1>10 DEF CookieFollows, Live
  <2>1. \A p \in Token!Pairs: row'[p].refresh = row[p].refresh
    BY <1>4, <1>6
  <2>2. /\ \A u \in Tabs: wire[u].op = "pair" => row[wire[u].cookie].refresh = "live"
        /\ cookie # 0 => row[cookie].refresh = "live" \/ \E u \in Tabs: Outstanding(u)
    BY <1>6 DEF TokenInv, CookieFollows, Live
  <2>3. \A u \in Tabs: Outstanding(u)' <=> Outstanding(u)
    BY <1>1, <1>10 DEF Outstanding
  <2>4. cookie # 0 => cookie \in Token!Pairs
    BY DEF TokenInv, TokenTyped, Token!Pairs, Keyed
  <2> QED BY <2>1, <2>2, <2>3, <2>4, PairIsPair
<1> QED BY <1>7, <1>9, <1>11, <1>12, <1>13 DEF TokenInv

-----------------------------------------------------------------------------
(* The theorems. *)

LEMMA TokenInit == ASSUME Keyed, Token!Init PROVE TokenInv
<1>1. /\ row = [p \in Token!Pairs |-> Token!NoRow] /\ server = Token!Waiting /\ marker = 1 /\ active = 1
      /\ pem = [k \in Token!Kids |-> IF k = 1 THEN "whole" ELSE "none"]
      /\ signed = [p \in Token!Pairs |-> 0] /\ root = [p \in Token!Pairs |-> 0] /\ cookie = 0
      /\ bearer = [t \in Tabs |-> 0] /\ wire = [t \in Tabs |-> Token!Quiet] /\ mishap = FALSE
  BY DEF Token!Init
<1>2. 1 \in Token!Kids /\ 1 \in 0..MaxKeys
  BY DEF Token!Kids, Keyed
<1>3. TokenTyped
  BY <1>1, <1>2, TokenConstants DEF TokenTyped
<1>4. /\ \A p \in Token!Pairs: row[p].refresh = "none" /\ root[p] = 0
      /\ \A t \in Tabs: bearer[t] = 0 /\ wire[t].op = "none" /\ wire[t].cookie = 0 /\ wire[t].bearer = 0
  BY <1>1, TokenConstants
<1>5. RowsHold /\ Token!OneHeir
  BY <1>4 DEF RowsHold, Token!OneHeir, Recorded
<1>6. server.at = "idle"
  BY <1>1, TokenConstants
<1>7. KeysHold
  BY <1>1, <1>2, <1>6 DEF KeysHold
<1>8. BrowserHolds
  BY <1>1, <1>4 DEF BrowserHolds, HeldPair
<1>9. ServerHolds
  BY <1>1, <1>6 DEF ServerHolds, Handling
<1>10. PairsUnseen /\ GoneIsEmpty /\ CookieFollows
  BY <1>1, <1>4, <1>6 DEF PairsUnseen, GoneIsEmpty, CookieFollows
<1> QED BY <1>3, <1>5, <1>7, <1>8, <1>9, <1>10 DEF TokenInv

LEMMA TokenIdle == ASSUME TokenInv, UNCHANGED Token!vars PROVE TokenInv'
<1>1. UNCHANGED <<row, server, pem, marker, active, signed, cookie, bearer, wire, root, mishap>>
  BY DEF Token!vars, Token!keys, Token!browser
<1>2. TokenTyped' /\ RowsHold' /\ KeysHold' /\ Token!OneHeir'
  BY <1>1 DEF TokenInv, TokenTyped, RowsHold, Recorded, KeysHold, Token!OneHeir
<1>3. BrowserHolds' /\ ServerHolds'
  BY <1>1 DEF TokenInv, BrowserHolds, ServerHolds, HeldPair, Recorded, Token!Waiting
<1>4. PairsUnseen' /\ GoneIsEmpty'
  BY <1>1 DEF TokenInv, PairsUnseen, Unseen, GoneIsEmpty
<1>5. CookieFollows'
  BY <1>1 DEF TokenInv, CookieFollows, Live, Outstanding
<1> QED BY <1>2, <1>3, <1>4, <1>5 DEF TokenInv

\* In every reachable state the table, the keys, the handler under way, the browser and what is
\* between them agree.
THEOREM TokenInductive == ASSUME Keyed PROVE Token!Spec => []TokenInv
<1>1. Token!Init => TokenInv
  BY TokenInit
<1>2. TokenInv /\ [Token!Next]_(Token!vars) => TokenInv'
  <2> SUFFICES ASSUME TokenInv, [Token!Next]_(Token!vars) PROVE TokenInv'
    OBVIOUS
  <2>1. ASSUME NEW t \in Tabs, Token!Click(t) \/ Token!Receive(t) \/ Token!Lose(t) \/ Token!Handle(t)
        PROVE  TokenInv'
    BY <2>1, ClickStep, ReceiveStep, LoseStep, LoginStep, RefreshStep, LogoutRefreshStep, ChatStep DEF Token!Handle
  <2>2. CASE Token!Server
    BY <2>2, RecordAccessStep, RecordRefreshStep, IssuedStep, LogoutAccessStep, WriteKeyStep, KeyWrittenStep,
       MarkKeyStep DEF Token!Server
  <2>3. CASE Token!Crash \/ Token!Expire
    BY <2>3, TokenCrashes, TokenExpires
  <2>4. CASE UNCHANGED Token!vars
    BY <2>4, TokenIdle
  <2> QED BY <2>1, <2>2, <2>3, <2>4 DEF Token!Next
<1> QED BY <1>1, <1>2, PTL DEF Token!Spec

\* auth.py's refresh, issue_pair and rotate_key: a login has one refresh token that works at a time, what the
\* browser holds can be verified with a key that is whole, and, unless an answer was lost, the process died or a
\* refresh token expired, the cookie works as soon as nothing is under way, however many tabs refresh, log in
\* and log out at once.
THEOREM TokensAlwaysHold == ASSUME Keyed PROVE Token!Spec => []Token!TokensHold
<1>1. TokenInv => Token!TokensHold
  <2> SUFFICES ASSUME TokenInv PROVE Token!TokensHold
    OBVIOUS
  <2>1. ASSUME NEW p \in 0..MaxPairs, HeldPair(p), p # 0
        PROVE  Token!Known(p)
    <3>1. p \in Token!Pairs /\ Recorded(p)
      BY <2>1 DEF HeldPair, Token!Pairs, Keyed
    <3> QED BY <2>1, <3>1 DEF TokenInv, RowsHold, Token!Known
  <2>2. cookie \in 0..MaxPairs /\ HeldPair(cookie) /\ \A t \in Tabs: bearer[t] \in 0..MaxPairs /\ HeldPair(bearer[t])
    BY DEF TokenInv, TokenTyped, BrowserHolds
  <2>3. Token!KeysVerify
    BY <2>1, <2>2 DEF TokenInv, KeysHold, Token!KeysVerify
  <2>4. Token!CookieWorks
    <3> SUFFICES ASSUME ~mishap, \A t \in Tabs: wire[t] = Token!Quiet, server = Token!Waiting, cookie # 0
                 PROVE  Token!Usable(cookie, "refresh")
      BY DEF Token!CookieWorks
    <3>1. \A t \in Tabs: ~Outstanding(t)
      BY TokenConstants DEF Outstanding, PairAnswers, Handling
    <3>2. row[cookie].refresh = "live"
      BY <3>1 DEF TokenInv, CookieFollows, Live
    <3> QED BY <2>1, <2>2, <3>2 DEF Token!Usable
  <2> QED BY <2>3, <2>4 DEF TokenInv, Token!TokensHold
<1> QED BY <1>1, TokenInductive, PTL

\* Table, handler, keys, browser and history keep their types.
THEOREM TokenTypeOK == ASSUME Keyed PROVE Token!Spec => []Token!TypeOK
<1>1. TokenInv => Token!TypeOK
  BY DEF TokenInv, TokenTyped, Token!TypeOK, TokenRows, Servers
<1> QED BY <1>1, TokenInductive, PTL

===============================================================================

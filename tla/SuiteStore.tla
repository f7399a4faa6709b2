------------------------------ MODULE SuiteStore ------------------------------
(***************************************************************************)
(* Suites of P03 and P04 (p03_suites.py, p04_suites.py) and the            *)
(* registration of their executions.  A suite is reserved with its cases   *)
(* in one transaction; the prepared resources are then read outside any    *)
(* transaction and the suite is published, or marked as an error, in a     *)
(* second one.  Request threads, crashes and the clock come in between.    *)
(***************************************************************************)
EXTENDS Integers, FiniteSets

CONSTANTS Suites, Executions, Threads,
          Snapshots,      \* prepared resource snapshots
          Nothing,        \* no suite, no snapshot, resources are not prepared
          Cases,          \* how many cases the server's contract has, at least one
          PrepareWindow,  \* 30 seconds
          SuiteWindow,    \* 900 seconds (P03: 240)
          MaxTime         \* bound on the clock

VARIABLES now,         \* what time.time returns
          resource,    \* what resource_reader answers; Nothing: it raises
          suites,      \* table p04_suites
          owner,       \* table p04_suite_cases: the suite of an execution id
          direct,      \* table p04_direct_cases
          registered,  \* p04_executions: the suite and snapshot it was resolved with
          pc, job      \* per thread: its place and its local variables

tables == <<suites, owner, direct, registered>>
vars == <<now, resource, suites, owner, direct, registered, pc, job>>

Times == 1..MaxTime
NoRow == [state |-> "absent", started |-> 0, prepared |-> 0, snapshot |-> Nothing]
NoJob == [suite |-> Nothing, cases |-> {}, started |-> 0, snapshot |-> Nothing]

Init == /\ now \in Times
        /\ resource \in Snapshots \cup {Nothing}
        /\ suites = [s \in Suites |-> NoRow]
        /\ owner = [e \in Executions |-> Nothing]
        /\ direct = {}
        /\ registered = [e \in Executions |-> [suite |-> Nothing, snapshot |-> Nothing]]
        /\ pc = [t \in Threads |-> "idle"]
        /\ job = [t \in Threads |-> NoJob]

Goto(t, label) == pc' = [pc EXCEPT ![t] = label]
Return(t) == Goto(t, "idle") /\ job' = [job EXCEPT ![t] = NoJob]
Start(t, label, s, E, started, snapshot) ==
  /\ pc[t] = "idle"
  /\ Goto(t, label)
  /\ job' = [job EXCEPT ![t] = [suite |-> s, cases |-> E, started |-> started, snapshot |-> snapshot]]
  /\ UNCHANGED <<now, resource, tables>>
Refused(t, from, failed) == /\ pc[t] = from
                            /\ failed
                            /\ Return(t)
                            /\ UNCHANGED <<now, resource, tables>>

-----------------------------------------------------------------------------
(* prepare and prepare_direct *)

Prepare(t, s, E) == Cardinality(E) = Cases /\ Start(t, "inserting", s, E, now, Nothing)

\* prepare_direct reads the resources first.
PrepareDirect(t, s, e) ==
  resource # Nothing /\ Start(t, "inserting_direct", s, {e}, now, resource)

\* Both primary keys: the suite id is new, and so is every execution id.
Insertable(t) == /\ suites[job[t].suite].state = "absent"
                 /\ \A e \in job[t].cases : owner[e] = Nothing

Owned(t) == [e \in Executions |-> IF e \in job[t].cases THEN job[t].suite ELSE owner[e]]

Insert(t) ==
  /\ pc[t] = "inserting"
  /\ Insertable(t)
  /\ suites' = [suites EXCEPT ![job[t].suite] =
                  [NoRow EXCEPT !.state = "preparing", !.started = job[t].started]]
  /\ owner' = Owned(t)
  /\ Goto(t, "reading")
  /\ UNCHANGED <<now, resource, direct, registered, job>>

InsertDirect(t) ==
  /\ pc[t] = "inserting_direct"
  /\ Insertable(t)
  /\ suites' = [suites EXCEPT ![job[t].suite] =
                  [state |-> "prepared", started |-> job[t].started, prepared |-> job[t].started,
                   snapshot |-> job[t].snapshot]]
  /\ owner' = Owned(t)
  /\ direct' = direct \cup job[t].cases
  /\ Return(t)
  /\ UNCHANGED <<now, resource, registered>>

\* Whoever loses the insert leaves the rows of the winner alone.
InsertRefused(t) == \E from \in {"inserting", "inserting_direct"} :
                       Refused(t, from, ~Insertable(t))

ReadResource(t) ==
  /\ pc[t] = "reading"
  /\ job' = [job EXCEPT ![t].snapshot = resource]
  /\ Goto(t, IF resource = Nothing THEN "failing" ELSE "publishing")
  /\ UNCHANGED <<now, resource, tables>>

InTime(t) == 0 <= now - job[t].started /\ now - job[t].started < PrepareWindow

\* Mutant of Published: the resources are read again for the row.
PublishedAgain(t) == [suites[job[t].suite] EXCEPT !.state = "prepared", !.prepared = now,
                                                  !.snapshot = resource]
Published(t) == [suites[job[t].suite] EXCEPT !.state = "prepared", !.prepared = now,
                                             !.snapshot = job[t].snapshot]

Publish(t) ==
  /\ pc[t] = "publishing"
  /\ IF InTime(t)
     THEN /\ suites' = [suites EXCEPT ![job[t].suite] = Published(t)]
          /\ Return(t)
     ELSE suites' = suites /\ Goto(t, "failing") /\ job' = job
  /\ UNCHANGED <<now, resource, owner, direct, registered>>

Fail(t) ==
  /\ pc[t] = "failing"
  /\ suites' = [suites EXCEPT ![job[t].suite].state = "error"]
  /\ Return(t)
  /\ UNCHANGED <<now, resource, owner, direct, registered>>

-----------------------------------------------------------------------------
(* registration: lookup, resolve, GuardrailLedger.register *)

\* lookup, before it compares the resources.
Usable(s, e) == /\ owner[e] = s
                /\ suites[s].state = "prepared"
                /\ 0 <= now - suites[s].started /\ now - suites[s].started < SuiteWindow

Lookup(t, s, e) == Usable(s, e) /\ Start(t, "comparing", s, {e}, 0, suites[s].snapshot)

\* Mutant of SameResources: what is readable is taken for what was prepared.
SameResourcesAlways(t) == resource # Nothing
SameResources(t) == resource = job[t].snapshot

Compare(t) ==
  /\ pc[t] = "comparing"
  /\ SameResources(t)
  /\ job' = [job EXCEPT ![t].snapshot = resource]
  /\ Goto(t, "registering")
  /\ UNCHANGED <<now, resource, tables>>

CompareRefused(t) == Refused(t, "comparing", ~SameResources(t))

\* The primary key of p04_executions admits an execution once.
Register(t) ==
  /\ pc[t] = "registering"
  /\ registered' = [e \in Executions |->
        IF e \in job[t].cases /\ registered[e].suite = Nothing
        THEN [suite |-> job[t].suite, snapshot |-> job[t].snapshot] ELSE registered[e]]
  /\ Return(t)
  /\ UNCHANGED <<now, resource, suites, owner, direct>>

-----------------------------------------------------------------------------
Crash == /\ pc' = [t \in Threads |-> "idle"]
         /\ job' = [t \in Threads |-> NoJob]
         /\ UNCHANGED <<now, resource, tables>>
Tick == now' \in Times /\ UNCHANGED <<resource, tables, pc, job>>
ChangeResource == resource' \in Snapshots \cup {Nothing} /\ UNCHANGED <<now, tables, pc, job>>

Step(t) == \/ Insert(t) \/ InsertDirect(t) \/ InsertRefused(t)
           \/ ReadResource(t) \/ Publish(t) \/ Fail(t)
           \/ Compare(t) \/ CompareRefused(t) \/ Register(t)

Next == \/ \E t \in Threads, s \in Suites :
              \/ \E E \in SUBSET Executions : Prepare(t, s, E)
              \/ \E e \in Executions : PrepareDirect(t, s, e) \/ Lookup(t, s, e)
        \/ \E t \in Threads : Step(t)
        \/ Crash \/ Tick \/ ChangeResource

Spec == Init /\ [][Next]_vars

-----------------------------------------------------------------------------
(* Properties. *)

TypeOK ==
  /\ now \in Times /\ resource \in Snapshots \cup {Nothing}
  /\ suites \in [Suites -> [state : {"absent", "preparing", "prepared", "error"},
                            started : 0..MaxTime, prepared : 0..MaxTime,
                            snapshot : Snapshots \cup {Nothing}]]
  /\ \A s \in Suites : suites[s].state = "prepared" => suites[s].snapshot # Nothing
  /\ owner \in [Executions -> Suites \cup {Nothing}]
  /\ direct \subseteq Executions
  /\ registered \in [Executions -> [suite : Suites \cup {Nothing}, snapshot : Snapshots \cup {Nothing}]]
  /\ pc \in [Threads -> {"idle", "inserting", "inserting_direct", "reading", "publishing",
                         "failing", "comparing", "registering"}]
  /\ \A t \in Threads : job[t] = NoJob <=> pc[t] = "idle"

CasesOf(s) == {e \in Executions : owner[e] = s}

\* A suite has all its cases or none: a refused insert leaves no row behind,
\* and no execution id ever moves to another suite.
WholeSuites ==
  \A s \in Suites :
    Cardinality(CasesOf(s)) = IF suites[s].state = "absent" THEN 0
                              ELSE IF CasesOf(s) \subseteq direct THEN 1 ELSE Cases

\* Every registered execution is a case of its suite, the suite was prepared,
\* and the execution got the suite's resources and no others.
RegisteredAsPrepared ==
  \A e \in Executions : registered[e].suite # Nothing =>
    /\ owner[e] = registered[e].suite
    /\ suites[registered[e].suite].state = "prepared"
    /\ registered[e].snapshot = suites[registered[e].suite].snapshot

\* What is prepared is whole, and what is registered belongs to it.
SuitesHold == WholeSuites /\ RegisteredAsPrepared
=============================================================================

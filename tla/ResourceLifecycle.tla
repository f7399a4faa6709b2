-------------------------- MODULE ResourceLifecycle --------------------------
(***************************************************************************)
(* The life of the P04 guardrail: preparation (p04_provisioning.py over    *)
(* the journal of p04_preparation.py), deletion (resource_cleanup.py),     *)
(* and the registration of executions against what is prepared, all behind *)
(* the mutex of server.py's resource_lifecycle_boundary.  The mutex is in  *)
(* memory, the journal in SQLite, the guardrail in AWS: a crash, or a call *)
(* to AWS that fails, may come between any two of their changes.           *)
(***************************************************************************)
EXTENDS Integers, Sequences, FiniteSets

CONSTANTS Threads,     \* request threads
          Operations,  \* operation ids of preparations and deletions
          Executions,  \* execution ids
          Accounts,    \* AWS accounts the credentials may belong to
          Guardrails,  \* ids AWS gives to guardrails, never twice
          Nobody,      \* the mutex is free
          None         \* no account, guardrail or operation

ASSUME SentinelAssumption == Nobody \notin Threads /\ None \notin Accounts \cup Guardrails

VARIABLES journal,     \* p04_preparations in the order of sequence
          deletions,   \* operation ids in resource_deletions
          open,        \* p04_executions not closed: the guardrail each was registered for
          aws,         \* per account: the guardrail with the course's name, and its status
          identity,    \* the account sts.get_caller_identity answers
          mutex,       \* RESOURCE_MUTEXES["P04"]
          pc, op, account, found   \* per thread: its place and its local variables

disk == <<journal, deletions, open>>
locals == <<pc, op, account, found>>
vars == <<journal, deletions, open, aws, identity, mutex, pc, op, account, found>>

Absent == [id |-> None, status |-> "absent"]
Used == {aws[a].id : a \in Accounts} \cup {journal[i].guardrail : i \in DOMAIN journal}
        \cup {found[t] : t \in Threads}

Init == /\ journal = <<>>
        /\ deletions = {}
        /\ open = [e \in {} |-> None]
        /\ aws = [a \in Accounts |-> Absent]
        /\ identity \in Accounts
        /\ mutex = Nobody
        /\ pc = [t \in Threads |-> "idle"]
        /\ op = [t \in Threads |-> None]
        /\ account = [t \in Threads |-> None]
        /\ found = [t \in Threads |-> None]

-----------------------------------------------------------------------------
(* What the stores answer. *)

Newest == journal[Len(journal)]

\* Mutant of Readable: the newest row counts in any state.
ReadableAny == journal # <<>>

\* PreparationStore.resources: only the newest row, and only when it is ready.
Readable == journal # <<>> /\ Newest.state = "ready"
Snapshot == Newest.guardrail

\* PreparationStore.account
Previous == IF journal = <<>> THEN None ELSE Newest.account

Preparing == \E i \in DOMAIN journal : journal[i].state = "preparing"
Idle == DOMAIN open = {} /\ ~Preparing

\* begin: the operation is new, nothing is preparing (unique index), same account.
Beginnable(o, a) == /\ \A i \in DOMAIN journal : journal[i].operation # o
                    /\ ~Preparing
                    /\ Previous \in {None, a}
NewRow(o, a) == [operation |-> o, account |-> a, state |-> "preparing", guardrail |-> None]

\* Row o of the journal gets a new state.
SetRow(o, state, id) ==
  journal' = [i \in DOMAIN journal |->
    IF journal[i].operation = o THEN [journal[i] EXCEPT !.state = state, !.guardrail = id]
    ELSE journal[i]]
IsPreparing(o) == \E i \in DOMAIN journal : journal[i].operation = o /\ journal[i].state = "preparing"

-----------------------------------------------------------------------------
(* Threads. *)

Goto(t, label) == pc' = [pc EXCEPT ![t] = label]
\* Mutant of Available: the boundary lets every request through.
AvailableAlways == TRUE
\* A POST that finds the mutex taken is answered 409 and changes nothing.
Available == mutex = Nobody

Enter(t, label, o) ==
  /\ pc[t] = "idle" /\ Available
  /\ mutex' = t
  /\ Goto(t, label)
  /\ op' = [op EXCEPT ![t] = o]

\* The request is answered, and the finally clauses release the locks.
Leave(t) ==
  /\ mutex' = IF mutex = t THEN Nobody ELSE mutex
  /\ Goto(t, "idle")
  /\ op' = [op EXCEPT ![t] = None]
  /\ account' = [account EXCEPT ![t] = None]
  /\ found' = [found EXCEPT ![t] = None]

Give(t, from) == /\ pc[t] = from
                 /\ Leave(t)
                 /\ UNCHANGED <<disk, aws, identity>>

-----------------------------------------------------------------------------
(* Provisioner.prepare *)

\* With an earlier preparation the row is written before AWS is asked at all.
PrepareAgain(t, o) ==
  /\ Previous # None
  /\ Beginnable(o, Previous)
  /\ Enter(t, "identify", o)
  /\ journal' = Append(journal, NewRow(o, Previous))
  /\ account' = [account EXCEPT ![t] = Previous]
  /\ UNCHANGED <<deletions, open, aws, identity, found>>

PrepareFirst(t, o) ==
  /\ Previous = None
  /\ Enter(t, "identify", o)
  /\ account' = [account EXCEPT ![t] = None]
  /\ UNCHANGED <<disk, aws, identity, found>>

\* sts answers: another account than before fails the preparation.
Identify(t) ==
  /\ pc[t] = "identify"
  /\ IF account[t] = None
     THEN IF Beginnable(op[t], identity)
          THEN /\ journal' = Append(journal, NewRow(op[t], identity))
               /\ account' = [account EXCEPT ![t] = identity]
               /\ Goto(t, "inspect")
               /\ UNCHANGED <<deletions, open, aws, identity, mutex, op, found>>
          ELSE Leave(t) /\ UNCHANGED <<disk, aws, identity>>
     ELSE /\ Goto(t, IF identity = account[t] THEN "inspect" ELSE "failing")
          /\ UNCHANGED <<disk, aws, identity, mutex, op, account, found>>

\* inspect_existing: an owned guardrail that is ready is adopted, one that is
\* not there is created, anything else fails.
Inspect(t) ==
  LET g == aws[account[t]] IN
  /\ pc[t] = "inspect"
  /\ found' = [found EXCEPT ![t] = IF g.status = "ready" THEN g.id ELSE None]
  /\ Goto(t, CASE g.status = "ready"  -> "publishing"
               [] g.status = "absent" -> "create"
               [] OTHER               -> "failing")
  /\ UNCHANGED <<disk, aws, identity, mutex, op, account>>

Create(t, id) ==
  /\ pc[t] = "create"
  /\ id \notin Used
  /\ aws' = [aws EXCEPT ![account[t]] = [id |-> id, status |-> "creating"]]
  /\ \/ found' = [found EXCEPT ![t] = id] /\ Goto(t, "poll")
     \/ found' = found /\ Goto(t, "failing")      \* the answer is lost
  /\ UNCHANGED <<disk, identity, mutex, op, account>>

\* Mutant of Polled: the guardrail is published as soon as it is created.
PolledOnce(t) == TRUE
Polled(t) == aws[account[t]] = [id |-> found[t], status |-> "ready"]

Poll(t) ==
  /\ pc[t] = "poll"
  /\ Polled(t)
  /\ Goto(t, "publishing")
  /\ UNCHANGED <<disk, aws, identity, mutex, op, account, found>>

\* Any call of prepare fails, or its deadline passes.
PrepareFault(t) ==
  /\ pc[t] \in {"identify", "inspect", "create", "poll", "publishing"}
  /\ IF pc[t] = "identify" /\ account[t] = None
     THEN Leave(t)
     ELSE Goto(t, "failing") /\ UNCHANGED <<mutex, op, account, found>>
  /\ UNCHANGED <<disk, aws, identity>>

Publish(t) ==
  /\ pc[t] = "publishing"
  /\ IsPreparing(op[t])
  /\ SetRow(op[t], "ready", found[t])
  /\ Leave(t)
  /\ UNCHANGED <<deletions, open, aws, identity>>

\* fail: refused when the clock is behind the row's start, which leaves the row.
FailPreparation(t) ==
  /\ pc[t] = "failing"
  /\ \/ SetRow(op[t], "error", None)
     \/ journal' = journal
  /\ Leave(t)
  /\ UNCHANGED <<deletions, open, aws, identity>>

-----------------------------------------------------------------------------
(* delete_resources for P04 *)

\* The callers draw a fresh uuid4 for every deletion.
Fresh(o) == o \notin deletions /\ \A t \in Threads : op[t] # o

StartDelete(t, o) ==
  /\ Fresh(o)
  /\ Idle
  /\ Enter(t, "delete_inspect", o)
  /\ UNCHANGED <<disk, aws, identity, account, found>>

\* The guardrail of the caller's account must be the one the journal vouches for.
InspectDelete(t) ==
  LET g == aws[identity] IN
  /\ pc[t] = "delete_inspect"
  /\ \/ /\ g.status = "absent"
        /\ Goto(t, "mark")
     \/ /\ g.status = "ready" /\ Readable /\ Snapshot = g.id
        /\ Goto(t, "delete")
  /\ account' = [account EXCEPT ![t] = identity]
  /\ UNCHANGED <<disk, aws, identity, mutex, op, found>>

RefuseDelete(t) ==
  /\ LET g == aws[identity] IN
       g.status # "absent" /\ ~(g.status = "ready" /\ Readable /\ Snapshot = g.id)
  /\ Give(t, "delete_inspect")

\* delete_guardrail and wait_absent.
DeleteGuardrail(t) ==
  /\ pc[t] = "delete"
  /\ aws' = [aws EXCEPT ![account[t]] = Absent]
  /\ \/ Goto(t, "mark") /\ UNCHANGED <<mutex, op, account, found>>
     \/ Leave(t)                    \* absence was not confirmed in time
  /\ UNCHANGED <<disk, identity>>

DeleteFault(t) == \E at \in {"delete_inspect", "delete", "mark"} : Give(t, at)

Withdrawn(row) == IF row.state = "ready" THEN [row EXCEPT !.state = "deleted"] ELSE row

\* One transaction: every ready row, and the receipt of this operation.
Mark(t) ==
  /\ pc[t] = "mark"
  /\ deletions' = deletions \cup {op[t]}
  /\ journal' = [i \in DOMAIN journal |-> Withdrawn(journal[i])]
  /\ Leave(t)
  /\ UNCHANGED <<open, aws, identity>>

-----------------------------------------------------------------------------
(* register reads the snapshot, then inserts the execution; close ends it. *)

StartRegister(t, e) ==
  /\ Readable
  /\ Enter(t, "register", e)
  /\ found' = [found EXCEPT ![t] = Snapshot]
  /\ UNCHANGED <<disk, aws, identity, account>>

Register(t) ==
  /\ pc[t] = "register"
  /\ open' = IF op[t] \in DOMAIN open THEN open
             ELSE [e \in DOMAIN open \cup {op[t]} |-> IF e = op[t] THEN found[t] ELSE open[e]]
  /\ Leave(t)
  /\ UNCHANGED <<journal, deletions, aws, identity>>

Close(e) ==
  /\ Available
  /\ e \in DOMAIN open
  /\ open' = [x \in DOMAIN open \ {e} |-> open[x]]
  /\ UNCHANGED <<journal, deletions, aws, identity, mutex, locals>>

-----------------------------------------------------------------------------
(* AWS, the credentials, and the process. *)

Created(a) ==
  /\ aws[a].status = "creating"
  /\ aws' = [aws EXCEPT ![a].status = "ready"]
  /\ UNCHANGED <<disk, identity, mutex, locals>>

SwitchAccount(a) ==
  /\ identity' = a
  /\ UNCHANGED <<disk, aws, mutex, locals>>

Crash ==
  /\ mutex' = Nobody
  /\ pc' = [t \in Threads |-> "idle"]
  /\ op' = [t \in Threads |-> None]
  /\ account' = [t \in Threads |-> None]
  /\ found' = [t \in Threads |-> None]
  /\ UNCHANGED <<disk, aws, identity>>

Prepare(t) == \/ \E o \in Operations : PrepareAgain(t, o) \/ PrepareFirst(t, o)
              \/ Identify(t) \/ Inspect(t) \/ Poll(t) \/ Publish(t)
              \/ \E id \in Guardrails : Create(t, id)
              \/ FailPreparation(t)
Delete(t) == \/ \E o \in Operations : StartDelete(t, o)
             \/ InspectDelete(t) \/ RefuseDelete(t) \/ DeleteGuardrail(t) \/ Mark(t)

Next == \/ \E t \in Threads : \/ Prepare(t) \/ PrepareFault(t)
                              \/ Delete(t) \/ DeleteFault(t)
                              \/ \E e \in Executions : StartRegister(t, e)
                              \/ Register(t)
        \/ \E e \in Executions : Close(e)
        \/ \E a \in Accounts : Created(a) \/ SwitchAccount(a)
        \/ Crash

Spec == Init /\ [][Next]_vars

-----------------------------------------------------------------------------
(* Properties. *)

States == {"preparing", "ready", "error", "deleted"}

Rows == [operation : Operations, account : Accounts, state : States,
         guardrail : Guardrails \cup {None}]
AwsRows == [id : Guardrails \cup {None}, status : {"absent", "creating", "ready"}]

TypeOK ==
  /\ journal \in Seq(Rows)
  /\ deletions \subseteq Operations
  /\ DOMAIN open \subseteq Executions
  /\ \A e \in DOMAIN open : open[e] \in Guardrails
  /\ aws \in [Accounts -> AwsRows]
  /\ identity \in Accounts
  /\ mutex \in Threads \cup {Nobody}
  /\ pc \in [Threads -> {"idle", "identify", "inspect", "create", "poll", "publishing", "failing",
                         "delete_inspect", "delete", "mark", "register"}]
  /\ op \in [Threads -> Operations \cup Executions \cup {None}]
  /\ account \in [Threads -> Accounts \cup {None}]
  /\ found \in [Threads -> Guardrails \cup {None}]

Exists(g) == \E a \in Accounts : aws[a].id = g

\* The guardrails of open executions, and of those being registered.
Held == {open[e] : e \in DOMAIN open} \cup {found[t] : t \in {x \in Threads : pc[x] = "register"}}

\* Registration is serialized against destructive work (server.py:1131): whatever
\* fails, dies or is retried, no deletion takes the guardrail of an execution that
\* is open, or is being registered.
HeldIsKept == [][\A g \in Guardrails : Exists(g) /\ g \in Held /\ g \in Held' => Exists(g)']_vars

\* "Interrupted/failed preparation never exposes old readiness": resources
\* become readable only by the publication of the newest row, for a guardrail
\* that is ready in the row's account; a row that is begun hides them.
ReadinessIsNew ==
  [][/\ ~Readable /\ Readable' =>
          /\ \E t \in Threads : pc[t] = "publishing" /\ op[t] = Newest.operation
          /\ aws[Newest'.account] = [id |-> Snapshot', status |-> "ready"]
     /\ Len(journal') > Len(journal) => ~Readable']_vars

=============================================================================

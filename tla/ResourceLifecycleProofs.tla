------------------------ MODULE ResourceLifecycleProofs ------------------------
(***************************************************************************)
(* Proofs about ResourceLifecycle, for any number of threads, operations,  *)
(* executions, accounts and guardrails; and about SuiteStore, for any      *)
(* number of suites, threads, executions and snapshots.                    *)
(***************************************************************************)
EXTENDS ResourceLifecycle, SequenceTheorems, FiniteSetTheorems, TLAPS

-----------------------------------------------------------------------------
(* The inductive invariant. *)

PrepareLabels == {"identify", "inspect", "create", "poll", "publishing", "failing"}
DeleteLabels == {"delete_inspect", "delete", "mark"}

\* The row that thread t prepares is the newest one.
HasNewest(t) == /\ journal # <<>>
                /\ Newest.operation = op[t] /\ Newest.account = account[t]

\* A thread in the boundary has the mutex; and its place tells what it has seen.
InPlace(t) ==
  /\ pc[t] # "idle" => mutex = t
  /\ pc[t] \in PrepareLabels \cup DeleteLabels => op[t] \in Operations
  /\ pc[t] \in {"inspect", "create", "poll", "publishing"} => HasNewest(t)
  /\ pc[t] = "identify" /\ account[t] # None => HasNewest(t)
  /\ pc[t] = "create" => aws[account[t]].status = "absent"
  /\ pc[t] = "poll" => found[t] \in Guardrails
  /\ pc[t] = "publishing" => /\ found[t] \in Guardrails
                             /\ aws[account[t]] = [id |-> found[t], status |-> "ready"]
  /\ pc[t] \in DeleteLabels => DOMAIN open = {}
  /\ pc[t] = "register" => op[t] \in Executions /\ found[t] \in Guardrails

\* A ready row names a guardrail, and so does an account that has one.
RowsName == /\ \A i \in DOMAIN journal : journal[i].state = "ready" => journal[i].guardrail \in Guardrails
            /\ \A a \in Accounts : aws[a].status = "absent" <=> aws[a].id = None

LifeInv == TypeOK /\ RowsName /\ \A t \in Threads : InPlace(t)

-----------------------------------------------------------------------------
(* The journal as a sequence. *)

LEMMA NewestIsRow ==
  ASSUME NEW S, NEW s \in Seq(S), s # <<>>
  PROVE  Len(s) \in DOMAIN s /\ s[Len(s)] \in S /\ DOMAIN s = 1..Len(s) /\ Len(s) \in Nat
  BY EmptySeq, LenProperties

\* A change of rows in their places keeps the sequence and its length.
LEMMA SameLength ==
  ASSUME NEW S, NEW s \in Seq(S), NEW f, f \in [DOMAIN s -> S]
  PROVE  f \in Seq(S) /\ Len(f) = Len(s) /\ DOMAIN f = DOMAIN s
<1>1. Len(s) \in Nat /\ DOMAIN s = 1..Len(s)
  BY LenProperties
<1>2. f \in [1..Len(s) -> S]
  BY <1>1
<1>3. f \in Seq(S)
  BY <1>1, <1>2, SeqDef
<1>4. Len(f) \in Nat /\ DOMAIN f = 1..Len(f)
  BY <1>3, LenProperties
<1>5. Len(f) = Len(s)
  BY <1>1, <1>2, <1>4
<1> QED BY <1>1, <1>3, <1>4, <1>5

\* A row that is begun is the newest one, and the others stay.
LEMMA Appended ==
  ASSUME TypeOK, RowsName, NEW o \in Operations, NEW a \in Accounts,
         journal' = Append(journal, NewRow(o, a))
  PROVE  /\ journal' \in Seq(Rows) /\ journal' # <<>> /\ Len(journal') = Len(journal) + 1
         /\ Newest' = NewRow(o, a)
         /\ \A i \in DOMAIN journal' : journal'[i].state = "ready" => journal'[i].guardrail \in Guardrails
<1>1. NewRow(o, a) \in Rows
  BY DEF NewRow, Rows, States
<1>2. journal \in Seq(Rows) /\ Len(journal) \in Nat /\ DOMAIN journal = 1..Len(journal)
  BY LenProperties DEF TypeOK
<1>3. /\ journal' \in Seq(Rows) /\ journal' # <<>> /\ Len(journal') = Len(journal) + 1
      /\ \A i \in 1..Len(journal) : journal'[i] = journal[i]
      /\ journal'[Len(journal) + 1] = NewRow(o, a)
  BY <1>1, <1>2, AppendProperties
<1>4. DOMAIN journal' = 1..(Len(journal) + 1)
  BY <1>3, LenProperties
<1>5. \A i \in DOMAIN journal' : i \in DOMAIN journal \/ i = Len(journal) + 1
  BY <1>2, <1>4
<1>6. NewRow(o, a).state = "preparing"
  BY DEF NewRow
<1>7. \A i \in DOMAIN journal' : journal'[i].state = "ready" => journal'[i].guardrail \in Guardrails
  BY <1>2, <1>3, <1>5, <1>6 DEF RowsName
<1> QED BY <1>3, <1>7 DEF Newest

\* The rows of one operation get a state.
LEMMA RowSet ==
  ASSUME TypeOK, RowsName, NEW o, NEW state \in States, NEW id \in Guardrails \cup {None},
         state = "ready" => id \in Guardrails, SetRow(o, state, id)
  PROVE  /\ journal' \in Seq(Rows) /\ Len(journal') = Len(journal)
         /\ DOMAIN journal' = DOMAIN journal
         /\ \A i \in DOMAIN journal :
              /\ journal'[i].operation = journal[i].operation
              /\ journal'[i].account = journal[i].account
              /\ journal[i].operation = o => journal'[i].state = state /\ journal'[i].guardrail = id
              /\ journal[i].operation # o => journal'[i] = journal[i]
         /\ \A i \in DOMAIN journal' : journal'[i].state = "ready" => journal'[i].guardrail \in Guardrails
<1>1. journal \in Seq(Rows) /\ \A i \in DOMAIN journal : journal[i] \in Rows
  BY LenProperties DEF TypeOK
<1>2. ASSUME NEW r \in Rows
      PROVE  LET new == [r EXCEPT !.state = state, !.guardrail = id] IN
             /\ new \in Rows /\ new.operation = r.operation /\ new.account = r.account
             /\ new.state = state /\ new.guardrail = id
  BY DEF Rows
<1>3. /\ journal' \in [DOMAIN journal -> Rows]
      /\ \A i \in DOMAIN journal :
              /\ journal'[i].operation = journal[i].operation
              /\ journal'[i].account = journal[i].account
              /\ journal[i].operation = o => journal'[i].state = state /\ journal'[i].guardrail = id
              /\ journal[i].operation # o => journal'[i] = journal[i]
  BY <1>1, <1>2 DEF SetRow
<1>4. /\ journal' \in Seq(Rows) /\ Len(journal') = Len(journal) /\ DOMAIN journal' = DOMAIN journal
  BY <1>1, <1>3, SameLength
<1>5. \A i \in DOMAIN journal' : journal'[i].state = "ready" => journal'[i].guardrail \in Guardrails
  BY <1>3, <1>4 DEF RowsName
<1> QED BY <1>3, <1>4, <1>5

\* A deletion withdraws every ready row.
LEMMA RowsWithdrawn ==
  ASSUME TypeOK, journal' = [i \in DOMAIN journal |-> Withdrawn(journal[i])]
  PROVE  /\ journal' \in Seq(Rows) /\ Len(journal') = Len(journal)
         /\ DOMAIN journal' = DOMAIN journal
         /\ \A i \in DOMAIN journal' : journal'[i].state # "ready"
<1>1. journal \in Seq(Rows) /\ \A i \in DOMAIN journal : journal[i] \in Rows
  BY LenProperties DEF TypeOK
<1>2. \A r \in Rows : Withdrawn(r) \in Rows /\ Withdrawn(r).state # "ready"
  BY DEF Withdrawn, Rows, States
<1>3. journal' \in [DOMAIN journal -> Rows]
  BY <1>1, <1>2
<1>4. journal' \in Seq(Rows) /\ Len(journal') = Len(journal) /\ DOMAIN journal' = DOMAIN journal
  BY <1>1, <1>3, SameLength
<1> QED BY <1>1, <1>2, <1>4

\* What is readable names a guardrail.
LEMMA SnapshotNames == TypeOK /\ RowsName /\ Readable => Snapshot \in Guardrails
  BY NewestIsRow DEF TypeOK, RowsName, Readable, Snapshot, Newest

LEMMA PreviousNames == TypeOK => Previous \in Accounts \cup {None} /\ (journal # <<>> => Previous = Newest.account)
<1> SUFFICES ASSUME TypeOK PROVE Previous \in Accounts \cup {None} /\ (journal # <<>> => Previous = Newest.account)
  OBVIOUS
<1>1. journal # <<>> => Newest \in Rows
  BY NewestIsRow DEF TypeOK, Newest
<1> QED BY <1>1 DEF Previous, Rows

-----------------------------------------------------------------------------
(* One thread moves, and the others are outside of the boundary. *)

Labels == {"idle"} \cup PrepareLabels \cup DeleteLabels \cup {"register"}

\* Types of the locals, and of what the threads share.
LocalsOK == /\ mutex \in Threads \cup {Nobody}
            /\ pc \in [Threads -> Labels]
            /\ op \in [Threads -> Operations \cup Executions \cup {None}]
            /\ account \in [Threads -> Accounts \cup {None}]
            /\ found \in [Threads -> Guardrails \cup {None}]
SharedOK == /\ journal \in Seq(Rows) /\ deletions \subseteq Operations
            /\ DOMAIN open \subseteq Executions /\ \A e \in DOMAIN open : open[e] \in Guardrails
            /\ aws \in [Accounts -> AwsRows] /\ identity \in Accounts

LEMMA TypesSplit == TypeOK <=> LocalsOK /\ SharedOK
<1>1. Labels = {"idle", "identify", "inspect", "create", "poll", "publishing", "failing",
                "delete_inspect", "delete", "mark", "register"}
  BY DEF Labels, PrepareLabels, DeleteLabels
<1> QED BY <1>1 DEF TypeOK, LocalsOK, SharedOK

LEMMA TypesSplitNext == TypeOK' <=> LocalsOK' /\ SharedOK'
<1>1. Labels = {"idle", "identify", "inspect", "create", "poll", "publishing", "failing",
                "delete_inspect", "delete", "mark", "register"}
  BY DEF Labels, PrepareLabels, DeleteLabels
<1> QED BY <1>1 DEF TypeOK, LocalsOK, SharedOK

LEMMA Alone ==
  ASSUME LifeInv, NEW t \in Threads, pc[t] # "idle" \/ mutex = Nobody
  PROVE  \A u \in Threads : u # t => pc[u] = "idle"
  BY SentinelAssumption DEF LifeInv, InPlace

LEMMA IdleInPlace == ASSUME NEW t \in Threads, pc'[t] = "idle" PROVE InPlace(t)'
  BY DEF InPlace, PrepareLabels, DeleteLabels

LEMMA OneMoves ==
  ASSUME LifeInv, NEW t \in Threads, pc[t] # "idle" \/ mutex = Nobody,
         \A u \in Threads : u # t => pc'[u] = pc[u],
         LocalsOK', SharedOK', RowsName', InPlace(t)'
  PROVE  LifeInv'
<1>1. \A u \in Threads : u # t => InPlace(u)'
  BY Alone, IdleInPlace
<1> QED BY <1>1, TypesSplitNext DEF LifeInv

LEMMA Entered ==
  ASSUME LifeInv, NEW t \in Threads, NEW label \in Labels, label # "idle",
         NEW o \in Operations \cup Executions, Enter(t, label, o)
  PROVE  /\ pc[t] = "idle" /\ mutex = Nobody
         /\ \A u \in Threads : u # t => pc'[u] = pc[u]
         /\ mutex' = t /\ pc'[t] = label /\ op'[t] = o
         /\ account' \in [Threads -> Accounts \cup {None}]
              /\ found' \in [Threads -> Guardrails \cup {None}] => LocalsOK'
  BY TypesSplit DEF Enter, Goto, Available, LifeInv, LocalsOK

LEMMA Left ==
  ASSUME LifeInv, NEW t \in Threads, Leave(t)
  PROVE  /\ \A u \in Threads : u # t => pc'[u] = pc[u]
         /\ pc'[t] = "idle" /\ LocalsOK' /\ InPlace(t)'
<1>1. (\A u \in Threads : u # t => pc'[u] = pc[u]) /\ pc'[t] = "idle" /\ LocalsOK'
  BY TypesSplit DEF Leave, Goto, LifeInv, LocalsOK, Labels
<1> QED BY <1>1, IdleInPlace

\* A thread that leaves without a change of what is shared.
LEMMA GiveStep ==
  ASSUME LifeInv, NEW t \in Threads, pc[t] # "idle", Leave(t), UNCHANGED <<disk, aws, identity>>
  PROVE  LifeInv'
<1>1. SharedOK' /\ RowsName'
  BY TypesSplit DEF LifeInv, SharedOK, RowsName, disk
<1> QED BY <1>1, Left, OneMoves

\* A thread that moves inside of the boundary.
LEMMA Moved ==
  ASSUME LifeInv, NEW t \in Threads, pc[t] # "idle", NEW label \in Labels, Goto(t, label),
         UNCHANGED <<mutex, op>>,
         account' \in [Threads -> Accounts \cup {None}],
         found' \in [Threads -> Guardrails \cup {None}]
  PROVE  /\ \A u \in Threads : u # t => pc'[u] = pc[u]
         /\ pc'[t] = label /\ mutex' = t /\ op'[t] = op[t] /\ LocalsOK'
  BY TypesSplit DEF Goto, LifeInv, LocalsOK, InPlace

\* ... without a change of what is shared.
LEMMA GotoStep ==
  ASSUME LifeInv, NEW t \in Threads, pc[t] # "idle", NEW label \in Labels, Goto(t, label),
         UNCHANGED <<disk, aws, identity, mutex, op>>,
         account' \in [Threads -> Accounts \cup {None}],
         found' \in [Threads -> Guardrails \cup {None}],
         InPlace(t)'
  PROVE  LifeInv'
<1>1. SharedOK' /\ RowsName'
  BY TypesSplit DEF LifeInv, SharedOK, RowsName, disk
<1>2. (\A u \in Threads : u # t => pc'[u] = pc[u]) /\ LocalsOK'
  BY Moved
<1> QED BY <1>1, <1>2, OneMoves

LEMMA InitLife == Init => LifeInv
<1> SUFFICES ASSUME Init PROVE LifeInv  OBVIOUS
<1>1. LocalsOK
  BY DEF Init, LocalsOK, Labels
<1>2. SharedOK
  BY EmptySeq DEF Init, SharedOK, Absent, AwsRows
<1>3. RowsName
  <2>1. DOMAIN journal = {}
    BY EmptySeq, LenProperties DEF Init
  <2> QED BY <2>1 DEF Init, RowsName, Absent
<1>4. \A t \in Threads : InPlace(t)
  BY DEF Init, InPlace, PrepareLabels, DeleteLabels
<1> QED BY <1>1, <1>2, <1>3, <1>4, TypesSplit DEF LifeInv

-----------------------------------------------------------------------------
(* The steps. *)

LEMMA PrepareStep ==
  ASSUME LifeInv, NEW t \in Threads, Prepare(t) \/ PrepareFault(t)
  PROVE  LifeInv'
<1>a. TypeOK /\ LocalsOK /\ SharedOK /\ RowsName /\ InPlace(t)
  BY TypesSplit DEF LifeInv
<1>b. /\ PrepareLabels \subseteq Labels /\ "register" \in Labels
      /\ \A x \in Threads : account[x] \in Accounts \cup {None} /\ found[x] \in Guardrails \cup {None}
  BY <1>a DEF Labels, LocalsOK
\* A row of account a is begun for operation o.
<1>c. ASSUME NEW o \in Operations, NEW a \in Accounts, journal' = Append(journal, NewRow(o, a)),
             UNCHANGED <<deletions, open, aws, identity>>
      PROVE  /\ SharedOK' /\ RowsName'
             /\ journal' # <<>> /\ Newest'.operation = o /\ Newest'.account = a
  <2>1. /\ journal' \in Seq(Rows) /\ journal' # <<>> /\ Newest' = NewRow(o, a)
        /\ \A i \in DOMAIN journal' : journal'[i].state = "ready" => journal'[i].guardrail \in Guardrails
    BY <1>a, <1>c, Appended
  <2>2. NewRow(o, a).operation = o /\ NewRow(o, a).account = a
    BY DEF NewRow
  <2>3. SharedOK'
    BY <1>a, <1>c, <2>1 DEF SharedOK
  <2>4. RowsName'
    BY <1>a, <1>c, <2>1 DEF RowsName
  <2> QED BY <2>1, <2>2, <2>3, <2>4
<1>1. ASSUME NEW o \in Operations, PrepareAgain(t, o)
      PROVE  LifeInv'
  <2>1. /\ Enter(t, "identify", o) /\ Previous \in Accounts
        /\ journal' = Append(journal, NewRow(o, Previous))
        /\ account' = [account EXCEPT ![t] = Previous]
        /\ UNCHANGED <<deletions, open, aws, identity, found>>
    BY <1>1, <1>a, PreviousNames DEF PrepareAgain
  <2>2. /\ SharedOK' /\ RowsName'
        /\ journal' # <<>> /\ Newest'.operation = o /\ Newest'.account = Previous
    BY <1>c, <2>1
  <2>3. /\ account' \in [Threads -> Accounts \cup {None}] /\ account'[t] = Previous
        /\ found' \in [Threads -> Guardrails \cup {None}]
    BY <1>a, <2>1 DEF LocalsOK
  <2>4. /\ pc[t] = "idle" /\ mutex = Nobody
        /\ \A u \in Threads : u # t => pc'[u] = pc[u]
        /\ mutex' = t /\ pc'[t] = "identify" /\ op'[t] = o /\ LocalsOK'
    BY <1>b, <2>1, <2>3, Entered DEF PrepareLabels
  <2>5. InPlace(t)'
    BY <2>2, <2>3, <2>4 DEF InPlace, HasNewest, PrepareLabels, DeleteLabels
  <2> QED BY <2>2, <2>4, <2>5, OneMoves
<1>2. ASSUME NEW o \in Operations, PrepareFirst(t, o)
      PROVE  LifeInv'
  <2>1. /\ Enter(t, "identify", o) /\ UNCHANGED <<disk, aws, identity, found>>
        /\ account' = [account EXCEPT ![t] = None]
    BY <1>2 DEF PrepareFirst
  <2>2. SharedOK' /\ RowsName'
    BY <1>a, <2>1 DEF SharedOK, RowsName, disk
  <2>3. /\ account' \in [Threads -> Accounts \cup {None}] /\ account'[t] = None
        /\ found' \in [Threads -> Guardrails \cup {None}]
    BY <1>a, <2>1 DEF LocalsOK
  <2>4. /\ pc[t] = "idle" /\ mutex = Nobody
        /\ \A u \in Threads : u # t => pc'[u] = pc[u]
        /\ mutex' = t /\ pc'[t] = "identify" /\ op'[t] = o /\ LocalsOK'
    BY <1>b, <2>1, <2>3, Entered DEF PrepareLabels
  <2>5. InPlace(t)'
    BY <2>3, <2>4 DEF InPlace, PrepareLabels, DeleteLabels
  <2> QED BY <2>2, <2>4, <2>5, OneMoves
<1>3. CASE Identify(t)
  <2>1. CASE account[t] = None /\ Beginnable(op[t], identity)
    <3>1. /\ pc[t] = "identify" /\ op[t] \in Operations /\ identity \in Accounts
          /\ journal' = Append(journal, NewRow(op[t], identity))
          /\ account' = [account EXCEPT ![t] = identity] /\ Goto(t, "inspect")
          /\ UNCHANGED <<deletions, open, aws, identity, mutex, op, found>>
      BY <1>3, <1>a, <2>1 DEF Identify, InPlace, PrepareLabels, SharedOK
    <3>2. /\ SharedOK' /\ RowsName'
          /\ journal' # <<>> /\ Newest'.operation = op[t] /\ Newest'.account = identity
      BY <1>c, <3>1
    <3>3. /\ account' \in [Threads -> Accounts \cup {None}] /\ account'[t] = identity
          /\ found' \in [Threads -> Guardrails \cup {None}]
      BY <1>a, <3>1 DEF LocalsOK
    <3>4. /\ \A u \in Threads : u # t => pc'[u] = pc[u]
          /\ pc'[t] = "inspect" /\ mutex' = t /\ op'[t] = op[t] /\ LocalsOK'
      BY <1>b, <3>1, <3>3, Moved DEF PrepareLabels
    <3>5. InPlace(t)'
      BY <3>1, <3>2, <3>3, <3>4 DEF InPlace, HasNewest, PrepareLabels, DeleteLabels
    <3> QED BY <3>1, <3>2, <3>4, <3>5, OneMoves
  <2>2. CASE account[t] = None /\ ~Beginnable(op[t], identity)
    BY <1>3, <2>2, GiveStep DEF Identify
  <2>3. CASE account[t] # None
    <3>1. PICK label \in {"inspect", "failing"} : Goto(t, label)
      BY <1>3, <2>3 DEF Identify
    <3>2. pc[t] = "identify" /\ UNCHANGED <<disk, aws, identity, mutex, op, account, found>>
      BY <1>3, <2>3 DEF Identify
    <3>3. /\ pc'[t] = label /\ mutex' = t /\ op'[t] = op[t]
          /\ account' \in [Threads -> Accounts \cup {None}]
          /\ found' \in [Threads -> Guardrails \cup {None}]
      BY <1>a, <1>b, <3>1, <3>2, Moved DEF PrepareLabels, LocalsOK
    <3>4. HasNewest(t)' /\ op[t] \in Operations
      BY <1>a, <2>3, <3>2 DEF InPlace, HasNewest, Newest, disk, PrepareLabels
    <3>5. InPlace(t)'
      BY <3>3, <3>4 DEF InPlace, PrepareLabels, DeleteLabels
    <3> QED BY <1>b, <3>1, <3>2, <3>3, <3>5, GotoStep DEF PrepareLabels
  <2> QED BY <2>1, <2>2, <2>3
<1>4. CASE Inspect(t)
  <2> DEFINE g == aws[account[t]]
  <2>1. /\ pc[t] = "inspect" /\ UNCHANGED <<disk, aws, identity, mutex, op, account>>
        /\ found' = [found EXCEPT ![t] = IF g.status = "ready" THEN g.id ELSE None]
    BY <1>4 DEF Inspect
  <2>2. HasNewest(t) /\ op[t] \in Operations /\ account[t] \in Accounts
    <3>1. HasNewest(t) /\ op[t] \in Operations
      BY <1>a, <2>1 DEF InPlace, PrepareLabels
    <3>2. Newest \in Rows
      BY <1>a, <3>1, NewestIsRow DEF HasNewest, TypeOK, Newest
    <3> QED BY <3>1, <3>2 DEF HasNewest, Rows
  <2>3. /\ g \in AwsRows /\ (g.status = "ready" => g.id \in Guardrails)
        /\ g = [id |-> g.id, status |-> g.status]
    BY <1>a, <2>2 DEF SharedOK, RowsName, AwsRows
  <2>4. /\ account' \in [Threads -> Accounts \cup {None}]
        /\ found' \in [Threads -> Guardrails \cup {None}]
        /\ found'[t] = IF g.status = "ready" THEN g.id ELSE None
    BY <1>a, <2>1, <2>3 DEF LocalsOK
  <2>5. PICK label \in {"publishing", "create", "failing"} :
          /\ Goto(t, label)
          /\ label = "publishing" => g.status = "ready"
          /\ label = "create" => g.status = "absent"
    BY <1>4 DEF Inspect
  <2>6. pc'[t] = label /\ mutex' = t /\ op'[t] = op[t]
    BY <1>b, <2>1, <2>4, <2>5, Moved DEF PrepareLabels
  <2>7. HasNewest(t)' /\ account'[t] = account[t] /\ aws' = aws
    BY <2>1, <2>2 DEF HasNewest, Newest, disk
  <2>8. InPlace(t)'
    BY <2>2, <2>3, <2>4, <2>5, <2>6, <2>7 DEF InPlace, PrepareLabels, DeleteLabels
  <2> QED BY <1>b, <2>1, <2>4, <2>5, <2>8, GotoStep DEF PrepareLabels
<1>5. CASE Poll(t)
  <2>1. /\ pc[t] = "poll" /\ UNCHANGED <<disk, aws, identity, mutex, op, account, found>>
        /\ Goto(t, "publishing") /\ aws[account[t]] = [id |-> found[t], status |-> "ready"]
    BY <1>5 DEF Poll, Polled
  <2>2. /\ pc'[t] = "publishing" /\ mutex' = t /\ op'[t] = op[t]
        /\ account' \in [Threads -> Accounts \cup {None}]
        /\ found' \in [Threads -> Guardrails \cup {None}]
    BY <1>a, <1>b, <2>1, Moved DEF PrepareLabels, LocalsOK
  <2>3. HasNewest(t)' /\ op[t] \in Operations /\ found[t] \in Guardrails
    BY <1>a, <2>1 DEF InPlace, HasNewest, Newest, disk, PrepareLabels
  <2>4. InPlace(t)'
    BY <2>1, <2>2, <2>3 DEF InPlace, PrepareLabels, DeleteLabels
  <2> QED BY <1>b, <2>1, <2>2, <2>4, GotoStep DEF PrepareLabels
<1>6. CASE Publish(t)
  <2>1. /\ pc[t] = "publishing" /\ SetRow(op[t], "ready", found[t]) /\ found[t] \in Guardrails
        /\ Leave(t) /\ UNCHANGED <<deletions, open, aws, identity>>
    BY <1>6, <1>a DEF Publish, InPlace
  <2>2. /\ journal' \in Seq(Rows)
        /\ \A i \in DOMAIN journal' : journal'[i].state = "ready" => journal'[i].guardrail \in Guardrails
    BY <1>a, <2>1, RowSet DEF States
  <2>3. SharedOK' /\ RowsName'
    BY <1>a, <2>1, <2>2 DEF SharedOK, RowsName
  <2> QED BY <2>1, <2>3, Left, OneMoves
<1>7. ASSUME NEW id \in Guardrails, Create(t, id)
      PROVE  LifeInv'
  <2>1. /\ pc[t] = "create" /\ UNCHANGED <<disk, identity, mutex, op, account>>
        /\ aws' = [aws EXCEPT ![account[t]] = [id |-> id, status |-> "creating"]]
    BY <1>7 DEF Create
  <2>2. PICK label \in {"poll", "failing"} :
          /\ Goto(t, label) /\ found' \in {found, [found EXCEPT ![t] = id]}
          /\ label = "poll" => found' = [found EXCEPT ![t] = id]
    BY <1>7 DEF Create
  <2>3. /\ account' \in [Threads -> Accounts \cup {None}]
        /\ found' \in [Threads -> Guardrails \cup {None}]
        /\ label = "poll" => found'[t] \in Guardrails
    BY <1>a, <2>1, <2>2 DEF LocalsOK
  <2>4. /\ \A u \in Threads : u # t => pc'[u] = pc[u]
        /\ pc'[t] = label /\ mutex' = t /\ op'[t] = op[t] /\ LocalsOK'
    BY <1>b, <2>1, <2>2, <2>3, Moved DEF PrepareLabels
  <2>5. [id |-> id, status |-> "creating"] \in AwsRows /\ id # None
    BY SentinelAssumption DEF AwsRows
  <2>6. SharedOK' /\ RowsName'
    BY <1>a, <2>1, <2>5 DEF SharedOK, RowsName, disk
  <2>7. op[t] \in Operations /\ HasNewest(t)'
    BY <1>a, <2>1 DEF InPlace, HasNewest, Newest, disk, PrepareLabels
  <2>8. InPlace(t)'
    BY <2>3, <2>4, <2>7 DEF InPlace, PrepareLabels, DeleteLabels
  <2> QED BY <2>1, <2>4, <2>6, <2>8, OneMoves
<1>8. CASE FailPreparation(t)
  <2>1. /\ pc[t] = "failing" /\ Leave(t) /\ UNCHANGED <<deletions, open, aws, identity>>
        /\ SetRow(op[t], "error", None) \/ journal' = journal
    BY <1>8 DEF FailPreparation
  <2>2. /\ journal' \in Seq(Rows)
        /\ \A i \in DOMAIN journal' : journal'[i].state = "ready" => journal'[i].guardrail \in Guardrails
    <3>1. CASE SetRow(op[t], "error", None)
      BY <1>a, <3>1, RowSet DEF States
    <3>2. CASE journal' = journal
      BY <1>a, <3>2 DEF SharedOK, RowsName
    <3> QED BY <2>1, <3>1, <3>2
  <2>3. SharedOK' /\ RowsName'
    BY <1>a, <2>1, <2>2 DEF SharedOK, RowsName
  <2> QED BY <2>1, <2>3, Left, OneMoves
<1>9. CASE PrepareFault(t)
  <2>1. /\ pc[t] \in {"identify", "inspect", "create", "poll", "publishing"}
        /\ UNCHANGED <<disk, aws, identity>>
        /\ \/ Leave(t)
           \/ Goto(t, "failing") /\ UNCHANGED <<mutex, op, account, found>>
    BY <1>9 DEF PrepareFault
  <2>2. CASE Leave(t)
    BY <2>1, <2>2, GiveStep
  <2>3. CASE Goto(t, "failing") /\ UNCHANGED <<mutex, op, account, found>>
    <3>1. /\ pc'[t] = "failing" /\ mutex' = t /\ op'[t] = op[t]
          /\ account' \in [Threads -> Accounts \cup {None}]
          /\ found' \in [Threads -> Guardrails \cup {None}]
      BY <1>a, <1>b, <2>1, <2>3, Moved DEF PrepareLabels, LocalsOK
    <3>2. op[t] \in Operations
      BY <1>a, <2>1 DEF InPlace, PrepareLabels
    <3>3. InPlace(t)'
      BY <3>1, <3>2 DEF InPlace, PrepareLabels, DeleteLabels
    <3> QED BY <1>b, <2>1, <2>3, <3>1, <3>3, GotoStep DEF PrepareLabels
  <2> QED BY <2>1, <2>2, <2>3
<1> QED BY <1>1, <1>2, <1>3, <1>4, <1>5, <1>6, <1>7, <1>8, <1>9 DEF Prepare

LEMMA DeleteStep ==
  ASSUME LifeInv, NEW t \in Threads, Delete(t) \/ DeleteFault(t)
  PROVE  LifeInv'
<1>a. TypeOK /\ LocalsOK /\ SharedOK /\ RowsName /\ InPlace(t)
  BY TypesSplit DEF LifeInv
<1>b. DeleteLabels \subseteq Labels
  BY DEF Labels
<1>1. ASSUME NEW o \in Operations, StartDelete(t, o)
      PROVE  LifeInv'
  <2>1. /\ Enter(t, "delete_inspect", o) /\ UNCHANGED <<disk, aws, identity, account, found>>
        /\ DOMAIN open = {}
    BY <1>1 DEF StartDelete, Idle
  <2>2. SharedOK' /\ RowsName' /\ DOMAIN open' = {}
    BY <1>a, <2>1 DEF SharedOK, RowsName, disk
  <2>3. /\ pc[t] = "idle" /\ mutex = Nobody
        /\ \A u \in Threads : u # t => pc'[u] = pc[u]
        /\ mutex' = t /\ pc'[t] = "delete_inspect" /\ op'[t] = o /\ LocalsOK'
    BY <1>a, <1>b, <2>1, Entered DEF DeleteLabels, LocalsOK
  <2>4. InPlace(t)'
    BY <2>2, <2>3 DEF InPlace, PrepareLabels, DeleteLabels
  <2> QED BY <2>2, <2>3, <2>4, OneMoves
<1>2. CASE InspectDelete(t)
  <2>1. /\ pc[t] = "delete_inspect" /\ UNCHANGED <<disk, aws, identity, mutex, op, found>>
        /\ account' = [account EXCEPT ![t] = identity]
    BY <1>2 DEF InspectDelete
  <2>2. PICK label \in {"mark", "delete"} : Goto(t, label)
    BY <1>2 DEF InspectDelete
  <2>3. /\ account' \in [Threads -> Accounts \cup {None}]
        /\ found' \in [Threads -> Guardrails \cup {None}]
    BY <1>a, <2>1 DEF LocalsOK, SharedOK
  <2>4. pc'[t] = label /\ mutex' = t /\ op'[t] = op[t]
    BY <1>b, <2>1, <2>2, <2>3, Moved DEF DeleteLabels
  <2>5. op[t] \in Operations /\ DOMAIN open' = {}
    BY <1>a, <2>1 DEF InPlace, DeleteLabels, disk
  <2>6. InPlace(t)'
    BY <2>4, <2>5 DEF InPlace, PrepareLabels, DeleteLabels
  <2> QED BY <1>b, <2>1, <2>2, <2>3, <2>6, GotoStep DEF DeleteLabels
<1>3. CASE RefuseDelete(t) \/ DeleteFault(t)
  BY <1>3, GiveStep DEF RefuseDelete, DeleteFault, Give
<1>4. CASE DeleteGuardrail(t)
  <2>1. /\ pc[t] = "delete" /\ aws' = [aws EXCEPT ![account[t]] = Absent] /\ UNCHANGED <<disk, identity>>
        /\ \/ Goto(t, "mark") /\ UNCHANGED <<mutex, op, account, found>>
           \/ Leave(t)
    BY <1>4 DEF DeleteGuardrail
  <2>2. Absent \in AwsRows /\ Absent.status = "absent" /\ Absent.id = None
    BY DEF Absent, AwsRows
  <2>3. SharedOK' /\ RowsName'
    BY <1>a, <2>1, <2>2 DEF SharedOK, RowsName, disk
  <2>4. CASE Leave(t)
    BY <2>1, <2>3, <2>4, Left, OneMoves
  <2>5. CASE Goto(t, "mark") /\ UNCHANGED <<mutex, op, account, found>>
    <3>1. /\ \A u \in Threads : u # t => pc'[u] = pc[u]
          /\ pc'[t] = "mark" /\ mutex' = t /\ op'[t] = op[t] /\ LocalsOK'
      BY <1>a, <1>b, <2>1, <2>5, Moved DEF DeleteLabels, LocalsOK
    <3>2. op[t] \in Operations /\ DOMAIN open' = {}
      BY <1>a, <2>1 DEF InPlace, DeleteLabels, disk
    <3>3. InPlace(t)'
      BY <3>1, <3>2 DEF InPlace, PrepareLabels, DeleteLabels
    <3> QED BY <2>1, <2>3, <3>1, <3>3, OneMoves
  <2> QED BY <2>1, <2>4, <2>5
<1>5. CASE Mark(t)
  <2>1. /\ pc[t] = "mark" /\ Leave(t) /\ UNCHANGED <<open, aws, identity>>
        /\ deletions' = deletions \cup {op[t]}
        /\ journal' = [i \in DOMAIN journal |-> Withdrawn(journal[i])]
    BY <1>5 DEF Mark
  <2>2. op[t] \in Operations
    BY <1>a, <2>1 DEF InPlace, DeleteLabels
  <2>3. SharedOK' /\ RowsName'
    BY <1>a, <2>1, <2>2, RowsWithdrawn DEF SharedOK, RowsName
  <2> QED BY <2>1, <2>3, Left, OneMoves
<1> QED BY <1>1, <1>2, <1>3, <1>4, <1>5 DEF Delete

LEMMA RegisterStep ==
  ASSUME LifeInv, NEW t \in Threads, (\E e \in Executions : StartRegister(t, e)) \/ Register(t)
  PROVE  LifeInv'
<1>a. TypeOK /\ LocalsOK /\ SharedOK /\ RowsName /\ InPlace(t)
  BY TypesSplit DEF LifeInv
<1>1. ASSUME NEW e \in Executions, StartRegister(t, e)
      PROVE  LifeInv'
  <2>1. /\ Enter(t, "register", e) /\ UNCHANGED <<disk, aws, identity, account>>
        /\ found' = [found EXCEPT ![t] = Snapshot] /\ Snapshot \in Guardrails
    BY <1>1, <1>a, SnapshotNames DEF StartRegister
  <2>2. SharedOK' /\ RowsName'
    BY <1>a, <2>1 DEF SharedOK, RowsName, disk
  <2>3. /\ account' \in [Threads -> Accounts \cup {None}]
        /\ found' \in [Threads -> Guardrails \cup {None}] /\ found'[t] \in Guardrails
    BY <1>a, <2>1 DEF LocalsOK
  <2>4. /\ pc[t] = "idle" /\ mutex = Nobody
        /\ \A u \in Threads : u # t => pc'[u] = pc[u]
        /\ mutex' = t /\ pc'[t] = "register" /\ op'[t] = e /\ LocalsOK'
    BY <2>1, <2>3, Entered DEF Labels
  <2>5. InPlace(t)'
    BY <2>3, <2>4 DEF InPlace, PrepareLabels, DeleteLabels
  <2> QED BY <2>2, <2>4, <2>5, OneMoves
<1>2. CASE Register(t)
  <2>1. /\ pc[t] = "register" /\ Leave(t) /\ UNCHANGED <<journal, deletions, aws, identity>>
        /\ open' = IF op[t] \in DOMAIN open THEN open
                   ELSE [e \in DOMAIN open \cup {op[t]} |-> IF e = op[t] THEN found[t] ELSE open[e]]
    BY <1>2 DEF Register
  <2>2. op[t] \in Executions /\ found[t] \in Guardrails
    BY <1>a, <2>1 DEF InPlace
  <2>3. DOMAIN open' \subseteq Executions /\ \A e \in DOMAIN open' : open'[e] \in Guardrails
    BY <1>a, <2>1, <2>2 DEF SharedOK
  <2>4. SharedOK' /\ RowsName'
    BY <1>a, <2>1, <2>3 DEF SharedOK, RowsName
  <2> QED BY <2>1, <2>4, Left, OneMoves
<1> QED BY <1>1, <1>2

\* What happens outside of the boundary, or ends the process.
LEMMA OutsideStep ==
  ASSUME LifeInv,
         \/ \E e \in Executions : Close(e)
         \/ \E a \in Accounts : Created(a) \/ SwitchAccount(a)
         \/ Crash
         \/ UNCHANGED vars
  PROVE  LifeInv'
<1>a. TypeOK /\ LocalsOK /\ SharedOK /\ RowsName /\ \A t \in Threads : InPlace(t)
  BY TypesSplit DEF LifeInv
<1>1. ASSUME NEW e \in Executions, Close(e)
      PROVE  LifeInv'
  <2>1. /\ mutex = Nobody /\ open' = [x \in DOMAIN open \ {e} |-> open[x]]
        /\ UNCHANGED <<journal, deletions, aws, identity, mutex, pc, op, account, found>>
    BY <1>1 DEF Close, Available, locals
  <2>2. SharedOK' /\ RowsName' /\ LocalsOK'
    BY <1>a, <2>1 DEF SharedOK, RowsName, LocalsOK
  <2>3. \A t \in Threads : pc'[t] = "idle"
    BY <1>a, <2>1, SentinelAssumption DEF InPlace
  <2> QED BY <2>2, <2>3, IdleInPlace, TypesSplitNext DEF LifeInv
<1>2. ASSUME NEW a \in Accounts, Created(a)
      PROVE  LifeInv'
  <2>1. /\ aws[a].status = "creating" /\ aws' = [aws EXCEPT ![a].status = "ready"]
        /\ UNCHANGED <<journal, deletions, open, identity, mutex, pc, op, account, found>>
    BY <1>2 DEF Created, locals, disk
  <2>2. /\ aws' \in [Accounts -> AwsRows]
        /\ \A b \in Accounts : b # a => aws'[b] = aws[b]
        /\ aws'[a].status = "ready" /\ aws'[a].id = aws[a].id
    BY <1>a, <2>1 DEF SharedOK, AwsRows
  <2>3. SharedOK' /\ RowsName' /\ LocalsOK'
    BY <1>a, <2>1, <2>2 DEF SharedOK, RowsName, LocalsOK
  <2>4. ASSUME NEW t \in Threads PROVE InPlace(t)'
    <3>1. InPlace(t) /\ (HasNewest(t) => HasNewest(t)' /\ account[t] \in Accounts)
      <4>1. HasNewest(t) => Newest \in Rows
        BY <1>a, NewestIsRow DEF HasNewest, TypeOK, Newest
      <4> QED BY <1>a, <2>1, <4>1 DEF HasNewest, Newest, Rows
    <3>2. pc[t] = "create" => aws'[account[t]].status = "absent"
      BY <2>1, <2>2, <3>1 DEF InPlace
    <3>3. pc[t] = "publishing" => aws'[account[t]] = [id |-> found[t], status |-> "ready"]
      BY <2>1, <2>2, <3>1 DEF InPlace
    <3> QED BY <2>1, <3>1, <3>2, <3>3 DEF InPlace
  <2> QED BY <2>3, <2>4, TypesSplitNext DEF LifeInv
<1>3. ASSUME NEW a \in Accounts, SwitchAccount(a)
      PROVE  LifeInv'
  <2>1. identity' = a /\ UNCHANGED <<journal, deletions, open, aws, mutex, pc, op, account, found>>
    BY <1>3 DEF SwitchAccount, locals, disk
  <2>2. SharedOK' /\ RowsName' /\ LocalsOK'
    BY <1>a, <2>1 DEF SharedOK, RowsName, LocalsOK
  <2>3. \A t \in Threads : InPlace(t)'
    BY <1>a, <2>1 DEF InPlace, HasNewest, Newest
  <2> QED BY <2>2, <2>3, TypesSplitNext DEF LifeInv
<1>4. CASE Crash
  <2>1. SharedOK' /\ RowsName'
    BY <1>a, <1>4 DEF Crash, SharedOK, RowsName, disk
  <2>2. LocalsOK' /\ \A t \in Threads : pc'[t] = "idle"
    BY <1>4 DEF Crash, LocalsOK, Labels
  <2> QED BY <2>1, <2>2, IdleInPlace, TypesSplitNext DEF LifeInv
<1>5. CASE UNCHANGED vars
  <2>1. LocalsOK' /\ SharedOK' /\ RowsName' /\ \A t \in Threads : InPlace(t)'
    BY <1>a, <1>5 DEF vars, LocalsOK, SharedOK, RowsName, InPlace, HasNewest, Newest
  <2> QED BY <2>1, TypesSplitNext DEF LifeInv
<1> QED BY <1>1, <1>2, <1>3, <1>4, <1>5

LEMMA NextLife == LifeInv /\ [Next]_vars => LifeInv'
<1> SUFFICES ASSUME LifeInv, [Next]_vars PROVE LifeInv'  OBVIOUS
<1>1. CASE \E t \in Threads : Prepare(t) \/ PrepareFault(t)
  BY <1>1, PrepareStep
<1>2. CASE \E t \in Threads : Delete(t) \/ DeleteFault(t)
  BY <1>2, DeleteStep
<1>3. CASE \E t \in Threads : (\E e \in Executions : StartRegister(t, e)) \/ Register(t)
  BY <1>3, RegisterStep
<1>4. CASE \/ \E e \in Executions : Close(e)
           \/ \E a \in Accounts : Created(a) \/ SwitchAccount(a)
           \/ Crash
           \/ UNCHANGED vars
  BY <1>4, OutsideStep
<1> QED BY <1>1, <1>2, <1>3, <1>4 DEF Next

\* At every step the stores, the boundary and the threads agree as LifeInv says:
\* resource_lifecycle_boundary admits one request, and what it has seen still holds.
THEOREM LifeInvariance == Spec => []LifeInv
BY InitLife, NextLife, PTL DEF Spec

-----------------------------------------------------------------------------
(* What no step does. *)

\* The actions of HeldIsKept and ReadinessIsNew.
KeepsHeld == \A g \in Guardrails : Exists(g) /\ g \in Held /\ g \in Held' => Exists(g)'
ReadyIsNew ==
  /\ ~Readable /\ Readable' =>
        /\ \E t \in Threads : pc[t] = "publishing" /\ op[t] = Newest.operation
        /\ aws[Newest'.account] = [id |-> Snapshot', status |-> "ready"]
  /\ Len(journal') > Len(journal) => ~Readable'

LEMMA SameIds ==
  ASSUME \A a \in Accounts : aws'[a].id = aws[a].id
  PROVE  KeepsHeld
  BY DEF KeepsHeld, Exists

\* Nothing is held while a thread deletes: no execution is open, and no other
\* thread is in the boundary to register one.
LEMMA NothingHeld ==
  ASSUME LifeInv, NEW t \in Threads, pc[t] \in DeleteLabels
  PROVE  Held = {}
<1>1. DOMAIN open = {} /\ pc[t] # "idle" /\ pc[t] # "register"
  BY DEF LifeInv, InPlace, DeleteLabels
<1>2. \A x \in Threads : pc[x] # "register"
  BY <1>1, Alone
<1> QED BY <1>1, <1>2 DEF Held

LEMMA StepKeepsHeld == LifeInv /\ Next => KeepsHeld
<1> SUFFICES ASSUME LifeInv, Next PROVE KeepsHeld  OBVIOUS
<1>a. TypeOK /\ RowsName
  BY DEF LifeInv
<1>1. CASE \E t \in Threads : \E id \in Guardrails : Create(t, id)
  <2>1. PICK t \in Threads, id \in Guardrails : Create(t, id)
    BY <1>1
  <2>2. /\ pc[t] = "create" /\ aws' = [aws EXCEPT ![account[t]] = [id |-> id, status |-> "creating"]]
    BY <2>1 DEF Create
  <2>3. aws[account[t]].status = "absent"
    BY <2>2 DEF LifeInv, InPlace
  \* The account had no guardrail, so none is lost.
  <2>4. \A a \in Accounts : aws[a].id \in Guardrails => aws'[a] = aws[a]
    BY <1>a, <2>2, <2>3, SentinelAssumption DEF RowsName, TypeOK
  <2> QED BY <2>4 DEF KeepsHeld, Exists
<1>2. CASE \E t \in Threads : DeleteGuardrail(t)
  BY <1>2, NothingHeld DEF DeleteGuardrail, DeleteLabels, KeepsHeld
<1>3. CASE \E a \in Accounts : Created(a)
  <2>1. PICK a \in Accounts : aws' = [aws EXCEPT ![a].status = "ready"]
    BY <1>3 DEF Created
  <2>2. \A b \in Accounts : aws'[b].id = aws[b].id
    BY <1>a, <2>1 DEF TypeOK, AwsRows
  <2> QED BY <2>2, SameIds
<1>4. CASE aws' = aws
  BY <1>4, SameIds
<1>5. \/ \E t \in Threads : \E id \in Guardrails : Create(t, id)
      \/ \E t \in Threads : DeleteGuardrail(t)
      \/ \E a \in Accounts : Created(a)
      \/ aws' = aws
  <2>1. ASSUME NEW t \in Threads, Prepare(t) \/ PrepareFault(t)
        PROVE  (\E id \in Guardrails : Create(t, id)) \/ aws' = aws
    BY <2>1 DEF Prepare, PrepareAgain, PrepareFirst, Identify, Inspect, Poll, Publish,
                FailPreparation, PrepareFault
  <2>2. ASSUME NEW t \in Threads, Delete(t) \/ DeleteFault(t)
        PROVE  DeleteGuardrail(t) \/ aws' = aws
    BY <2>2 DEF Delete, StartDelete, InspectDelete, RefuseDelete, Mark, DeleteFault, Give
  <2>3. ASSUME NEW t \in Threads, (\E e \in Executions : StartRegister(t, e)) \/ Register(t)
        PROVE  aws' = aws
    BY <2>3 DEF StartRegister, Register
  <2>4. ASSUME \/ \E e \in Executions : Close(e)
               \/ \E a \in Accounts : SwitchAccount(a)
               \/ Crash
        PROVE  aws' = aws
    BY <2>4 DEF Close, SwitchAccount, Crash
  <2> QED BY <2>1, <2>2, <2>3, <2>4 DEF Next
<1> QED BY <1>1, <1>2, <1>3, <1>4, <1>5

\* A row that begins hides what was readable.
LEMMA BegunHides ==
  ASSUME LifeInv, NEW o \in Operations, NEW a \in Accounts, journal' = Append(journal, NewRow(o, a))
  PROVE  ReadyIsNew
<1>1. journal' # <<>> /\ Newest' = NewRow(o, a)
  BY Appended DEF LifeInv
<1>2. ~Readable'
  BY <1>1 DEF Readable, NewRow
<1> QED BY <1>2 DEF ReadyIsNew

LEMMA SameRows == ASSUME journal' = journal PROVE ReadyIsNew
<1>1. Readable' = Readable
  BY DEF Readable, Newest
<1>2. journal \in Seq(Rows) => ~(Len(journal) > Len(journal))
  BY LenProperties
<1> QED BY <1>1, <1>2 DEF ReadyIsNew

\* The newest row after the rows of one operation got a state.
LEMMA NewestSet ==
  ASSUME LifeInv, NEW o, NEW state \in States, NEW id \in Guardrails \cup {None},
         state = "ready" => id \in Guardrails, SetRow(o, state, id)
  PROVE  /\ ~(Len(journal') > Len(journal))
         /\ Readable' /\ ~Readable => /\ Newest.operation = o /\ state = "ready"
                                      /\ Newest'.account = Newest.account /\ Snapshot' = id
<1>a. TypeOK /\ RowsName
  BY DEF LifeInv
<1>1. /\ journal' \in Seq(Rows) /\ Len(journal') = Len(journal)
      /\ DOMAIN journal' = DOMAIN journal
      /\ \A i \in DOMAIN journal :
           /\ journal'[i].operation = journal[i].operation
           /\ journal'[i].account = journal[i].account
           /\ journal[i].operation = o => journal'[i].state = state /\ journal'[i].guardrail = id
           /\ journal[i].operation # o => journal'[i] = journal[i]
      /\ \A i \in DOMAIN journal' : journal'[i].state = "ready" => journal'[i].guardrail \in Guardrails
  BY <1>a, RowSet, Zenon
<1>2. journal \in Seq(Rows) /\ Len(journal) \in Nat
  BY LenProperties DEF LifeInv, TypeOK
<1>3. journal' # <<>> => journal # <<>>
  BY <1>1, <1>2, EmptySeq
<1>4. journal # <<>> => Len(journal) \in DOMAIN journal
  BY <1>2, NewestIsRow
<1> QED BY <1>1, <1>2, <1>3, <1>4 DEF Readable, Snapshot, Newest

LEMMA StepReadyIsNew == LifeInv /\ Next => ReadyIsNew
<1> SUFFICES ASSUME LifeInv, Next PROVE ReadyIsNew  OBVIOUS
<1>a. TypeOK
  BY DEF LifeInv
<1>1. ASSUME NEW t \in Threads, NEW o \in Operations, PrepareAgain(t, o)
      PROVE  ReadyIsNew
  BY <1>1, <1>a, PreviousNames, BegunHides DEF PrepareAgain
<1>2. ASSUME NEW t \in Threads, Identify(t)
      PROVE  ReadyIsNew
  <2>1. op[t] \in Operations /\ identity \in Accounts
    BY <1>2 DEF LifeInv, InPlace, TypeOK, Identify, PrepareLabels
  <2>2. journal' = journal \/ journal' = Append(journal, NewRow(op[t], identity))
    BY <1>2 DEF Identify, disk
  <2> QED BY <2>1, <2>2, BegunHides, SameRows
<1>3. ASSUME NEW t \in Threads, Publish(t)
      PROVE  ReadyIsNew
  <2>1. /\ pc[t] = "publishing" /\ SetRow(op[t], "ready", found[t])
        /\ found[t] \in Guardrails /\ HasNewest(t)
        /\ aws[account[t]] = [id |-> found[t], status |-> "ready"]
    BY <1>3 DEF Publish, LifeInv, InPlace
  <2>2. /\ ~(Len(journal') > Len(journal))
        /\ Readable' /\ ~Readable => Newest'.account = Newest.account /\ Snapshot' = found[t]
    BY <2>1, NewestSet DEF States
  <2> QED BY <2>1, <2>2 DEF ReadyIsNew, HasNewest
<1>4. ASSUME NEW t \in Threads, FailPreparation(t)
      PROVE  ReadyIsNew
  <2>1. CASE SetRow(op[t], "error", None)
    <3>1. ~(Len(journal') > Len(journal)) /\ (Readable' => Readable)
      BY <2>1, NewestSet DEF States
    <3> QED BY <3>1 DEF ReadyIsNew
  <2> QED BY <1>4, <2>1, SameRows DEF FailPreparation
<1>5. ASSUME NEW t \in Threads, Mark(t)
      PROVE  ReadyIsNew
  <2>1. /\ journal' \in Seq(Rows)
        /\ \A i \in DOMAIN journal' : journal'[i].state # "ready"
    BY <1>5, <1>a, RowsWithdrawn DEF Mark
  <2>2. ~Readable'
    BY <2>1, NewestIsRow DEF Readable, Newest
  <2> QED BY <2>2 DEF ReadyIsNew
<1>6. \/ \E t \in Threads, o \in Operations : PrepareAgain(t, o)
      \/ \E t \in Threads : Identify(t) \/ Publish(t) \/ FailPreparation(t) \/ Mark(t)
      \/ journal' = journal
  <2>1. ASSUME NEW t \in Threads, Prepare(t) \/ PrepareFault(t)
        PROVE  \/ \E o \in Operations : PrepareAgain(t, o)
               \/ Identify(t) \/ Publish(t) \/ FailPreparation(t) \/ journal' = journal
    BY <2>1 DEF Prepare, PrepareFirst, Inspect, Poll, Create, PrepareFault, disk
  <2>2. ASSUME NEW t \in Threads, Delete(t) \/ DeleteFault(t)
        PROVE  Mark(t) \/ journal' = journal
    BY <2>2 DEF Delete, StartDelete, InspectDelete, RefuseDelete, DeleteGuardrail, DeleteFault,
                Give, disk
  <2>3. ASSUME NEW t \in Threads, (\E e \in Executions : StartRegister(t, e)) \/ Register(t)
        PROVE  journal' = journal
    BY <2>3 DEF StartRegister, Register, disk
  <2>4. ASSUME \/ \E e \in Executions : Close(e)
               \/ \E a \in Accounts : Created(a) \/ SwitchAccount(a)
               \/ Crash
        PROVE  journal' = journal
    BY <2>4 DEF Close, Created, SwitchAccount, Crash, disk
  <2> QED BY <2>1, <2>2, <2>3, <2>4 DEF Next
<1> QED BY <1>1, <1>2, <1>3, <1>4, <1>5, <1>6, SameRows

\* No deletion takes the guardrail of an execution that is open or is being
\* registered, with any crashes, faults and retries in between.
THEOREM HeldIsKeptAlways == Spec => HeldIsKept
<1>1. LifeInv /\ [Next]_vars => [KeepsHeld]_vars
  BY StepKeepsHeld
<1> QED BY <1>1, LifeInvariance, PTL DEF Spec, HeldIsKept, KeepsHeld

\* Resources become readable only by the publication of the newest row, for a
\* guardrail that is ready in that row's account; a row that is begun hides them.
THEOREM ReadinessIsNewAlways == Spec => ReadinessIsNew
<1>1. LifeInv /\ [Next]_vars => [ReadyIsNew]_vars
  BY StepReadyIsNew
<1> QED BY <1>1, LifeInvariance, PTL DEF Spec, ReadinessIsNew, ReadyIsNew
-----------------------------------------------------------------------------
(* The suites of P03 and P04; the place of a request in their code is place. *)

CONSTANTS Suites, Snapshots, Nothing, Cases, PrepareWindow, SuiteWindow, MaxTime
VARIABLES now, resource, suites, owner, direct, registered, place, job

Store == INSTANCE SuiteStore WITH pc <- place

\* The sentinel is none of the names, and a contract has a case.
Contracted == Nothing \notin Suites /\ Nothing \notin Snapshots /\ Cases \in Nat \ {0} /\ MaxTime \in Nat

SuiteStates == {"absent", "preparing", "prepared", "error"}
SuiteRows == [state: SuiteStates, started: 0..MaxTime, prepared: 0..MaxTime, snapshot: Snapshots \cup {Nothing}]
Jobs == [suite: Suites \cup {Nothing}, cases: SUBSET Executions, started: 0..MaxTime,
         snapshot: Snapshots \cup {Nothing}]
Registrations == [suite: Suites \cup {Nothing}, snapshot: Snapshots \cup {Nothing}]
Places == {"idle", "inserting", "inserting_direct", "reading", "publishing", "failing", "comparing", "registering"}

Typed == /\ now \in Store!Times /\ resource \in Snapshots \cup {Nothing}
         /\ suites \in [Suites -> SuiteRows] /\ owner \in [Executions -> Suites \cup {Nothing}]
         /\ direct \subseteq Executions /\ registered \in [Executions -> Registrations]
         /\ place \in [Threads -> Places] /\ job \in [Threads -> Jobs]

\* A thread between its two transactions prepares its suite, and no other thread does.
Prepares(t) == place[t] \in {"reading", "publishing", "failing"}
PreparesAlone == \A t, u \in Threads: Prepares(t) /\ Prepares(u) /\ job[t].suite = job[u].suite => t = u

\* What a thread knows at its place.
JobHolds(t) ==
  /\ IF place[t] = "idle" THEN job[t] = Store!NoJob ELSE job[t].suite \in Suites
  /\ place[t] = "inserting" => Cardinality(job[t].cases) = Cases
  /\ place[t] = "inserting_direct" => (\E e \in Executions: job[t].cases = {e}) /\ job[t].snapshot # Nothing
  /\ Prepares(t) => suites[job[t].suite].state = "preparing"
  /\ place[t] = "publishing" => job[t].snapshot # Nothing
  /\ place[t] \in {"comparing", "registering"} =>
       /\ suites[job[t].suite].state = "prepared" /\ job[t].snapshot = suites[job[t].suite].snapshot
       /\ \A e \in job[t].cases: owner[e] = job[t].suite
JobsHold == \A t \in Threads: JobHolds(t)

\* A suite has no cases before it is inserted, and a prepared one has resources.
RowsHold == /\ \A s \in Suites: suites[s].state = "absent" => Store!CasesOf(s) = {}
            /\ \A s \in Suites: suites[s].state = "prepared" => suites[s].snapshot # Nothing
            /\ \A e \in direct: owner[e] # Nothing

SuiteInv == Typed /\ PreparesAlone /\ JobsHold /\ RowsHold /\ Store!WholeSuites /\ Store!RegisteredAsPrepared

-----------------------------------------------------------------------------
(* What the steps have in common. *)

\* Nothing of a prepared suite changes, and no execution leaves its suite.
RowsKept == \A s \in Suites: suites[s].state = "prepared" => suites'[s] = suites[s]
OwnersKept == \A e \in Executions: owner[e] # Nothing => owner'[e] = owner[e]

\* The cases of a suite after a step.
CasesAfter(s) == {e \in Executions: owner'[e] = s}

\* The store counts as the theorems about finite sets do.
LEMMA SameCount == \A S : Store!Cardinality(S) = Cardinality(S)
  BY DEF Store!Cardinality, Cardinality

\* What is registered stays as it was prepared.
LEMMA RegisteredKept ==
  ASSUME Contracted, SuiteInv, RowsKept, OwnersKept, registered' = registered
  PROVE  Store!RegisteredAsPrepared'
<1> SUFFICES ASSUME NEW e \in Executions, registered[e].suite # Nothing
             PROVE  /\ owner'[e] = registered[e].suite
                    /\ suites'[registered[e].suite].state = "prepared"
                    /\ registered[e].snapshot = suites'[registered[e].suite].snapshot
  BY DEF Store!RegisteredAsPrepared
<1>1. registered[e].suite \in Suites
  BY DEF SuiteInv, Typed, Registrations
<1>2. /\ owner[e] = registered[e].suite
      /\ suites[registered[e].suite].state = "prepared"
      /\ registered[e].snapshot = suites[registered[e].suite].snapshot
  BY DEF SuiteInv, Store!RegisteredAsPrepared
<1> QED BY <1>1, <1>2 DEF RowsKept, OwnersKept, Contracted

\* A thread that does not move keeps what it knows.
LEMMA OthersKnow ==
  ASSUME Contracted, SuiteInv, RowsKept, OwnersKept, NEW u \in Threads, place'[u] = place[u], job'[u] = job[u],
         Prepares(u) => suites'[job[u].suite] = suites[job[u].suite]
  PROVE  JobHolds(u)'
<1>1. JobHolds(u) /\ job[u] \in Jobs /\ Store!NoJob' = Store!NoJob
  BY DEF SuiteInv, Typed, JobsHold, Store!NoJob
<1>2. place[u] # "idle" => job[u].suite \in Suites
  BY <1>1 DEF JobHolds
<1>3. Prepares(u) => suites'[job[u].suite].state = "preparing"
  BY <1>1 DEF JobHolds
<1>4. ASSUME place[u] \in {"comparing", "registering"}
      PROVE  /\ suites'[job[u].suite].state = "prepared" /\ job[u].snapshot = suites'[job[u].suite].snapshot
             /\ \A e \in job[u].cases: owner'[e] = job[u].suite
  <2>1. /\ suites[job[u].suite].state = "prepared" /\ job[u].snapshot = suites[job[u].suite].snapshot
        /\ \A e \in job[u].cases: owner[e] = job[u].suite
    BY <1>1, <1>4 DEF JobHolds
  <2>2. job[u].suite \in Suites /\ job[u].cases \subseteq Executions
    BY <1>1, <1>2, <1>4 DEF Jobs
  <2> QED BY <2>1, <2>2 DEF RowsKept, OwnersKept, Contracted
<1> QED BY <1>1, <1>3, <1>4 DEF JobHolds, Prepares

\* The tables of suites and cases are as they were.
LEMMA TablesKept ==
  ASSUME Contracted, SuiteInv, UNCHANGED <<suites, owner, direct>>
  PROVE  RowsHold' /\ Store!WholeSuites' /\ RowsKept /\ OwnersKept
  BY DEF SuiteInv, RowsHold, Store!WholeSuites, Store!CasesOf, RowsKept, OwnersKept

\* A thread that did not prepare does not begin to by any step but an insertion.
LEMMA AloneKept ==
  ASSUME SuiteInv, NEW t \in Threads, \A u \in Threads \ {t}: place'[u] = place[u] /\ job'[u] = job[u],
         Prepares(t)' => Prepares(t) /\ job'[t].suite = job[t].suite
  PROVE  PreparesAlone'
<1> SUFFICES ASSUME NEW u \in Threads, NEW v \in Threads, Prepares(u)', Prepares(v)',
                    job'[u].suite = job'[v].suite
             PROVE  u = v
  BY DEF PreparesAlone
<1>1. \A w \in {u, v}: Prepares(w) /\ job'[w].suite = job[w].suite
  BY DEF Prepares
<1> QED BY <1>1 DEF SuiteInv, PreparesAlone

\* What an insertion and a publication write.
Begun(r, n) == [r EXCEPT !.state = "preparing", !.started = n]
Prepared(r, n, x) == [r EXCEPT !.state = "prepared", !.prepared = n, !.snapshot = x]

LEMMA RowBegins ==
  ASSUME NEW r \in SuiteRows, NEW n \in 0..MaxTime, NEW q, q = Begun(r, n)
  PROVE  q \in SuiteRows /\ q.state = "preparing"
<1> DEFINE T == 0..MaxTime
           S == Snapshots \cup {Nothing}
<1>1. SuiteRows = [state: SuiteStates, started: T, prepared: T, snapshot: S] /\ n \in T /\ "preparing" \in SuiteStates
  BY DEF SuiteRows, SuiteStates
<1> HIDE DEF T, S
<1> QED BY <1>1 DEF Begun

LEMMA RowPrepared ==
  ASSUME NEW r \in SuiteRows, NEW n \in 0..MaxTime, NEW x \in Snapshots \cup {Nothing}, NEW p, p = Prepared(r, n, x)
  PROVE  p \in SuiteRows /\ p.state = "prepared" /\ p.snapshot = x
<1> DEFINE T == 0..MaxTime
           S == Snapshots \cup {Nothing}
<1>1. /\ SuiteRows = [state: SuiteStates, started: T, prepared: T, snapshot: S] /\ n \in T /\ x \in S
      /\ "prepared" \in SuiteStates
  BY DEF SuiteRows, SuiteStates
<1> HIDE DEF T, S
<1> QED BY <1>1 DEF Prepared

-----------------------------------------------------------------------------
(* Requests that begin, are refused or end. *)

LEMMA ReturnTypes ==
  ASSUME Contracted, SuiteInv, NEW t \in Threads, Store!Return(t)
  PROVE  /\ place' \in [Threads -> Places] /\ job' \in [Threads -> Jobs]
         /\ place'[t] = "idle" /\ job'[t] = Store!NoJob
         /\ \A u \in Threads \ {t}: place'[u] = place[u] /\ job'[u] = job[u]
<1>1. Store!NoJob \in Jobs
  BY DEF Store!NoJob, Jobs, Contracted
<1> QED BY <1>1 DEF SuiteInv, Typed, Store!Return, Store!Goto, Places

LEMMA IdleHolds ==
  ASSUME NEW t \in Threads, place'[t] = "idle", job'[t] = Store!NoJob
  PROVE  JobHolds(t)' /\ ~Prepares(t)'
<1>1. Store!NoJob' = Store!NoJob
  BY DEF Store!NoJob
<1> QED BY <1>1 DEF JobHolds, Prepares

\* A request that begins knows what it has read.
LEMMA StartKeeps ==
  ASSUME Contracted, SuiteInv, NEW t \in Threads, NEW label \in Places, NEW s \in Suites, NEW E \in SUBSET Executions,
         NEW started \in 0..MaxTime, NEW snapshot \in Snapshots \cup {Nothing},
         Store!Start(t, label, s, E, started, snapshot), label \in {"inserting", "inserting_direct", "comparing"},
         label = "inserting" => Cardinality(E) = Cases,
         label = "inserting_direct" => (\E e \in Executions: E = {e}) /\ snapshot # Nothing,
         label = "comparing" => /\ suites[s].state = "prepared" /\ snapshot = suites[s].snapshot
                                /\ \A e \in E: owner[e] = s
  PROVE  SuiteInv'
<1> DEFINE new == [suite |-> s, cases |-> E, started |-> started, snapshot |-> snapshot]
<1>1. new \in Jobs /\ new.suite = s /\ new.cases = E /\ new.snapshot = snapshot
  BY DEF Jobs
<1>2. /\ place' = [place EXCEPT ![t] = label] /\ job' = [job EXCEPT ![t] = new]
      /\ UNCHANGED <<now, resource, Store!tables>>
  BY DEF Store!Start, Store!Goto
<1> HIDE DEF new
<1>3. Typed'
  BY <1>1, <1>2 DEF SuiteInv, Typed, Store!tables
<1>4. place'[t] = label /\ job'[t] = new /\ \A u \in Threads \ {t}: place'[u] = place[u] /\ job'[u] = job[u]
  BY <1>2 DEF SuiteInv, Typed
<1>5. RowsHold' /\ Store!WholeSuites' /\ RowsKept /\ OwnersKept
  BY <1>2, TablesKept DEF Store!tables
<1>6. Store!RegisteredAsPrepared'
  BY <1>2, <1>5, RegisteredKept DEF Store!tables
<1>7. ~Prepares(t)'
  BY <1>4 DEF Prepares
<1>8. PreparesAlone'
  BY <1>4, <1>7, AloneKept
<1>9. JobHolds(t)'
  <2>1. UNCHANGED <<suites, owner>>
    BY <1>2 DEF Store!tables
  <2> QED BY <1>1, <1>4, <2>1 DEF JobHolds, Prepares
<1>10. ASSUME NEW u \in Threads \ {t}
       PROVE  JobHolds(u)'
  BY <1>2, <1>4, <1>5, OthersKnow DEF Store!tables
<1> QED BY <1>3, <1>5, <1>6, <1>8, <1>9, <1>10 DEF SuiteInv, JobsHold

LEMMA PrepareKeeps ==
  ASSUME Contracted, SuiteInv, NEW t \in Threads, NEW s \in Suites, NEW E \in SUBSET Executions,
         Store!Prepare(t, s, E)
  PROVE  SuiteInv'
<1>1. now \in 0..MaxTime /\ "inserting" \in Places
  BY DEF SuiteInv, Typed, Store!Times, Contracted, Places
<1> QED BY <1>1, StartKeeps, SameCount DEF Store!Prepare

LEMMA PrepareDirectKeeps ==
  ASSUME Contracted, SuiteInv, NEW t \in Threads, NEW s \in Suites, NEW e \in Executions, Store!PrepareDirect(t, s, e)
  PROVE  SuiteInv'
<1>1. now \in 0..MaxTime /\ "inserting_direct" \in Places
  BY DEF SuiteInv, Typed, Store!Times, Contracted, Places
<1>2. {e} \in SUBSET Executions /\ resource \in Snapshots \cup {Nothing}
  BY DEF SuiteInv, Typed
<1> QED BY <1>1, <1>2, StartKeeps DEF Store!PrepareDirect

LEMMA LookupKeeps ==
  ASSUME Contracted, SuiteInv, NEW t \in Threads, NEW s \in Suites, NEW e \in Executions, Store!Lookup(t, s, e)
  PROVE  SuiteInv'
<1>1. 0 \in 0..MaxTime /\ "comparing" \in Places
  BY DEF Contracted, Places
<1>2. {e} \in SUBSET Executions /\ suites[s].snapshot \in Snapshots \cup {Nothing}
  BY DEF SuiteInv, Typed, SuiteRows
<1>3. suites[s].state = "prepared" /\ \A x \in {e}: owner[x] = s
  BY DEF Store!Lookup, Store!Usable
<1> QED BY <1>1, <1>2, <1>3, StartKeeps DEF Store!Lookup

LEMMA RefusedKeeps ==
  ASSUME Contracted, SuiteInv, NEW t \in Threads, NEW from, NEW failed, Store!Refused(t, from, failed)
  PROVE  SuiteInv'
<1>1. Store!Return(t) /\ UNCHANGED <<now, resource, Store!tables>>
  BY DEF Store!Refused
<1>2. /\ place' \in [Threads -> Places] /\ job' \in [Threads -> Jobs]
      /\ place'[t] = "idle" /\ job'[t] = Store!NoJob
      /\ \A u \in Threads \ {t}: place'[u] = place[u] /\ job'[u] = job[u]
  BY <1>1, ReturnTypes
<1>3. Typed'
  BY <1>1, <1>2 DEF SuiteInv, Typed, Store!tables
<1>4. RowsHold' /\ Store!WholeSuites' /\ RowsKept /\ OwnersKept
  BY <1>1, TablesKept DEF Store!tables
<1>5. Store!RegisteredAsPrepared'
  BY <1>1, <1>4, RegisteredKept DEF Store!tables
<1>6. JobHolds(t)' /\ ~Prepares(t)'
  BY <1>2, IdleHolds
<1>7. PreparesAlone'
  BY <1>2, <1>6, AloneKept
<1>8. ASSUME NEW u \in Threads \ {t}
      PROVE  JobHolds(u)'
  BY <1>1, <1>2, <1>4, OthersKnow DEF Store!tables
<1> QED BY <1>3, <1>4, <1>5, <1>6, <1>7, <1>8 DEF SuiteInv, JobsHold

-----------------------------------------------------------------------------
(* The two insertions. *)

\* What both insertions have in common: an absent suite gets cases that nobody owned.
LEMMA Inserted ==
  ASSUME Contracted, SuiteInv, NEW t \in Threads, place[t] \in {"inserting", "inserting_direct"},
         Store!Insertable(t), NEW row \in SuiteRows, row.state # "absent",
         row.state = "prepared" => row.snapshot # Nothing,
         suites' = [suites EXCEPT ![job[t].suite] = row], owner' = Store!Owned(t), registered' = registered,
         direct' = direct \/ direct' = direct \cup job[t].cases
  PROVE  /\ suites' \in [Suites -> SuiteRows] /\ owner' \in [Executions -> Suites \cup {Nothing}]
         /\ direct' \subseteq Executions
         /\ RowsKept /\ OwnersKept /\ RowsHold' /\ Store!RegisteredAsPrepared'
         /\ suites'[job[t].suite] = row /\ \A s \in Suites \ {job[t].suite}: suites'[s] = suites[s]
         /\ CasesAfter(job[t].suite) = job[t].cases
         /\ \A s \in Suites \ {job[t].suite}: CasesAfter(s) = Store!CasesOf(s)
         /\ \A s \in Suites \ {job[t].suite}: Store!CasesOf(s) \subseteq direct' <=> Store!CasesOf(s) \subseteq direct
         /\ job[t].cases \cap direct = {}
<1> DEFINE new == job[t].suite
<1> DEFINE cases == job[t].cases
<1>1. new \in Suites /\ cases \subseteq Executions
  BY DEF SuiteInv, Typed, Jobs, JobsHold, JobHolds
<1>2. suites[new].state = "absent" /\ \A e \in cases: owner[e] = Nothing
  BY DEF Store!Insertable
<1>3. owner' = [e \in Executions |-> IF e \in cases THEN new ELSE owner[e]]
  BY DEF Store!Owned
<1>4. suites' = [suites EXCEPT ![new] = row] /\ (direct' = direct \/ direct' = direct \cup cases)
  OBVIOUS
<1> HIDE DEF new, cases
<1>5. suites' \in [Suites -> SuiteRows] /\ suites'[new] = row /\ \A s \in Suites \ {new}: suites'[s] = suites[s]
  BY <1>1, <1>4 DEF SuiteInv, Typed
<1>6. owner' \in [Executions -> Suites \cup {Nothing}]
  BY <1>1, <1>3 DEF SuiteInv, Typed
<1>7. direct' \subseteq Executions
  BY <1>1, <1>4 DEF SuiteInv, Typed
<1>8. RowsKept
  BY <1>2, <1>5 DEF RowsKept
<1>9. OwnersKept
  BY <1>2, <1>3 DEF OwnersKept
<1>10. Store!CasesOf(new) = {}
  BY <1>1, <1>2 DEF SuiteInv, RowsHold
<1>11. CasesAfter(new) = cases
  BY <1>1, <1>3, <1>10 DEF CasesAfter, Store!CasesOf
<1>12. ASSUME NEW s \in Suites \ {new}
       PROVE  CasesAfter(s) = Store!CasesOf(s)
  BY <1>2, <1>3 DEF CasesAfter, Store!CasesOf, Contracted
<1>13. ASSUME NEW s \in Suites \ {new}
       PROVE  Store!CasesOf(s) \subseteq direct' <=> Store!CasesOf(s) \subseteq direct
  <2>1. Store!CasesOf(s) \cap cases = {}
    BY <1>2 DEF CasesAfter, Store!CasesOf, Contracted
  <2> QED BY <1>4, <2>1
<1>14. cases \cap direct = {}
  BY <1>2 DEF SuiteInv, RowsHold
<1>15. RowsHold'
  <2>1. \A s \in Suites: suites'[s].state = "absent" => Store!CasesOf(s)' = {}
    BY <1>5, <1>12 DEF SuiteInv, RowsHold, CasesAfter, Store!CasesOf
  <2>2. \A s \in Suites: suites'[s].state = "prepared" => suites'[s].snapshot # Nothing
    BY <1>5 DEF SuiteInv, RowsHold
  <2>3. \A e \in direct': owner'[e] # Nothing
    BY <1>1, <1>3, <1>4 DEF SuiteInv, Typed, RowsHold, Contracted
  <2> QED BY <2>1, <2>2, <2>3 DEF RowsHold
<1>16. Store!RegisteredAsPrepared'
  BY <1>8, <1>9, RegisteredKept
<1> QED BY <1>5, <1>6, <1>7, <1>8, <1>9, <1>11, <1>12, <1>13, <1>14, <1>15, <1>16 DEF new, cases

\* Nobody else prepares a suite that is absent.
LEMMA OthersInsert ==
  ASSUME Contracted, SuiteInv, NEW t \in Threads, job[t].suite \in Suites, Store!Insertable(t), RowsKept, OwnersKept,
         \A s \in Suites \ {job[t].suite}: suites'[s] = suites[s],
         \A u \in Threads \ {t}: place'[u] = place[u] /\ job'[u] = job[u]
  PROVE  \A u \in Threads \ {t}: JobHolds(u)' /\ (Prepares(u) => job[u].suite # job[t].suite)
<1> SUFFICES ASSUME NEW u \in Threads \ {t}
             PROVE  JobHolds(u)' /\ (Prepares(u) => job[u].suite # job[t].suite)
  OBVIOUS
<1>1. Prepares(u) => job[u].suite \in Suites /\ suites[job[u].suite].state = "preparing"
  BY DEF SuiteInv, JobsHold, JobHolds, Prepares
<1>2. Prepares(u) => job[u].suite # job[t].suite
  BY <1>1 DEF Store!Insertable
<1>3. JobHolds(u)'
  BY <1>1, <1>2, OthersKnow
<1> QED BY <1>2, <1>3

LEMMA InsertKeeps ==
  ASSUME Contracted, SuiteInv, NEW t \in Threads, Store!Insert(t)
  PROVE  SuiteInv'
<1> DEFINE row == [Store!NoRow EXCEPT !.state = "preparing", !.started = job[t].started]
<1>1. Store!NoRow \in SuiteRows
  BY DEF Store!NoRow, SuiteRows, SuiteStates, Contracted
<1>2. job[t] \in Jobs /\ job[t].suite \in Suites /\ Cardinality(job[t].cases) = Cases
  BY DEF SuiteInv, Typed, JobsHold, JobHolds, Store!Insert
<1>3. row \in SuiteRows /\ row.state = "preparing"
  <2>1. job[t].started \in 0..MaxTime /\ Nothing \in Snapshots \cup {Nothing}
    BY <1>2 DEF Jobs
  <2>2. row = Begun(Store!NoRow, job[t].started)
    BY DEF Begun
  <2> HIDE DEF row
  <2> QED BY <1>1, <2>1, <2>2, RowBegins
<1>4. /\ place[t] = "inserting" /\ Store!Insertable(t) /\ suites' = [suites EXCEPT ![job[t].suite] = row]
      /\ owner' = Store!Owned(t) /\ place' = [place EXCEPT ![t] = "reading"]
      /\ UNCHANGED <<now, resource, direct, registered, job>>
  BY DEF Store!Insert, Store!Goto
<1> HIDE DEF row
<1>5. /\ suites' \in [Suites -> SuiteRows] /\ owner' \in [Executions -> Suites \cup {Nothing}]
      /\ direct' \subseteq Executions
      /\ RowsKept /\ OwnersKept /\ RowsHold' /\ Store!RegisteredAsPrepared'
      /\ suites'[job[t].suite] = row /\ \A s \in Suites \ {job[t].suite}: suites'[s] = suites[s]
      /\ CasesAfter(job[t].suite) = job[t].cases
      /\ \A s \in Suites \ {job[t].suite}: CasesAfter(s) = Store!CasesOf(s)
      /\ job[t].cases \cap direct = {}
  BY <1>3, <1>4, Inserted
<1>6. /\ place' \in [Threads -> Places] /\ place'[t] = "reading"
      /\ \A u \in Threads \ {t}: place'[u] = place[u] /\ job'[u] = job[u]
  BY <1>4 DEF SuiteInv, Typed, Places
<1>7. Typed'
  BY <1>4, <1>5, <1>6 DEF SuiteInv, Typed
<1>8. \A u \in Threads \ {t}: JobHolds(u)' /\ (Prepares(u) => job[u].suite # job[t].suite)
  BY <1>2, <1>4, <1>5, <1>6, OthersInsert
<1>9. JobHolds(t)'
  BY <1>2, <1>3, <1>4, <1>5, <1>6 DEF JobHolds, Prepares
<1>10. PreparesAlone'
  <2>1. \A u \in Threads \ {t}: Prepares(u)' => job[u].suite # job[t].suite
    BY <1>6, <1>8 DEF Prepares
  <2>2. \A u, v \in Threads \ {t}: Prepares(u)' /\ Prepares(v)' /\ job[u].suite = job[v].suite => u = v
    BY <1>6 DEF SuiteInv, PreparesAlone, Prepares
  <2> QED BY <1>4, <2>1, <2>2 DEF PreparesAlone
<1>11. Store!WholeSuites'
  <2>1. ~(job[t].cases \subseteq direct)
    <3>1. job[t].cases # {}
      BY <1>2, FS_EmptySet DEF Contracted
    <3> QED BY <1>5, <3>1
  <2>2. Cardinality(CasesAfter(job[t].suite)) = Cases /\ suites'[job[t].suite].state # "absent"
    BY <1>2, <1>3, <1>5
  <2>3. \A s \in Suites \ {job[t].suite}:
          Cardinality(CasesAfter(s)) = IF suites'[s].state = "absent" THEN 0
                                       ELSE IF CasesAfter(s) \subseteq direct' THEN 1 ELSE Cases
    BY <1>4, <1>5, SameCount DEF SuiteInv, Store!WholeSuites
  <2>4. \A s \in Suites: Cardinality(CasesAfter(s)) = IF suites'[s].state = "absent" THEN 0
                                                    ELSE IF CasesAfter(s) \subseteq direct' THEN 1 ELSE Cases
    BY <1>4, <1>5, <2>1, <2>2, <2>3
  <2> QED BY <2>4, SameCount DEF Store!WholeSuites, CasesAfter, Store!CasesOf
<1> QED BY <1>5, <1>7, <1>8, <1>9, <1>10, <1>11 DEF SuiteInv, JobsHold

LEMMA InsertDirectKeeps ==
  ASSUME Contracted, SuiteInv, NEW t \in Threads, Store!InsertDirect(t)
  PROVE  SuiteInv'
<1> DEFINE row == [state |-> "prepared", started |-> job[t].started, prepared |-> job[t].started,
                   snapshot |-> job[t].snapshot]
<1>1. /\ job[t] \in Jobs /\ job[t].suite \in Suites /\ job[t].snapshot # Nothing
      /\ \E e \in Executions: job[t].cases = {e}
  BY DEF SuiteInv, Typed, JobsHold, JobHolds, Store!InsertDirect
<1>2. row \in SuiteRows /\ row.state = "prepared" /\ row.snapshot # Nothing
  BY <1>1 DEF SuiteRows, SuiteStates, Jobs
<1>3. /\ place[t] = "inserting_direct" /\ Store!Insertable(t) /\ suites' = [suites EXCEPT ![job[t].suite] = row]
      /\ owner' = Store!Owned(t) /\ direct' = direct \cup job[t].cases /\ Store!Return(t)
      /\ UNCHANGED <<now, resource, registered>>
  BY DEF Store!InsertDirect
<1> HIDE DEF row
<1>4. /\ suites' \in [Suites -> SuiteRows] /\ owner' \in [Executions -> Suites \cup {Nothing}]
      /\ direct' \subseteq Executions
      /\ RowsKept /\ OwnersKept /\ RowsHold' /\ Store!RegisteredAsPrepared'
      /\ suites'[job[t].suite] = row /\ \A s \in Suites \ {job[t].suite}: suites'[s] = suites[s]
      /\ CasesAfter(job[t].suite) = job[t].cases
      /\ \A s \in Suites \ {job[t].suite}: CasesAfter(s) = Store!CasesOf(s)
      /\ \A s \in Suites \ {job[t].suite}: Store!CasesOf(s) \subseteq direct' <=> Store!CasesOf(s) \subseteq direct
  BY <1>2, <1>3, Inserted
<1>5. /\ place' \in [Threads -> Places] /\ job' \in [Threads -> Jobs]
      /\ place'[t] = "idle" /\ job'[t] = Store!NoJob
      /\ \A u \in Threads \ {t}: place'[u] = place[u] /\ job'[u] = job[u]
  BY <1>3, ReturnTypes
<1>6. Typed'
  BY <1>3, <1>4, <1>5 DEF SuiteInv, Typed
<1>7. \A u \in Threads \ {t}: JobHolds(u)'
  BY <1>1, <1>3, <1>4, <1>5, OthersInsert
<1>8. JobHolds(t)' /\ ~Prepares(t)'
  BY <1>5, IdleHolds
<1>9. PreparesAlone'
  BY <1>5, <1>8, AloneKept
<1>10. Store!WholeSuites'
  <2>1. Cardinality(CasesAfter(job[t].suite)) = 1
    BY <1>1, <1>4, FS_Singleton
  <2>2. CasesAfter(job[t].suite) \subseteq direct' /\ suites'[job[t].suite].state # "absent"
    BY <1>2, <1>3, <1>4
  <2>3. \A s \in Suites \ {job[t].suite}:
          Cardinality(CasesAfter(s)) = IF suites'[s].state = "absent" THEN 0
                                       ELSE IF CasesAfter(s) \subseteq direct' THEN 1 ELSE Cases
    BY <1>4, SameCount DEF SuiteInv, Store!WholeSuites
  <2>4. \A s \in Suites: Cardinality(CasesAfter(s)) = IF suites'[s].state = "absent" THEN 0
                                                    ELSE IF CasesAfter(s) \subseteq direct' THEN 1 ELSE Cases
    BY <2>1, <2>2, <2>3
  <2> QED BY <2>4, SameCount DEF Store!WholeSuites, CasesAfter, Store!CasesOf
<1> QED BY <1>4, <1>6, <1>7, <1>8, <1>9, <1>10 DEF SuiteInv, JobsHold

-----------------------------------------------------------------------------
(* The publication and its failure. *)

\* Only a suite that is being prepared is written, by the only thread that prepares it.
LEMMA Rewritten ==
  ASSUME Contracted, SuiteInv, NEW t \in Threads, Prepares(t), NEW row \in SuiteRows,
         row.state \in {"prepared", "error"}, row.state = "prepared" => row.snapshot # Nothing,
         suites' = [suites EXCEPT ![job[t].suite] = row], Store!Return(t),
         UNCHANGED <<now, resource, owner, direct, registered>>
  PROVE  SuiteInv'
<1>1. job[t].suite \in Suites /\ suites[job[t].suite].state = "preparing"
  BY DEF SuiteInv, JobsHold, JobHolds, Prepares
<1>2. /\ suites' \in [Suites -> SuiteRows] /\ suites'[job[t].suite] = row
      /\ \A s \in Suites \ {job[t].suite}: suites'[s] = suites[s]
  BY <1>1 DEF SuiteInv, Typed
<1>3. /\ place' \in [Threads -> Places] /\ job' \in [Threads -> Jobs]
      /\ place'[t] = "idle" /\ job'[t] = Store!NoJob
      /\ \A u \in Threads \ {t}: place'[u] = place[u] /\ job'[u] = job[u]
  BY ReturnTypes
<1>4. Typed'
  BY <1>2, <1>3 DEF SuiteInv, Typed
<1>5. RowsKept /\ OwnersKept
  BY <1>1, <1>2 DEF RowsKept, OwnersKept
<1>6. Store!RegisteredAsPrepared'
  BY <1>5, RegisteredKept
<1>7. \A s \in Suites: /\ Store!CasesOf(s)' = Store!CasesOf(s)
                         /\ (suites'[s].state = "absent" <=> suites[s].state = "absent")
  BY <1>1, <1>2 DEF Store!CasesOf
<1>8. Store!WholeSuites'
  BY <1>7 DEF SuiteInv, Store!WholeSuites
<1>9. RowsHold'
  BY <1>2, <1>7 DEF SuiteInv, RowsHold
<1>10. JobHolds(t)' /\ ~Prepares(t)'
  BY <1>3, IdleHolds
<1>11. PreparesAlone'
  BY <1>3, <1>10, AloneKept
<1>12. ASSUME NEW u \in Threads \ {t}
       PROVE  JobHolds(u)'
  <2>1. Prepares(u) => job[u].suite \in Suites \ {job[t].suite}
    BY DEF SuiteInv, JobsHold, JobHolds, PreparesAlone, Prepares
  <2> QED BY <1>2, <1>3, <1>5, <2>1, OthersKnow
<1> QED BY <1>4, <1>6, <1>8, <1>9, <1>10, <1>11, <1>12 DEF SuiteInv, JobsHold

LEMMA PublishedRow ==
  ASSUME Contracted, SuiteInv, NEW t \in Threads, place[t] = "publishing"
  PROVE  /\ Store!Published(t) \in SuiteRows /\ Store!Published(t).state = "prepared"
         /\ Store!Published(t).snapshot = job[t].snapshot
<1>1. job[t].suite \in Suites /\ job[t] \in Jobs
  BY DEF SuiteInv, Typed, JobsHold, JobHolds
<1>2. suites[job[t].suite] \in SuiteRows /\ now \in 0..MaxTime /\ job[t].snapshot \in Snapshots \cup {Nothing}
  BY <1>1 DEF SuiteInv, Typed, Store!Times, Contracted, Jobs
<1>3. Store!Published(t) = Prepared(suites[job[t].suite], now, job[t].snapshot)
  BY DEF Store!Published, Prepared
<1> QED BY <1>2, <1>3, RowPrepared

LEMMA NoteSnapshot ==
  ASSUME Contracted, SuiteInv, NEW t \in Threads, NEW snapshot \in Snapshots \cup {Nothing},
         job' = [job EXCEPT ![t].snapshot = snapshot]
  PROVE  /\ job' \in [Threads -> Jobs] /\ job'[t].suite = job[t].suite /\ job'[t].snapshot = snapshot
         /\ \A u \in Threads \ {t}: job'[u] = job[u]
<1>1. job \in [Threads -> Jobs] /\ job[t] \in Jobs
  BY DEF SuiteInv, Typed
<1> DEFINE new == [job[t] EXCEPT !.snapshot = snapshot]
<1>2. new \in Jobs /\ new.suite = job[t].suite /\ new.snapshot = snapshot
  BY <1>1 DEF Jobs
<1>3. job' = [job EXCEPT ![t] = new]
  BY <1>1
<1> HIDE DEF new
<1> QED BY <1>1, <1>2, <1>3

LEMMA MovedOn ==
  ASSUME Contracted, SuiteInv, NEW t \in Threads, Prepares(t), NEW label \in {"publishing", "failing"},
         NEW snapshot \in Snapshots \cup {Nothing}, label = "publishing" => snapshot # Nothing,
         place' = [place EXCEPT ![t] = label],
         job' \in [Threads -> Jobs], job'[t].suite = job[t].suite, job'[t].snapshot = snapshot,
         \A u \in Threads \ {t}: job'[u] = job[u], UNCHANGED <<now, resource, Store!tables>>
  PROVE  SuiteInv'
<1>1. place' \in [Threads -> Places] /\ place'[t] = label /\ \A u \in Threads \ {t}: place'[u] = place[u]
  BY DEF SuiteInv, Typed, Places
<1>2. Typed'
  BY <1>1 DEF SuiteInv, Typed, Store!tables
<1>3. RowsHold' /\ Store!WholeSuites' /\ RowsKept /\ OwnersKept
  BY TablesKept DEF Store!tables
<1>4. Store!RegisteredAsPrepared'
  BY <1>3, RegisteredKept DEF Store!tables
<1>5. PreparesAlone'
  BY <1>1, AloneKept
<1>6. ASSUME NEW u \in Threads \ {t}
      PROVE  JobHolds(u)'
  BY <1>1, <1>3, OthersKnow DEF Store!tables
<1>7. JobHolds(t)'
  <2>1. job[t].suite \in Suites /\ suites'[job[t].suite].state = "preparing"
    BY DEF SuiteInv, JobsHold, JobHolds, Prepares, Store!tables
  <2> QED BY <1>1, <2>1 DEF JobHolds, Prepares
<1> QED BY <1>2, <1>3, <1>4, <1>5, <1>6, <1>7 DEF SuiteInv, JobsHold

LEMMA ReadKeeps ==
  ASSUME Contracted, SuiteInv, NEW t \in Threads, Store!ReadResource(t)
  PROVE  SuiteInv'
<1> DEFINE label == IF resource = Nothing THEN "failing" ELSE "publishing"
<1>1. Prepares(t) /\ label \in {"publishing", "failing"} /\ (label = "publishing" => resource # Nothing)
  BY DEF Store!ReadResource, Prepares
<1>2. /\ place' = [place EXCEPT ![t] = label] /\ job' = [job EXCEPT ![t].snapshot = resource]
      /\ UNCHANGED <<now, resource, Store!tables>> /\ resource \in Snapshots \cup {Nothing}
  BY DEF Store!ReadResource, Store!Goto, SuiteInv, Typed
<1>3. /\ job' \in [Threads -> Jobs] /\ job'[t].suite = job[t].suite /\ job'[t].snapshot = resource
      /\ \A u \in Threads \ {t}: job'[u] = job[u]
  BY <1>2, NoteSnapshot
<1> HIDE DEF label
<1> QED BY <1>1, <1>2, <1>3, MovedOn

LEMMA PublishKeeps ==
  ASSUME Contracted, SuiteInv, NEW t \in Threads, Store!Publish(t)
  PROVE  SuiteInv'
<1>1. /\ place[t] = "publishing" /\ Prepares(t)
      /\ job[t].snapshot # Nothing /\ job[t].snapshot \in Snapshots \cup {Nothing}
  BY DEF Store!Publish, Prepares, SuiteInv, Typed, Jobs, JobsHold, JobHolds
<1>2. CASE Store!InTime(t)
  BY <1>1, <1>2, PublishedRow, Rewritten DEF Store!Publish
<1>3. CASE ~Store!InTime(t)
  <2>1. place' = [place EXCEPT ![t] = "failing"] /\ job' = job /\ UNCHANGED <<now, resource, Store!tables>>
    BY <1>3 DEF Store!Publish, Store!Goto, Store!tables
  <2>2. job' \in [Threads -> Jobs]
    BY <2>1 DEF SuiteInv, Typed
  <2> QED BY <1>1, <2>1, <2>2, MovedOn
<1> QED BY <1>2, <1>3

LEMMA FailKeeps ==
  ASSUME Contracted, SuiteInv, NEW t \in Threads, Store!Fail(t)
  PROVE  SuiteInv'
<1> DEFINE s == job[t].suite
<1> DEFINE row == [suites[s] EXCEPT !.state = "error"]
<1>1. Prepares(t) /\ s \in Suites /\ suites[s] \in SuiteRows
  BY DEF Store!Fail, Prepares, SuiteInv, Typed, JobsHold, JobHolds
<1>2. row \in SuiteRows /\ row.state = "error"
  BY <1>1 DEF SuiteRows, SuiteStates
<1>3. /\ suites' = [suites EXCEPT ![s] = row] /\ Store!Return(t)
      /\ UNCHANGED <<now, resource, owner, direct, registered>>
  BY DEF Store!Fail
<1> HIDE DEF row
<1> QED BY <1>1, <1>2, <1>3, Rewritten

-----------------------------------------------------------------------------
(* The registration. *)

LEMMA CompareKeeps ==
  ASSUME Contracted, SuiteInv, NEW t \in Threads, Store!Compare(t)
  PROVE  SuiteInv'
<1>1. /\ place[t] = "comparing" /\ resource = job[t].snapshot /\ job' = [job EXCEPT ![t].snapshot = resource]
      /\ place' = [place EXCEPT ![t] = "registering"] /\ UNCHANGED <<now, resource, Store!tables>>
  BY DEF Store!Compare, Store!SameResources, Store!Goto
<1>2. job' = job
  <2>1. job \in [Threads -> Jobs] /\ job[t] \in Jobs
    BY DEF SuiteInv, Typed
  <2>2. [job[t] EXCEPT !.snapshot = resource] = job[t]
    BY <1>1, <2>1 DEF Jobs
  <2> QED BY <1>1, <2>1, <2>2
<1>3. place' \in [Threads -> Places] /\ place'[t] = "registering" /\ \A u \in Threads \ {t}: place'[u] = place[u]
  BY <1>1 DEF SuiteInv, Typed, Places
<1>4. Typed'
  BY <1>1, <1>2, <1>3 DEF SuiteInv, Typed, Store!tables
<1>5. RowsHold' /\ Store!WholeSuites' /\ RowsKept /\ OwnersKept
  BY <1>1, TablesKept DEF Store!tables
<1>6. Store!RegisteredAsPrepared'
  BY <1>1, <1>5, RegisteredKept DEF Store!tables
<1>7. ~Prepares(t)'
  BY <1>3 DEF Prepares
<1>8. PreparesAlone'
  BY <1>2, <1>3, <1>7, AloneKept
<1>9. ASSUME NEW u \in Threads \ {t}
      PROVE  JobHolds(u)'
  BY <1>1, <1>2, <1>3, <1>5, OthersKnow DEF Store!tables
<1>10. JobHolds(t)'
  <2>1. JobHolds(t)
    BY DEF SuiteInv, JobsHold
  <2> QED BY <1>1, <1>2, <1>3, <2>1 DEF JobHolds, Prepares, Store!tables
<1> QED BY <1>4, <1>5, <1>6, <1>8, <1>9, <1>10 DEF SuiteInv, JobsHold

LEMMA RegisterKeeps ==
  ASSUME Contracted, SuiteInv, NEW t \in Threads, Store!Register(t)
  PROVE  SuiteInv'
<1>1. place[t] = "registering" /\ Store!Return(t) /\ UNCHANGED <<now, resource, suites, owner, direct>>
  BY DEF Store!Register
<1>2. /\ place' \in [Threads -> Places] /\ job' \in [Threads -> Jobs]
      /\ place'[t] = "idle" /\ job'[t] = Store!NoJob
      /\ \A u \in Threads \ {t}: place'[u] = place[u] /\ job'[u] = job[u]
  BY <1>1, ReturnTypes
<1>3. /\ job[t].suite \in Suites /\ suites[job[t].suite].state = "prepared"
      /\ job[t].snapshot = suites[job[t].suite].snapshot
      /\ \A e \in job[t].cases: owner[e] = job[t].suite
  BY <1>1 DEF SuiteInv, JobsHold, JobHolds
<1> DEFINE new == [suite |-> job[t].suite, snapshot |-> job[t].snapshot]
<1>4. registered' = [e \in Executions |->
                     IF e \in job[t].cases /\ registered[e].suite = Nothing THEN new ELSE registered[e]]
  BY DEF Store!Register
<1>5. new \in Registrations /\ new.suite = job[t].suite /\ new.snapshot = job[t].snapshot
  BY <1>3 DEF Registrations, SuiteInv, Typed, Jobs
<1> HIDE DEF new
<1>6. registered' \in [Executions -> Registrations]
  BY <1>4, <1>5 DEF SuiteInv, Typed
<1>7. Typed'
  BY <1>1, <1>2, <1>6 DEF SuiteInv, Typed
<1>8. RowsHold' /\ Store!WholeSuites' /\ RowsKept /\ OwnersKept
  BY <1>1, TablesKept
<1>9. Store!RegisteredAsPrepared'
  <2> SUFFICES ASSUME NEW e \in Executions, registered'[e].suite # Nothing
               PROVE  /\ owner[e] = registered'[e].suite
                      /\ suites[registered'[e].suite].state = "prepared"
                      /\ registered'[e].snapshot = suites[registered'[e].suite].snapshot
    BY <1>1 DEF Store!RegisteredAsPrepared
  <2>1. CASE e \in job[t].cases /\ registered[e].suite = Nothing
    BY <1>3, <1>4, <1>5, <2>1
  <2>2. CASE ~(e \in job[t].cases /\ registered[e].suite = Nothing)
    BY <1>4, <2>2 DEF SuiteInv, Store!RegisteredAsPrepared
  <2> QED BY <2>1, <2>2
<1>10. JobHolds(t)' /\ ~Prepares(t)'
  BY <1>2, IdleHolds
<1>11. PreparesAlone'
  BY <1>2, <1>10, AloneKept
<1>12. ASSUME NEW u \in Threads \ {t}
       PROVE  JobHolds(u)'
  BY <1>1, <1>2, <1>8, OthersKnow
<1> QED BY <1>7, <1>8, <1>9, <1>10, <1>11, <1>12 DEF SuiteInv, JobsHold

-----------------------------------------------------------------------------
(* What else may happen. *)

LEMMA CrashKeeps ==
  ASSUME Contracted, SuiteInv, Store!Crash
  PROVE  SuiteInv'
<1>1. \A t \in Threads: place'[t] = "idle" /\ job'[t] = Store!NoJob
  BY DEF Store!Crash
<1>2. UNCHANGED <<now, resource, suites, owner, direct, registered>>
  BY DEF Store!Crash, Store!tables
<1>3. place' \in [Threads -> Places] /\ job' \in [Threads -> Jobs]
  <2>1. Store!NoJob \in Jobs /\ "idle" \in Places
    BY DEF Store!NoJob, Jobs, Contracted, Places
  <2> QED BY <2>1 DEF Store!Crash
<1>4. Typed'
  BY <1>2, <1>3 DEF SuiteInv, Typed
<1>5. RowsHold' /\ Store!WholeSuites' /\ RowsKept /\ OwnersKept
  BY <1>2, TablesKept
<1>6. Store!RegisteredAsPrepared'
  BY <1>2, <1>5, RegisteredKept
<1>7. \A t \in Threads: JobHolds(t)' /\ ~Prepares(t)'
  BY <1>1, IdleHolds
<1> QED BY <1>4, <1>5, <1>6, <1>7 DEF SuiteInv, JobsHold, PreparesAlone

LEMMA OutsideKeeps ==
  ASSUME Contracted, SuiteInv, Store!Tick \/ Store!ChangeResource \/ UNCHANGED Store!vars
  PROVE  SuiteInv'
<1>1. UNCHANGED <<suites, owner, direct, registered, place, job>>
  BY DEF Store!Tick, Store!ChangeResource, Store!vars, Store!tables
<1>2. Typed'
  BY <1>1 DEF SuiteInv, Typed, Store!Tick, Store!ChangeResource, Store!vars
<1>3. RowsHold' /\ Store!WholeSuites' /\ RowsKept /\ OwnersKept
  BY <1>1, TablesKept
<1>4. Store!RegisteredAsPrepared'
  BY <1>1, <1>3, RegisteredKept
<1>5. \A t \in Threads: JobHolds(t)'
  BY <1>1, <1>3, OthersKnow
<1>6. PreparesAlone'
  BY <1>1 DEF SuiteInv, PreparesAlone, Prepares
<1> QED BY <1>2, <1>3, <1>4, <1>5, <1>6 DEF SuiteInv, JobsHold

-----------------------------------------------------------------------------
(* The theorems. *)

\* The inductive invariant: a suite that is being prepared has one thread, a prepared one does not change,
\* and a thread that registers has the snapshot of a prepared suite that owns its execution.
THEOREM SuiteInductive ==
  ASSUME Contracted PROVE Store!Spec => []SuiteInv
<1>1. Store!Init => SuiteInv
  <2> SUFFICES ASSUME Store!Init PROVE SuiteInv
    OBVIOUS
  <2>1. /\ Store!NoJob \in Jobs /\ Store!NoRow \in SuiteRows /\ "idle" \in Places
        /\ [suite |-> Nothing, snapshot |-> Nothing] \in Registrations
    BY DEF Store!NoJob, Jobs, Store!NoRow, SuiteRows, SuiteStates, Places, Registrations, Contracted
  <2>2. Typed
    BY <2>1 DEF Store!Init, Typed
  <2>3. \A s \in Suites: suites[s].state = "absent" /\ Store!CasesOf(s) = {}
    BY DEF Store!Init, Store!NoRow, Store!CasesOf, Contracted
  <2>4. RowsHold /\ Store!WholeSuites
    <3>1. Cardinality({}) = 0
      BY FS_EmptySet
    <3> QED BY <2>3, <3>1, SameCount DEF RowsHold, Store!WholeSuites, Store!Init
  <2>5. Store!RegisteredAsPrepared
    BY DEF Store!Init, Store!RegisteredAsPrepared
  <2>6. \A t \in Threads: JobHolds(t) /\ ~Prepares(t)
    BY DEF Store!Init, JobHolds, Prepares
  <2> QED BY <2>2, <2>4, <2>5, <2>6 DEF SuiteInv, PreparesAlone, JobsHold
<1>2. SuiteInv /\ [Store!Next]_(Store!vars) => SuiteInv'
  <2> SUFFICES ASSUME SuiteInv, [Store!Next]_(Store!vars) PROVE SuiteInv'
    OBVIOUS
  <2>1. ASSUME NEW t \in Threads, NEW s \in Suites, NEW E \in SUBSET Executions,
         Store!Prepare(t, s, E)
        PROVE  SuiteInv'
    BY <2>1, PrepareKeeps
  <2>2. ASSUME NEW t \in Threads, NEW s \in Suites, NEW e \in Executions,
               Store!PrepareDirect(t, s, e) \/ Store!Lookup(t, s, e)
        PROVE  SuiteInv'
    BY <2>2, PrepareDirectKeeps, LookupKeeps
  <2>3. ASSUME NEW t \in Threads, Store!Step(t)
        PROVE  SuiteInv'
    <3>1. CASE Store!Insert(t) \/ Store!InsertDirect(t)
      BY <3>1, InsertKeeps, InsertDirectKeeps
    <3>2. CASE Store!InsertRefused(t) \/ Store!CompareRefused(t)
      BY <3>2, RefusedKeeps DEF Store!InsertRefused, Store!CompareRefused
    <3>3. CASE Store!ReadResource(t) \/ Store!Publish(t) \/ Store!Fail(t)
      BY <3>3, ReadKeeps, PublishKeeps, FailKeeps
    <3>4. CASE Store!Compare(t) \/ Store!Register(t)
      BY <3>4, CompareKeeps, RegisterKeeps
    <3> QED BY <2>3, <3>1, <3>2, <3>3, <3>4 DEF Store!Step
  <2>4. CASE Store!Crash
    BY <2>4, CrashKeeps
  <2>5. CASE Store!Tick \/ Store!ChangeResource \/ UNCHANGED Store!vars
    BY <2>5, OutsideKeeps
  <2> QED BY <2>1, <2>2, <2>3, <2>4, <2>5 DEF Store!Next
<1> QED BY <1>1, <1>2, PTL DEF Store!Spec

\* However preparations, failures, registrations and crashes interleave, a suite has all its cases or none,
\* and every registered execution is a case of a prepared suite and has that suite's resources
\* (p04_suites.py, prepare and lookup).
THEOREM SuitesWhole ==
  ASSUME Contracted PROVE Store!Spec => []Store!SuitesHold
<1>1. SuiteInv => Store!SuitesHold
  BY DEF SuiteInv, Store!SuitesHold
<1> QED BY <1>1, SuiteInductive, PTL

\* The tables and the threads' variables keep their types.
THEOREM SuiteTypeOK ==
  ASSUME Contracted PROVE Store!Spec => []Store!TypeOK
<1>1. SuiteInv => Store!TypeOK
  <2> SUFFICES ASSUME SuiteInv PROVE Store!TypeOK
    OBVIOUS
  <2>1. \A t \in Threads: job[t] = Store!NoJob <=> place[t] = "idle"
    <3> SUFFICES ASSUME NEW t \in Threads PROVE job[t] = Store!NoJob <=> place[t] = "idle"
      OBVIOUS
    <3>1. IF place[t] = "idle" THEN job[t] = Store!NoJob ELSE job[t].suite \in Suites
      BY DEF SuiteInv, JobsHold, JobHolds
    <3>2. Store!NoJob.suite = Nothing
      BY DEF Store!NoJob
    <3> QED BY <3>1, <3>2 DEF Contracted
  <2> QED BY <2>1 DEF SuiteInv, Typed, RowsHold, Store!TypeOK, SuiteRows, SuiteStates, Registrations, Places
<1> QED BY <1>1, SuiteInductive, PTL

===============================================================================

--------------------------- MODULE OutputQuotaProofs ---------------------------
(***************************************************************************)
(* Proofs about OutputQuota, for any number of threads and reservations,   *)
(* any policy, and a clock that may be set to any window; and about        *)
(* PolicyPromotion, for any suites, policy files and number of cases.      *)
(***************************************************************************)
EXTENDS OutputQuota, Sequences, FiniteSetTheorems, SequenceTheorems, TLAPS

Kept == [window: Windows, reserved: 1..MaxRequest, output: Tokens \cup {Unset},
         outcome: {"pending", "complete", "uncertain"}]

-----------------------------------------------------------------------------
(* The inductive invariant. *)

Holding(t) == pc[t] \in {"call", "settle", "uncertain"}

\* A request that has a reservation is the only one that has it, and its row is pending.
Exclusive == \A t, u \in Threads: Holding(t) /\ Holding(u) /\ t # u
                                  => job[t].reservation # job[u].reservation
Pending == \A t \in Threads: Holding(t) => admissions[job[t].reservation].outcome = "pending"

\* What a request brings to its place.
Prepared == \A t \in Threads: pc[t] = "admit" => job[t].window \in Windows /\ job[t].tokens \in 1..MaxRequest
Answered == \A t \in Threads: pc[t] = "settle" =>
              job[t].usage = spent[job[t].reservation] /\ job[t].usage \in Tokens

\* A row without output is charged what it reserved; one with output is complete.
Accounted == \A r \in Reservations: /\ admissions[r] = NoRow => spent[r] = 0
                                    /\ admissions[r].output # Unset => /\ admissions[r].outcome = "complete"
                                                                       /\ spent[r] = admissions[r].output

Capped == \A w \in Windows: IsFiniteSet(RowsOf(w)) /\ Cardinality(RowsOf(w)) <= Requests

Owners == Exclusive /\ Pending /\ Prepared /\ Answered /\ Accounted
IInv == TypeOK /\ Owners /\ Capped

-----------------------------------------------------------------------------
(* Types. *)

LEMMA Numbers == /\ MaxRequest \in Nat \ {0} /\ Requests \in Nat \ {0} /\ MaxWindow \in Nat \ {0}
                 /\ 1 \in Windows /\ 0 \notin Windows /\ Unset \notin Tokens
                 /\ Tokens \subseteq Nat /\ Windows \subseteq Nat
  BY PolicyAssumption DEF Windows, Tokens, Unset

LEMMA NewJobType == \A w \in Windows \cup {0}, n \in 0..MaxRequest: NewJob(w, n) \in Jobs
  BY DEF NewJob, Jobs

LEMMA NoJobType == NoJob \in Jobs
  BY NewJobType, Numbers DEF NoJob

LEMMA RowShape == Rows = Kept \cup {NoRow}
  BY DEF Rows, Kept

\* The updates made to a row leave a row.
LEMMA RowUpdates ==
  ASSUME NEW row \in Rows, row.outcome = "pending", NEW n \in Tokens
  PROVE  /\ row \in Kept
         /\ [row EXCEPT !.output = n, !.outcome = "complete"] \in Kept
         /\ [row EXCEPT !.outcome = "uncertain"] \in Kept
<1>1. row \in Kept  BY RowShape DEF NoRow
<1> QED BY <1>1 DEF Kept

LEMMA InitType == Init => TypeOK
<1> SUFFICES ASSUME Init PROVE TypeOK  OBVIOUS
<1>1. admissions \in [Reservations -> Rows]  BY RowShape DEF Init
<1>2. job \in [Threads -> Jobs]  BY NoJobType DEF Init
<1>3. spent \in [Reservations -> Tokens]  BY Numbers DEF Init, Tokens
<1> QED BY <1>1, <1>2, <1>3, Numbers DEF Init, TypeOK

\* A request's step keeps the types.
LEMMA StepType ==
  ASSUME TypeOK, Owners, NEW t \in Threads, Step(t)
  PROVE  TypeOK'
<1> USE DEF TypeOK
<1>0. job[t] \in Jobs /\ NoJob \in Jobs  BY NoJobType
<1>1. CASE ReadWindow(t)
  <2> PICK n \in 1..MaxRequest: job' = [job EXCEPT ![t] = NewJob(now, n)]
    BY <1>1 DEF ReadWindow
  <2>1. NewJob(now, n) \in Jobs
    BY NewJobType, Numbers
  <2>2. job' \in [Threads -> Jobs]  BY <2>1
  <2> QED BY <1>1, <2>2 DEF ReadWindow
<1>2. CASE Deny(t)
  BY <1>2, <1>0 DEF Deny
<1>3. CASE Converse(t)
  <2> PICK n \in Tokens, known \in BOOLEAN:
        /\ pc[t] = "call"
        /\ spent' = [spent EXCEPT ![job[t].reservation] = n]
        /\ job' = [job EXCEPT ![t].usage = IF known THEN n ELSE Unset]
        /\ pc' = [pc EXCEPT ![t] = IF known THEN "settle" ELSE "uncertain"]
        /\ UNCHANGED <<now, admissions>>
    BY <1>3 DEF Converse
  <2> DEFINE u == IF known THEN n ELSE Unset
  <2>1. [job[t] EXCEPT !.usage = u] \in Jobs /\ [job[t] EXCEPT !.usage = u].reservation = job[t].reservation
    BY <1>0 DEF Jobs
  <2>2. job' \in [Threads -> Jobs] /\ \A v \in Threads: job'[v].reservation = job[v].reservation
    BY <2>1
  <2>3. spent' \in [Reservations -> Tokens]  OBVIOUS
  <2> QED BY <2>2, <2>3
<1>4. CASE Settle(t)
  <2> DEFINE r == job[t].reservation
  <2>1. CASE admissions[r].outcome = "pending" /\ job[t].usage <= admissions[r].reserved
    <3>1. r \in Reservations /\ admissions[r] \in Rows /\ job[t].usage \in Tokens
      BY <1>4 DEF Settle, Owners, Answered
    <3>2. [admissions[r] EXCEPT !.output = job[t].usage, !.outcome = "complete"] \in Rows
      BY <3>1, <2>1, RowUpdates, RowShape
    <3>3. admissions' \in [Reservations -> Rows]
      BY <1>4, <2>1, <3>1, <3>2 DEF Settle
    <3> QED BY <1>4, <2>1, <3>3, <1>0 DEF Settle
  <2>2. CASE ~(admissions[r].outcome = "pending" /\ job[t].usage <= admissions[r].reserved)
    BY <1>4, <2>2 DEF Settle
  <2> QED BY <2>1, <2>2
<1>5. CASE Uncertain(t)
  <2>1. \A r \in Reservations: admissions'[r] \in Rows
    BY <1>5, RowUpdates, RowShape, Numbers DEF Uncertain, Tokens
  <2>2. admissions' \in [Reservations -> Rows]
    BY <1>5, <2>1 DEF Uncertain
  <2> QED BY <1>5, <2>2, <1>0 DEF Uncertain
<1>6. CASE \E r \in Reservations: Admit(t, r)
  <2> PICK r \in Reservations: Admit(t, r)  BY <1>6
  <2>1. [window |-> job[t].window, reserved |-> job[t].tokens, output |-> Unset, outcome |-> "pending"] \in Rows
    BY RowShape DEF Admit, Owners, Prepared, Kept
  <2>2. admissions' \in [Reservations -> Rows]
    BY <2>1 DEF Admit
  <2>3. [job[t] EXCEPT !.reservation = r] \in Jobs /\ [job[t] EXCEPT !.reservation = r].reservation = r
    BY <1>0 DEF Jobs
  <2>4. job' \in [Threads -> Jobs] /\ \A v \in Threads: job'[v].reservation = IF v = t THEN r ELSE job[v].reservation
    BY <2>3 DEF Admit
  <2> QED BY <2>2, <2>4 DEF Admit
<1> QED BY <1>1, <1>2, <1>3, <1>4, <1>5, <1>6 DEF Step

LEMMA NextType == IInv /\ [Next]_vars => TypeOK'
<1> SUFFICES ASSUME IInv, [Next]_vars PROVE TypeOK'  OBVIOUS
<1>1. CASE UNCHANGED vars
  BY <1>1 DEF IInv, TypeOK, vars
<1>2. CASE \E t \in Threads: Step(t)
  BY <1>2, StepType DEF IInv
<1>3. CASE Crash
  BY <1>3, NoJobType DEF Crash, IInv, TypeOK
<1>4. CASE Tick
  BY <1>4 DEF Tick, IInv, TypeOK
<1> QED BY <1>1, <1>2, <1>3, <1>4 DEF Next

-----------------------------------------------------------------------------
(* Who has a reservation, and what its row says. *)

LEMMA InitOwners == Init => Owners
  BY NoJobType, Numbers DEF Init, Owners, Exclusive, Pending, Prepared, Answered, Accounted, Holding, NoRow

\* A row that exists, and is charged to a window, is not the missing row.
LEMMA StepOwners ==
  ASSUME TypeOK, Owners, NEW t \in Threads, Step(t)
  PROVE  Owners'
<1> USE DEF TypeOK, Holding
<1> USE DEF Owners, Exclusive, Pending, Prepared, Answered, Accounted
<1>1. CASE ReadWindow(t)
  <2> PICK n \in 1..MaxRequest: job' = [job EXCEPT ![t] = NewJob(now, n)]
    BY <1>1 DEF ReadWindow
  <2> QED BY <1>1, Numbers DEF ReadWindow, NewJob
<1>2. CASE Deny(t)
  BY <1>2 DEF Deny
<1>3. CASE Converse(t)
  <2> PICK n \in Tokens, known \in BOOLEAN:
        /\ pc[t] = "call"
        /\ spent' = [spent EXCEPT ![job[t].reservation] = n]
        /\ job' = [job EXCEPT ![t].usage = IF known THEN n ELSE Unset]
        /\ pc' = [pc EXCEPT ![t] = IF known THEN "settle" ELSE "uncertain"]
        /\ UNCHANGED <<now, admissions>>
    BY <1>3 DEF Converse
  <2>1. \A v \in Threads: /\ job'[v].reservation = job[v].reservation
                          /\ v # t => job'[v] = job[v] /\ pc'[v] = pc[v]
    BY DEF Jobs
  <2>2. job[t].reservation \in Reservations /\ Holding(t) /\ Holding(t)'
    OBVIOUS
  <2>3. \A v \in Threads: Holding(v)' <=> Holding(v)  BY <2>1, <2>2
  <2>4. Exclusive' /\ Pending'  BY <2>1, <2>3
  <2>5. Prepared'  BY <2>1
  <2>6. Answered'
    <3> SUFFICES ASSUME NEW v \in Threads, pc'[v] = "settle"
                 PROVE  job'[v].usage = spent'[job'[v].reservation] /\ job'[v].usage \in Tokens
      OBVIOUS
    <3>1. CASE v = t
      <4>1. job'[t].usage = n /\ known  BY <3>1 DEF Jobs
      <4> QED BY <3>1, <4>1, <2>1, <2>2
    <3>2. CASE v # t
      <4>1. job[v].reservation # job[t].reservation  BY <3>2, <2>1, <2>2
      <4> QED BY <3>2, <4>1, <2>1
    <3> QED BY <3>1, <3>2
  <2>7. Accounted'
    BY <2>2 DEF NoRow
  <2> QED BY <2>4, <2>5, <2>6, <2>7
<1>4. CASE Settle(t)
  <2> DEFINE r == job[t].reservation
  <2>1. CASE admissions[r].outcome = "pending" /\ job[t].usage <= admissions[r].reserved
    <3>0. r \in Reservations /\ admissions[r] \in Rows /\ job[t].usage \in Tokens /\ job[t].usage = spent[r]
          /\ Holding(t)
      BY <1>4 DEF Settle
    <3>1. /\ admissions' = [admissions EXCEPT ![r].output = job[t].usage, ![r].outcome = "complete"]
          /\ pc' = [pc EXCEPT ![t] = "idle"] /\ job' = [job EXCEPT ![t] = NoJob] /\ spent' = spent
      BY <1>4, <2>1 DEF Settle
    <3>2. \A x \in Reservations: x # r => admissions'[x] = admissions[x]
      BY <3>1
    <3>3. admissions'[r] \in Kept /\ admissions'[r].outcome = "complete" /\ admissions'[r].output = job[t].usage
      <4>1. admissions[r] \in Kept  BY <3>0, <2>1, RowUpdates
      <4>2. admissions'[r] = [admissions[r] EXCEPT !.output = job[t].usage, !.outcome = "complete"]
        BY <3>0, <3>1
      <4> QED BY <4>1, <4>2, <3>0 DEF Kept
    <3>4. \A v \in Threads: /\ v # t => pc'[v] = pc[v] /\ job'[v] = job[v]
                            /\ Holding(v)' => v # t /\ job[v].reservation # r
      BY <3>0, <3>1
    <3>5. Exclusive' /\ Pending'  BY <3>2, <3>4
    <3>6. Prepared' /\ Answered'  BY <3>1, <3>4
    <3>7. Accounted'
      BY <3>0, <3>1, <3>2, <3>3 DEF Kept, NoRow
    <3> QED BY <3>5, <3>6, <3>7
  <2>2. CASE ~(admissions[r].outcome = "pending" /\ job[t].usage <= admissions[r].reserved)
    BY <1>4, <2>2 DEF Settle
  <2> QED BY <2>1, <2>2
<1>5. CASE Uncertain(t)
  <2> DEFINE r == job[t].reservation
  <2>0. r \in Reservations /\ Holding(t) /\ pc' = [pc EXCEPT ![t] = "idle"]
        /\ job' = [job EXCEPT ![t] = NoJob] /\ spent' = spent
    BY <1>5 DEF Uncertain
  <2>1. \A x \in Reservations: x # r => admissions'[x] = admissions[x]
    BY <1>5 DEF Uncertain
  <2>2. /\ admissions[r].outcome = "pending" /\ admissions[r] \in Kept
        /\ admissions'[r] = [admissions[r] EXCEPT !.outcome = "uncertain"]
    BY <1>5, <2>0, RowUpdates, Numbers DEF Uncertain, Tokens
  <2>3. admissions'[r].output = admissions[r].output /\ admissions'[r].outcome = "uncertain"
    BY <2>2 DEF Kept
  <2>4. \A v \in Threads: /\ v # t => pc'[v] = pc[v] /\ job'[v] = job[v]
                          /\ Holding(v)' => v # t /\ job[v].reservation # r
    BY <2>0
  <2>5. Exclusive' /\ Pending'  BY <2>1, <2>4
  <2>6. Prepared' /\ Answered'  BY <2>0, <2>4
  <2>7. Accounted'
    <3>1. admissions[r].output = Unset  BY <2>0, <2>2
    <3>2. admissions'[r] # NoRow /\ admissions'[r].output = Unset  BY <2>3, <3>1 DEF NoRow
    <3> QED BY <2>0, <2>1, <3>2
  <2> QED BY <2>5, <2>6, <2>7
<1>6. CASE \E r \in Reservations: Admit(t, r)
  <2> PICK r \in Reservations: Admit(t, r)  BY <1>6
  <2> DEFINE row == [window |-> job[t].window, reserved |-> job[t].tokens, output |-> Unset, outcome |-> "pending"]
  <2>1. \A x \in Reservations: admissions'[x] = IF x = r THEN row ELSE admissions[x]
    BY DEF Admit
  <2>2. /\ pc' = [pc EXCEPT ![t] = "call"] /\ spent' = spent /\ admissions[r] = NoRow
        /\ pc[t] = "admit"
    BY DEF Admit
  <2>3. \A v \in Threads: /\ v # t => job'[v] = job[v] /\ pc'[v] = pc[v]
                          /\ job'[t].reservation = r
    BY DEF Admit, Jobs
  <2>4. \A v \in Threads: Holding(v) => job[v].reservation # r /\ job[v].reservation \in Reservations
    BY <2>2 DEF NoRow
  <2>5. Exclusive' /\ Pending'  BY <2>1, <2>2, <2>3, <2>4
  <2>6. Prepared' /\ Answered'  BY <2>2, <2>3
  <2>7. Accounted'
    BY <2>1, <2>2 DEF NoRow
  <2> QED BY <2>5, <2>6, <2>7
<1> QED BY <1>1, <1>2, <1>3, <1>4, <1>5, <1>6 DEF Step

LEMMA NextOwners == TypeOK /\ Owners /\ [Next]_vars => Owners'
<1> SUFFICES ASSUME TypeOK, Owners, [Next]_vars PROVE Owners'  OBVIOUS
<1> USE DEF Owners, Exclusive, Pending, Prepared, Answered, Accounted, Holding
<1>1. CASE UNCHANGED vars
  BY <1>1 DEF vars
<1>2. CASE \E t \in Threads: Step(t)
  <2> PICK t \in Threads: Step(t)  BY <1>2
  <2> QED BY StepOwners
<1>3. CASE Crash
  BY <1>3 DEF Crash, TypeOK
<1>4. CASE Tick
  BY <1>4 DEF Tick, TypeOK
<1> QED BY <1>1, <1>2, <1>3, <1>4 DEF Next

-----------------------------------------------------------------------------
(* The windows of the rows. *)

\* Only an admission gives a row a window; it gives it to one that had none.
LEMMA WindowStep ==
  ASSUME TypeOK, Owners, [Next]_vars
  PROVE  \/ \A x \in Reservations: admissions'[x].window = admissions[x].window
         \/ \E t \in Threads, r \in Reservations:
              /\ Admit(t, r)
              /\ \A x \in Reservations:
                   admissions'[x].window = IF x = r THEN job[t].window ELSE admissions[x].window
<1> USE DEF TypeOK
<1>1. CASE UNCHANGED vars
  BY <1>1 DEF vars
<1>2. ASSUME NEW t \in Threads, Step(t)
      PROVE  \/ \A x \in Reservations: admissions'[x].window = admissions[x].window
             \/ \E r \in Reservations:
                  /\ Admit(t, r)
                  /\ \A x \in Reservations:
                       admissions'[x].window = IF x = r THEN job[t].window ELSE admissions[x].window
  <2>1. CASE ReadWindow(t) \/ Deny(t) \/ Converse(t)
    BY <2>1 DEF ReadWindow, Deny, Converse
  <2>2. CASE Settle(t)
    <3> DEFINE r == job[t].reservation
    <3>1. CASE admissions[r].outcome = "pending" /\ job[t].usage <= admissions[r].reserved
      <4>1. /\ r \in Reservations /\ job[t].usage \in Tokens
            /\ admissions' = [admissions EXCEPT ![r].output = job[t].usage, ![r].outcome = "complete"]
        BY <2>2, <3>1 DEF Settle, Owners, Answered
      <4>2. admissions[r] \in Kept  BY <3>1, <4>1, RowUpdates
      <4>3. admissions'[r] = [admissions[r] EXCEPT !.output = job[t].usage, !.outcome = "complete"]
        BY <4>1
      <4>4. admissions'[r].window = admissions[r].window  BY <4>2, <4>3 DEF Kept
      <4>5. \A x \in Reservations: x # r => admissions'[x] = admissions[x]  BY <4>1
      <4> QED BY <4>4, <4>5
    <3>2. CASE ~(admissions[r].outcome = "pending" /\ job[t].usage <= admissions[r].reserved)
      BY <2>2, <3>2 DEF Settle
    <3> QED BY <3>1, <3>2
  <2>3. CASE Uncertain(t)
    <3>1. ASSUME NEW x \in Reservations PROVE admissions'[x].window = admissions[x].window
      <4>1. CASE x = job[t].reservation /\ admissions[x].outcome = "pending"
        <5>1. admissions[x] \in Kept  BY <4>1, RowUpdates, Numbers DEF Tokens
        <5>2. admissions'[x] = [admissions[x] EXCEPT !.outcome = "uncertain"]
          BY <2>3, <4>1 DEF Uncertain
        <5> QED BY <5>1, <5>2 DEF Kept
      <4>2. CASE ~(x = job[t].reservation /\ admissions[x].outcome = "pending")
        BY <2>3, <4>2 DEF Uncertain
      <4> QED BY <4>1, <4>2
    <3> QED BY <3>1
  <2>4. CASE \E r \in Reservations: Admit(t, r)
    <3> PICK r \in Reservations: Admit(t, r)  BY <2>4
    <3>1. \A x \in Reservations: admissions'[x].window = IF x = r THEN job[t].window ELSE admissions[x].window
      BY DEF Admit
    <3> QED BY <3>1
  <2> QED BY <1>2, <2>1, <2>2, <2>3, <2>4 DEF Step
<1>3. CASE Crash \/ Tick
  BY <1>3 DEF Crash, Tick
<1> QED BY <1>1, <1>2, <1>3 DEF Next

LEMMA InitCapped == Init => Capped
<1> SUFFICES ASSUME Init, NEW w \in Windows PROVE IsFiniteSet(RowsOf(w)) /\ Cardinality(RowsOf(w)) <= Requests
  BY DEF Capped
<1>1. RowsOf(w) = {}  BY Numbers DEF Init, RowsOf, NoRow
<1> QED BY <1>1, FS_EmptySet, Numbers

LEMMA NextCapped == IInv /\ [Next]_vars => Capped'
<1> SUFFICES ASSUME IInv, [Next]_vars, NEW w \in Windows
             PROVE  IsFiniteSet(RowsOf(w)') /\ Cardinality(RowsOf(w)') <= Requests
  BY DEF Capped
<1>0. TypeOK /\ Owners /\ IsFiniteSet(RowsOf(w)) /\ Cardinality(RowsOf(w)) <= Requests
  BY DEF IInv, Capped
<1>1. CASE \A x \in Reservations: admissions'[x].window = admissions[x].window
  <2>1. RowsOf(w)' = RowsOf(w)  BY <1>1 DEF RowsOf
  <2> QED BY <1>0, <2>1
<1>2. ASSUME NEW t \in Threads, NEW r \in Reservations, Admit(t, r),
             \A x \in Reservations: admissions'[x].window = IF x = r THEN job[t].window ELSE admissions[x].window
      PROVE  IsFiniteSet(RowsOf(w)') /\ Cardinality(RowsOf(w)') <= Requests
  <2>1. admissions[r].window = 0  BY <1>2 DEF Admit, NoRow
  <2>2. CASE w # job[t].window
    <3>1. RowsOf(w)' = RowsOf(w)  BY <1>2, <2>1, <2>2, Numbers DEF RowsOf
    <3> QED BY <1>0, <3>1
  <2>3. CASE w = job[t].window
    <3>1. RowsOf(w)' = RowsOf(w) \cup {r} /\ r \notin RowsOf(w)
      BY <1>2, <2>1, <2>3, Numbers DEF RowsOf
    <3>2. Cardinality(RowsOf(w)) < Requests  BY <1>2, <2>3 DEF Admit, HasRoom
    <3>3. /\ IsFiniteSet(RowsOf(w) \cup {r})
          /\ Cardinality(RowsOf(w) \cup {r}) = Cardinality(RowsOf(w)) + 1
      BY <1>0, <3>1, FS_AddElement
    <3>4. Cardinality(RowsOf(w)) \in Nat  BY <1>0, FS_CardinalityType
    <3> QED BY <3>1, <3>2, <3>3, <3>4, Numbers
  <2> QED BY <2>2, <2>3
<1> QED BY <1>0, <1>1, <1>2, WindowStep

-----------------------------------------------------------------------------
(* The theorems. *)

LEMMA Inductive == Spec => []IInv
<1>1. Init => IInv  BY InitType, InitOwners, InitCapped DEF IInv
<1>2. IInv /\ [Next]_vars => IInv'  BY NextType, NextOwners, NextCapped DEF IInv
<1> QED BY <1>1, <1>2, PTL DEF Spec

\* The variables have their types, and who is to settle has a reservation.
THEOREM TypeCorrect == Spec => []TypeOK
<1>1. IInv => TypeOK  BY DEF IInv
<1> QED BY <1>1, Inductive, PTL

\* No window admits more requests than the policy allows, for any number of
\* threads and whatever the clock does.
THEOREM RequestsAreCappedAlways == Spec => []RequestsAreCapped
<1>1. IInv => RequestsAreCapped  BY DEF IInv, Capped, RequestsAreCapped
<1> QED BY <1>1, Inductive, PTL

\* What Bedrock produced for a reservation stays charged to it, unless Bedrock
\* exceeded the ceiling it was given; then the whole reservation is.
THEOREM UseIsChargedAlways == Spec => []UseIsCharged
<1>1. IInv => UseIsCharged
  <2> SUFFICES ASSUME IInv, NEW r \in Reservations
               PROVE  \/ spent[r] <= Committed(admissions[r])
                      \/ spent[r] > admissions[r].reserved /\ admissions[r].output = Unset
    BY DEF UseIsCharged
  <2>1. spent[r] \in Nat /\ admissions[r] \in Rows
    BY Numbers DEF IInv, TypeOK
  <2>2. admissions[r].reserved \in Nat
    BY <2>1, Numbers, RowShape DEF Kept, NoRow
  <2>3. CASE admissions[r].output # Unset
    BY <2>1, <2>3 DEF IInv, Owners, Accounted, Committed
  <2>4. CASE admissions[r].output = Unset
    BY <2>1, <2>2, <2>4 DEF Committed
  <2> QED BY <2>3, <2>4
<1> QED BY <1>1, Inductive, PTL

-----------------------------------------------------------------------------
(* Every step is a step of the abstract budget. *)

LEMMA InitAbstract == Init => Budget!Init
  BY DEF Init, Budget!Init, window, charge, NoRow, Committed, Unset

\* A step that leaves what the rows are charged leaves the abstract budget.
LEMMA SameBudget ==
  ASSUME \A x \in Reservations: /\ admissions'[x].window = admissions[x].window
                                /\ Committed(admissions'[x]) = Committed(admissions[x])
  PROVE  UNCHANGED <<window, charge>>
<1>1. window' = window  BY DEF window
<1>2. charge' = charge
  <2>1. \A x \in Reservations: Committed(admissions[x])' = Committed(admissions[x])
    BY DEF Committed
  <2> QED BY <2>1 DEF charge
<1> QED BY <1>1, <1>2

LEMMA AdmitAbstract ==
  ASSUME TypeOK, Owners, NEW t \in Threads, NEW r \in Reservations, Admit(t, r)
  PROVE  Budget!Accept(r)
<1> DEFINE row == [window |-> job[t].window, reserved |-> job[t].tokens, output |-> Unset, outcome |-> "pending"]
<1>1. admissions' = [admissions EXCEPT ![r] = row] /\ admissions[r] = NoRow
  BY DEF Admit
<1>2. \A x \in Reservations: admissions'[x] = IF x = r THEN row ELSE admissions[x]
  BY <1>1 DEF TypeOK
<1>3. job[t].window \in Windows /\ job[t].tokens \in 1..MaxRequest
  BY DEF Owners, Prepared, Admit
<1>4. window[r] = 0 /\ window'[r] = job[t].window /\ charge'[r] = job[t].tokens
  <2>1. window[r] = 0  BY <1>1 DEF window, NoRow
  <2>2. window'[r] = row.window  BY <1>2 DEF window
  <2>3. Committed(row) = row.reserved  BY DEF Committed
  <2>4. Committed(admissions'[r]) = row.reserved  BY <1>2, <2>3
  <2>5. charge'[r] = Committed(admissions'[r])  BY DEF charge, Committed
  <2> QED BY <2>1, <2>2, <2>4, <2>5
<1>5. window' = [window EXCEPT ![r] = window'[r]]
  BY <1>2 DEF window
<1>6. charge' = [charge EXCEPT ![r] = charge'[r]]
  <2>1. \A x \in Reservations: x # r => Committed(admissions'[x]) = Committed(admissions[x])
    BY <1>2
  <2>2. charge' = [x \in Reservations |-> Committed(admissions'[x])]  BY DEF charge, Committed
  <2> QED BY <2>1, <2>2 DEF charge
<1>7. Budget!Charged(job[t].window) + job[t].tokens <= Limit
  BY DEF Admit, HasRoom
<1>8. window'[r] # 0 /\ charge'[r] \in Nat
  BY <1>3, <1>4, Numbers
<1>9. Budget!Charged(window'[r]) + charge'[r] <= Limit
  BY <1>4, <1>7
<1> QED BY <1>4, <1>5, <1>6, <1>8, <1>9 DEF Budget!Accept

LEMMA SettleAbstract ==
  ASSUME TypeOK, Owners, NEW t \in Threads, Settle(t)
  PROVE  Budget!Settle(job[t].reservation) \/ UNCHANGED <<window, charge>>
<1> DEFINE r == job[t].reservation
<1>1. CASE admissions[r].outcome = "pending" /\ job[t].usage <= admissions[r].reserved
  <2>1. /\ r \in Reservations /\ job[t].usage \in Tokens
        /\ admissions' = [admissions EXCEPT ![r].output = job[t].usage, ![r].outcome = "complete"]
    BY <1>1 DEF Settle, TypeOK, Owners, Answered
  <2>2. admissions[r] \in Kept  BY <1>1, <2>1, RowUpdates DEF TypeOK
  <2>3. admissions'[r] = [admissions[r] EXCEPT !.output = job[t].usage, !.outcome = "complete"]
    BY <2>1 DEF TypeOK
  <2>4. admissions'[r].window = admissions[r].window /\ admissions'[r].output = job[t].usage
    BY <2>2, <2>3 DEF Kept
  <2>5. \A x \in Reservations: x # r => admissions'[x] = admissions[x]
    BY <2>1 DEF TypeOK
  <2>6. admissions[r].output = Unset
    BY <1>1, <2>1 DEF Owners, Accounted
  <2>7. charge[r] = admissions[r].reserved /\ charge'[r] = job[t].usage
    <3>1. charge[r] = Committed(admissions[r]) /\ charge'[r] = Committed(admissions'[r])
      BY <2>1 DEF charge, Committed
    <3>2. Committed(admissions[r]) = admissions[r].reserved  BY <2>6 DEF Committed
    <3>3. Committed(admissions'[r]) = job[t].usage  BY <2>1, <2>4, Numbers DEF Committed
    <3> QED BY <3>1, <3>2, <3>3
  <2>8. window[r] # 0  BY <2>1, <2>2, Numbers DEF window, Kept
  <2>9. window' = window  BY <2>4, <2>5 DEF window
  <2>10. charge' = [charge EXCEPT ![r] = charge'[r]]
    <3>1. charge' = [x \in Reservations |-> Committed(admissions'[x])]  BY DEF charge, Committed
    <3>2. \A x \in Reservations: x # r => Committed(admissions'[x]) = Committed(admissions[x])
      BY <2>5
    <3> QED BY <3>1, <3>2 DEF charge
  <2>11. charge'[r] \in 0..charge[r]
    BY <1>1, <2>1, <2>2, <2>7, Numbers DEF Kept
  <2> QED BY <2>8, <2>9, <2>10, <2>11 DEF Budget!Settle
<1>2. CASE ~(admissions[r].outcome = "pending" /\ job[t].usage <= admissions[r].reserved)
  <2>1. admissions' = admissions  BY <1>2 DEF Settle
  <2> QED BY <2>1, SameBudget
<1> QED BY <1>1, <1>2

LEMMA UncertainAbstract ==
  ASSUME TypeOK, NEW t \in Threads, Uncertain(t)
  PROVE  UNCHANGED <<window, charge>>
<1>1. ASSUME NEW x \in Reservations
      PROVE  /\ admissions'[x].window = admissions[x].window
             /\ Committed(admissions'[x]) = Committed(admissions[x])
  <2>1. CASE x = job[t].reservation /\ admissions[x].outcome = "pending"
    <3>1. admissions[x] \in Kept  BY <2>1, RowUpdates, Numbers DEF Tokens, TypeOK
    <3>2. admissions'[x] = [admissions[x] EXCEPT !.outcome = "uncertain"]
      BY <2>1 DEF Uncertain
    <3>3. /\ admissions'[x].window = admissions[x].window
          /\ admissions'[x].output = admissions[x].output
          /\ admissions'[x].reserved = admissions[x].reserved
      BY <3>1, <3>2 DEF Kept
    <3> QED BY <3>3 DEF Committed
  <2>2. CASE ~(x = job[t].reservation /\ admissions[x].outcome = "pending")
    <3>1. admissions'[x] = admissions[x]  BY <2>2 DEF Uncertain
    <3> QED BY <3>1
  <2> QED BY <2>1, <2>2
<1> QED BY <1>1, SameBudget

LEMMA NextAbstract == TypeOK /\ Owners /\ [Next]_vars => [Budget!Next]_<<window, charge>>
<1> SUFFICES ASSUME TypeOK, Owners, [Next]_vars
             PROVE  Budget!Next \/ UNCHANGED <<window, charge>>
  OBVIOUS
<1>1. CASE admissions' = admissions
  BY <1>1, SameBudget
<1>2. ASSUME NEW t \in Threads, Step(t)
      PROVE  Budget!Next \/ UNCHANGED <<window, charge>>
  <2>1. CASE ReadWindow(t) \/ Deny(t) \/ Converse(t)
    BY <2>1, <1>1 DEF ReadWindow, Deny, Converse
  <2>2. CASE Settle(t)
    <3>1. job[t].reservation \in Reservations  BY <2>2 DEF Settle, TypeOK
    <3> QED BY <2>2, <3>1, SettleAbstract DEF Budget!Next
  <2>3. CASE Uncertain(t)
    BY <2>3, UncertainAbstract
  <2>4. CASE \E r \in Reservations: Admit(t, r)
    BY <2>4, AdmitAbstract DEF Budget!Next
  <2> QED BY <1>2, <2>1, <2>2, <2>3, <2>4 DEF Step
<1>3. CASE Crash \/ Tick
  BY <1>3, <1>1 DEF Crash, Tick
<1> QED BY <1>1, <1>2, <1>3 DEF Next, vars

\* The gateway's accounting implements the abstract budget: no window is charged
\* past the policy's limit, and what is charged never grows.
THEOREM ImplementsBudget == Spec => BudgetSpec
<1>1. Init => Budget!Init  BY InitAbstract
<1>2. IInv /\ [Next]_vars => [Budget!Next]_<<window, charge>>  BY NextAbstract DEF IInv
<1> QED BY <1>1, <1>2, Inductive, PTL DEF Spec, BudgetSpec, Budget!Spec

-----------------------------------------------------------------------------
(* The policy promotion of P16. *)

CONSTANTS Suites, Policies, Good, Baseline, None, Cases, MaxEvents
VARIABLES source, events, record, run, worker, note

Promotion == INSTANCE PolicyPromotion

\* There is a case, the ledger has room for the baseline, and no suite is called none.
Named == None \notin Suites /\ Cases \in Nat \ {0} /\ MaxEvents \in Nat \ {0}

NoEvents(s) == \A k \in 1..Len(events): events[k].suite # s
\* The events of a suite are one block behind its head, of a policy all of whose cases were expected.
Whole(s) == LET h == record[s].head
                old == events[h].digest
                new == record[s].digest
            IN /\ h + 3 <= Len(events)
               /\ events[h + 1] = Promotion!Event("promote", new, old, s)
               /\ events[h + 2] = Promotion!Event("rollback", old, new, s)
               /\ events[h + 3] = Promotion!Event("promote", new, old, s)
               /\ \A k \in 1..Len(events): events[k].suite = s => k \in h + 1 .. h + 3
               /\ record[s].cases = Cases /\ record[s].expected

\* What a suite's record says once it was begun: its cases ran on the policy it names.
RecordHolds(s) == record[s].state # "none" =>
  /\ record[s].digest \in Policies /\ record[s].head \in 1..Len(events)
  /\ record[s].expected => \A c \in 1..record[s].cases: Promotion!Expected(record[s].digest, c)
  /\ NoEvents(s) \/ Whole(s)

\* What the place of a run says of its record and its events,
RunHolds(s) ==
  /\ run[s] \in {"new", "digest", "insert"} => record[s].state = "none" /\ NoEvents(s)
  /\ run[s] = "explored" => record[s].state = "none"
  /\ run[s] \in {"case", "check", "ledger", "promote"} => record[s].state # "none" /\ NoEvents(s)
  /\ run[s] \in {"waiting", "final", "passed"} => record[s].state # "none"
  /\ run[s] = "case" => record[s].cases < Cases
  /\ run[s] = "passed" => ~NoEvents(s)
\* the place of the store's thread,
WorkerHolds(s) ==
  /\ worker[s] # "idle" => run[s] \in {"waiting", "failed"} /\ record[s].state = "paused"
  /\ worker[s] = "cas" => NoEvents(s) /\ record[s].cases = Cases /\ record[s].expected
\* and what an exploration has read.
NoteHolds(s) == /\ run[s] \in {"digest", "insert"} => note[s].candidate \in Policies
                /\ run[s] = "insert" => note[s].active \in Promotion!Digests

Life(s) == RecordHolds(s) /\ RunHolds(s) /\ WorkerHolds(s) /\ NoteHolds(s)
PromotionInv == Promotion!TypeOK /\ \A s \in Suites: Life(s)

-----------------------------------------------------------------------------

LEMMA EventsFacts ==
  ASSUME Promotion!TypeOK, Named
  PROVE  /\ events \in Seq(Promotion!Events) /\ Len(events) \in Nat /\ Len(events) >= 1
         /\ \A k \in 1..Len(events): events[k] \in Promotion!Events
         /\ Promotion!Active(events) \in Promotion!Digests
  <1>1. events \in Seq(Promotion!Events) /\ Len(events) \in Nat /\ Len(events) >= 1
    BY DEF Promotion!TypeOK, Named
  <1>2. \A k \in 1..Len(events): events[k] \in Promotion!Events
    BY <1>1
  <1>3. events[Len(events)].digest \in Promotion!Digests
    <2>1. events[Len(events)] \in Promotion!Events
      BY <1>1, <1>2
    <2> QED BY <2>1 DEF Promotion!Events
  <1> QED BY <1>1, <1>2, <1>3 DEF Promotion!Active

\* Three elements of a sequence.
LEMMA ThreeElements ==
  ASSUME NEW S, NEW q \in Seq(S), NEW h \in Nat, h + 3 <= Len(q)
  PROVE  LET part == SubSeq(q, h + 1, h + 3)
         IN  /\ part \in Seq(S) /\ Len(part) = 3
             /\ part[1] = q[h + 1] /\ part[2] = q[h + 2] /\ part[3] = q[h + 3]
  <1> DEFINE part == SubSeq(q, h + 1, h + 3)
  <1>1. Len(q) \in Nat /\ \A i \in 1..Len(q): q[i] \in S
    OBVIOUS
  <1>2. h + 1 \in Int /\ h + 3 \in Int /\ \A i \in h + 1 .. h + 3: q[i] \in S
    BY <1>1
  <1>3. /\ part \in Seq(S)
        /\ Len(part) = IF h + 1 <= h + 3 THEN (h + 3) - (h + 1) + 1 ELSE 0
        /\ \A i \in 1 .. (h + 3) - (h + 1) + 1: part[i] = q[(h + 1) + i - 1]
    BY <1>2, SubSeqProperties
  <1> HIDE DEF part
  <1>4. Len(part) = 3
    BY <1>3
  <1>5. 1 \in 1 .. (h + 3) - (h + 1) + 1 /\ 2 \in 1 .. (h + 3) - (h + 1) + 1 /\ 3 \in 1 .. (h + 3) - (h + 1) + 1
    OBVIOUS
  <1>6. part[1] = q[(h + 1) + 1 - 1] /\ part[2] = q[(h + 1) + 2 - 1] /\ part[3] = q[(h + 1) + 3 - 1]
    BY <1>3, <1>5
  <1>7. (h + 1) + 1 - 1 = h + 1 /\ (h + 1) + 2 - 1 = h + 2 /\ (h + 1) + 3 - 1 = h + 3
    OBVIOUS
  <1> QED BY <1>3, <1>4, <1>6, <1>7 DEF part

\* The verifier's block is the one the invariant describes.
LEMMA BlockIsWhole ==
  ASSUME Promotion!TypeOK, Named, NEW s \in Suites, record[s].head \in 1..Len(events)
  PROVE  Promotion!Block(s) <=> LET h == record[s].head
                          old == events[h].digest
                          new == record[s].digest
                      IN /\ h + 3 <= Len(events)
                         /\ events[h + 1] = Promotion!Event("promote", new, old, s)
                         /\ events[h + 2] = Promotion!Event("rollback", old, new, s)
                         /\ events[h + 3] = Promotion!Event("promote", new, old, s)
  <1> DEFINE h == record[s].head
             before == SubSeq(events, 1, h)
             part == SubSeq(events, h + 1, h + 3)
             old == events[h].digest
             new == record[s].digest
             a == Promotion!Event("promote", new, old, s)
             b == Promotion!Event("rollback", old, new, s)
             block == <<a, b, a>>
  <1>1. events \in Seq(Promotion!Events) /\ Len(events) \in Nat /\ h \in Nat /\ h >= 1 /\ h <= Len(events)
    BY EventsFacts
  <1>2. Promotion!Active(before) = old
    <2>1. Len(before) = h /\ before[h] = events[h]
      BY <1>1
    <2> QED BY <2>1 DEF Promotion!Active
  <1>3. Promotion!Block(s) <=> Len(events) >= h + 3 /\ part = block
    BY <1>2 DEF Promotion!Block
  <1> HIDE DEF a, b
  <1>4. ASSUME h + 3 <= Len(events)
        PROVE  /\ part \in Seq(Promotion!Events) /\ Len(part) = 3
               /\ part[1] = events[h + 1] /\ part[2] = events[h + 2] /\ part[3] = events[h + 3]
    BY <1>1, <1>4, ThreeElements
  <1>5. ASSUME h + 3 <= Len(events)
        PROVE  part = block <=> events[h + 1] = a /\ events[h + 2] = b /\ events[h + 3] = a
    <2> HIDE DEF part
    <2>1. Len(block) = 3 /\ block[1] = a /\ block[2] = b /\ block[3] = a
      OBVIOUS
    <2>2. part = block => part[1] = a /\ part[2] = b /\ part[3] = a
      BY <2>1
    <2>3. ASSUME part[1] = a, part[2] = b, part[3] = a PROVE part = block
      <3>1. DOMAIN part = 1..3 /\ DOMAIN block = 1..3
        BY <1>4, <1>5
      <3>2. \A i \in 1..3: part[i] = block[i]
        BY <2>1, <2>3
      <3>3. part = [i \in 1..3 |-> part[i]] /\ block = [i \in 1..3 |-> block[i]]
        BY <1>4, <1>5, <3>1
      <3> QED BY <3>2, <3>3
    <2> QED BY <1>4, <1>5, <2>2, <2>3
  <1> QED BY <1>1, <1>3, <1>5 DEF a, b

-----------------------------------------------------------------------------
(* What a step leaves to a suite. *)

\* The ledger grew by events of others.
Extended(s) == /\ Len(events') \in Nat /\ Len(events') >= Len(events)
               /\ \A k \in 1..Len(events): events'[k] = events[k]
               /\ \A k \in Len(events) + 1 .. Len(events'): events'[k].suite # s

\* A step that is not this suite's.
Untouched(s) == /\ record'[s] = record[s] /\ run'[s] = run[s] /\ worker'[s] = worker[s] /\ note'[s] = note[s]
           /\ Extended(s)

\* The record says the same, but for its state.
SameRecord(s) == /\ record'[s].digest = record[s].digest /\ record'[s].head = record[s].head
                 /\ record'[s].cases = record[s].cases /\ record'[s].expected = record[s].expected

LEMMA Unextended ==
  ASSUME Promotion!TypeOK, Named, NEW s \in Suites, events' = events
  PROVE  Extended(s)
  <1>1. Len(events) \in Nat
    BY EventsFacts
  <1>2. Len(events') = Len(events)
    OBVIOUS
  <1>3. \A k \in Len(events) + 1 .. Len(events'): FALSE
    BY <1>1, <1>2
  <1> QED BY <1>1, <1>2, <1>3 DEF Extended

LEMMA SameNoEvents ==
  ASSUME Promotion!TypeOK, Named, NEW s \in Suites, Extended(s)
  PROVE  NoEvents(s)' <=> NoEvents(s)
  <1>1. Len(events) \in Nat /\ Len(events') \in Nat /\ Len(events') >= Len(events)
    BY EventsFacts DEF Extended
  <1>2. \A k \in 1..Len(events): k \in 1..Len(events') /\ events'[k] = events[k]
    BY <1>1 DEF Extended
  <1>3. \A k \in 1..Len(events'): k \in 1..Len(events) \/ k \in Len(events) + 1 .. Len(events')
    BY <1>1
  <1>4. \A k \in Len(events) + 1 .. Len(events'): events'[k].suite # s
    BY DEF Extended
  <1> QED BY <1>2, <1>3, <1>4 DEF NoEvents

LEMMA SameWhole ==
  ASSUME Promotion!TypeOK, Named, NEW s \in Suites, Extended(s), SameRecord(s),
         record[s].head \in 1..Len(events), Whole(s)
  PROVE  Whole(s)'
  <1> DEFINE h == record[s].head
             old == events[h].digest
             new == record[s].digest
  <1>1. Len(events) \in Nat /\ Len(events') \in Nat /\ Len(events') >= Len(events) /\ h \in Nat /\ h >= 1
    BY EventsFacts DEF Extended
  <1>2. \A k \in 1..Len(events): events'[k] = events[k]
    BY DEF Extended
  <1>3. h + 3 <= Len(events)
    BY DEF Whole
  <1>4. h \in 1..Len(events) /\ h + 1 \in 1..Len(events) /\ h + 2 \in 1..Len(events) /\ h + 3 \in 1..Len(events)
    <2> HIDE DEF h
    <2> QED BY ONLY <1>1, <1>3
  <1>5. events'[h] = events[h] /\ events'[h + 1] = events[h + 1] /\ events'[h + 2] = events[h + 2]
        /\ events'[h + 3] = events[h + 3]
    BY <1>2, <1>4
  <1>6. record'[s].head = h /\ record'[s].digest = new /\ record'[s].cases = Cases /\ record'[s].expected
    BY DEF SameRecord, Whole
  <1>7. ASSUME NEW k \in 1..Len(events'), events'[k].suite = s PROVE k \in h + 1 .. h + 3
    <2>1. k \in 1..Len(events) \/ k \in Len(events) + 1 .. Len(events')
      BY <1>1
    <2>2. k \in 1..Len(events)
      BY <1>7, <2>1 DEF Extended
    <2>3. events[k].suite = s
      BY <1>2, <1>7, <2>2
    <2> QED BY <2>2, <2>3 DEF Whole
  <1>8. h + 3 <= Len(events')
    BY <1>1, <1>3
  <1>9. /\ events'[h + 1] = Promotion!Event("promote", new, events'[h].digest, s)
        /\ events'[h + 2] = Promotion!Event("rollback", events'[h].digest, new, s)
        /\ events'[h + 3] = Promotion!Event("promote", new, events'[h].digest, s)
    BY <1>5 DEF Whole
  <1> QED BY <1>6, <1>7, <1>8, <1>9 DEF Whole, Promotion!Event

LEMMA SameRecordHolds ==
  ASSUME Promotion!TypeOK, Named, NEW s \in Suites, Extended(s), SameRecord(s),
         RecordHolds(s), record[s].state # "none"
  PROVE  RecordHolds(s)'
  <1>1. record[s].digest \in Policies /\ record[s].head \in 1..Len(events)
    BY DEF RecordHolds
  <1>2. record'[s].head \in 1..Len(events')
    <2>1. Len(events) \in Nat /\ Len(events') \in Nat /\ Len(events') >= Len(events)
      BY EventsFacts DEF Extended
    <2> QED BY <1>1, <2>1 DEF SameRecord
  <1>3. record'[s].expected => \A c \in 1..record'[s].cases: Promotion!Expected(record'[s].digest, c)
    BY DEF RecordHolds, SameRecord
  <1>4. NoEvents(s)' \/ Whole(s)'
    BY <1>1, SameNoEvents, SameWhole DEF RecordHolds
  <1>5. record'[s].digest \in Policies
    BY <1>1 DEF SameRecord
  <1> QED BY <1>2, <1>3, <1>4, <1>5 DEF RecordHolds, Promotion!Expected

LEMMA KeptRecord ==
  ASSUME Promotion!TypeOK, Named, NEW s \in Suites, Extended(s), record'[s] = record[s], RecordHolds(s)
  PROVE  RecordHolds(s)'
  <1>1. CASE record[s].state = "none"
    BY <1>1 DEF RecordHolds
  <1>2. CASE record[s].state # "none"
    BY <1>2, SameRecordHolds DEF SameRecord
  <1> QED BY <1>1, <1>2

LEMMA KeptLife ==
  ASSUME Promotion!TypeOK, Named, NEW s \in Suites, Untouched(s), Life(s)
  PROVE  Life(s)'
  <1>1. Extended(s) /\ record'[s] = record[s] /\ run'[s] = run[s] /\ worker'[s] = worker[s] /\ note'[s] = note[s]
    BY DEF Untouched
  <1>2. RecordHolds(s)'
    BY <1>1, KeptRecord DEF Life
  <1>3. NoEvents(s)' <=> NoEvents(s)
    BY <1>1, SameNoEvents
  <1>4. RunHolds(s)'
    BY <1>1, <1>3 DEF Life, RunHolds
  <1>5. WorkerHolds(s)'
    BY <1>1, <1>3 DEF Life, WorkerHolds
  <1>6. NoteHolds(s)'
    BY <1>1 DEF Life, NoteHolds
  <1> QED BY <1>2, <1>4, <1>5, <1>6 DEF Life

-----------------------------------------------------------------------------
(* The steps that write neither the ledger nor a record. *)

Others(s) == \A t \in Suites \ {s}: Untouched(t)

\* What such a step leaves, whatever place it takes the run to.
LEMMA Moves ==
  ASSUME Promotion!TypeOK, Named, NEW s \in Suites, Life(s), UNCHANGED <<events, record>>
  PROVE  /\ RecordHolds(s)' /\ (NoEvents(s)' <=> NoEvents(s))
         /\ \A t \in Suites \ {s}: run'[t] = run[t] /\ worker'[t] = worker[t] /\ note'[t] = note[t] => Untouched(t)
  <1>1. \A t \in Suites: Extended(t)
    BY Unextended
  <1>2. RecordHolds(s)'
    BY <1>1, KeptRecord DEF Life
  <1> QED BY <1>1, <1>2, SameNoEvents DEF Untouched

\* A step that takes a run on and leaves the store's thread alone.
LEMMA RunMoves ==
  ASSUME Promotion!TypeOK, Named, NEW s \in Suites, Life(s), UNCHANGED <<source, events, record, worker, note>>,
         NEW p \in Promotion!Places, run' = [run EXCEPT ![s] = p], p \notin {"digest", "insert"},
         worker[s] = "idle" \/ p = "failed", RunHolds(s)'
  PROVE  Promotion!TypeOK' /\ Life(s)' /\ Others(s)
  <1>1. run'[s] = p /\ \A t \in Suites \ {s}: run'[t] = run[t]
    BY DEF Promotion!TypeOK
  <1>2. Promotion!TypeOK'
    BY DEF Promotion!TypeOK
  <1>3. RecordHolds(s)' /\ (NoEvents(s)' <=> NoEvents(s)) /\ Others(s)
    BY <1>1, Moves DEF Others
  <1>4. WorkerHolds(s)'
    BY <1>1, <1>3 DEF Life, WorkerHolds
  <1>5. NoteHolds(s)'
    BY <1>1 DEF NoteHolds
  <1> QED BY <1>2, <1>3, <1>4, <1>5 DEF Life

LEMMA CaseRefusedLife ==
  ASSUME Promotion!TypeOK, Named, NEW s \in Suites, Life(s), Promotion!CaseRefused(s)
  PROVE  Promotion!TypeOK' /\ Life(s)' /\ Others(s)
  <1>1. run' = [run EXCEPT ![s] = "failed"] /\ UNCHANGED <<source, events, record, worker, note>>
    BY DEF Promotion!CaseRefused
  <1>2. run'[s] = "failed"
    BY <1>1 DEF Promotion!TypeOK
  <1>3. RunHolds(s)'
    BY <1>2 DEF RunHolds
  <1> QED BY <1>1, <1>3, RunMoves DEF Promotion!Places

LEMMA GiveUpLife ==
  ASSUME Promotion!TypeOK, Named, NEW s \in Suites, Life(s), Promotion!GiveUp(s)
  PROVE  Promotion!TypeOK' /\ Life(s)' /\ Others(s)
  <1>1. run' = [run EXCEPT ![s] = "failed"] /\ UNCHANGED <<source, events, record, worker, note>>
    BY DEF Promotion!GiveUp
  <1>2. run'[s] = "failed"
    BY <1>1 DEF Promotion!TypeOK
  <1>3. RunHolds(s)'
    BY <1>2 DEF RunHolds
  <1> QED BY <1>1, <1>3, RunMoves DEF Promotion!Places

LEMMA CheckCaseLife ==
  ASSUME Promotion!TypeOK, Named, NEW s \in Suites, Life(s), Promotion!CheckCase(s)
  PROVE  Promotion!TypeOK' /\ Life(s)' /\ Others(s)
  <1>1. PICK p \in {"ledger", "failed"}: run' = [run EXCEPT ![s] = p]
    BY DEF Promotion!CheckCase
  <1>2. run[s] = "check" /\ UNCHANGED <<source, events, record, worker, note>>
    BY DEF Promotion!CheckCase
  <1>3. run'[s] = p
    BY <1>1 DEF Promotion!TypeOK
  <1>4. record[s].state # "none" /\ NoEvents(s) /\ worker[s] = "idle"
    BY <1>2 DEF Life, RunHolds, WorkerHolds, Promotion!TypeOK
  <1>5. RunHolds(s)'
    BY <1>2, <1>3, <1>4, Moves DEF RunHolds
  <1> QED BY <1>1, <1>2, <1>4, <1>5, RunMoves DEF Promotion!Places

LEMMA CheckHeadLife ==
  ASSUME Promotion!TypeOK, Named, NEW s \in Suites, Life(s), Promotion!CheckHead(s)
  PROVE  Promotion!TypeOK' /\ Life(s)' /\ Others(s)
  <1>1. PICK p \in {"case", "promote", "failed"}:
          run' = [run EXCEPT ![s] = p] /\ (p = "case" => record[s].cases < Cases)
    BY DEF Promotion!CheckHead
  <1>2. run[s] = "ledger" /\ UNCHANGED <<source, events, record, worker, note>>
    BY DEF Promotion!CheckHead
  <1>3. run'[s] = p
    BY <1>1 DEF Promotion!TypeOK
  <1>4. record[s].state # "none" /\ NoEvents(s) /\ worker[s] = "idle"
    BY <1>2 DEF Life, RunHolds, WorkerHolds, Promotion!TypeOK
  <1>5. RunHolds(s)'
    BY <1>1, <1>2, <1>3, <1>4, Moves DEF RunHolds
  <1> QED BY <1>1, <1>2, <1>4, <1>5, RunMoves DEF Promotion!Places

\* A run passes only with its block.
LEMMA FinalCheckLife ==
  ASSUME Promotion!TypeOK, Named, NEW s \in Suites, Life(s), Promotion!FinalCheck(s)
  PROVE  Promotion!TypeOK' /\ Life(s)' /\ Others(s)
  <1>1. PICK p \in {"passed", "failed"}: run' = [run EXCEPT ![s] = p] /\ (p = "passed" => Promotion!Block(s))
    BY DEF Promotion!FinalCheck
  <1>2. run[s] = "final" /\ UNCHANGED <<source, events, record, worker, note>>
    BY DEF Promotion!FinalCheck
  <1>3. run'[s] = p
    BY <1>1 DEF Promotion!TypeOK
  <1>4. record[s].state # "none" /\ worker[s] = "idle" /\ record[s].head \in 1..Len(events)
    BY <1>2 DEF Life, RunHolds, WorkerHolds, RecordHolds, Promotion!TypeOK
  <1>5. Promotion!Block(s) => ~NoEvents(s)
    <2> DEFINE h == record[s].head
    <2>1. ASSUME Promotion!Block(s) PROVE h + 3 <= Len(events) /\ events[h + 1].suite = s
      <3>1. events[h + 1] = Promotion!Event("promote", record[s].digest, events[h].digest, s) /\ h + 3 <= Len(events)
        BY <1>4, <2>1, BlockIsWhole
      <3> QED BY <3>1 DEF Promotion!Event
    <2>2. Len(events) \in Nat /\ h \in Nat /\ h >= 1
      BY <1>4, EventsFacts
    <2>3. h + 3 <= Len(events) => h + 1 \in 1..Len(events)
      BY <2>2
    <2> QED BY <2>1, <2>3 DEF NoEvents
  <1>6. RunHolds(s)'
    BY <1>1, <1>2, <1>3, <1>4, <1>5, Moves DEF RunHolds
  <1> QED BY <1>1, <1>2, <1>4, <1>6, RunMoves DEF Promotion!Places

LEMMA ReadRecordLife ==
  ASSUME Promotion!TypeOK, Named, NEW s \in Suites, Life(s), Promotion!ReadRecord(s)
  PROVE  Promotion!TypeOK' /\ Life(s)' /\ Others(s)
  <1>1. run[s] = "promote" /\ UNCHANGED <<source, events, record, note>>
    BY DEF Promotion!ReadRecord
  <1>2. record[s].state # "none" /\ NoEvents(s) /\ worker[s] = "idle"
    BY <1>1 DEF Life, RunHolds, WorkerHolds, Promotion!TypeOK
  <1>3. CASE Promotion!Promotable(s)
    <2>1. run' = [run EXCEPT ![s] = "waiting"] /\ worker' = [worker EXCEPT ![s] = "cas"]
      BY <1>3 DEF Promotion!ReadRecord
    <2>2. /\ run'[s] = "waiting" /\ worker'[s] = "cas"
          /\ \A t \in Suites \ {s}: run'[t] = run[t] /\ worker'[t] = worker[t]
      BY <2>1 DEF Promotion!TypeOK
    <2>3. Promotion!TypeOK'
      BY <1>1, <2>1 DEF Promotion!TypeOK, Promotion!Places
    <2>4. RecordHolds(s)' /\ NoEvents(s)' /\ Others(s)
      BY <1>1, <1>2, <2>2, Moves DEF Others
    <2>5. RunHolds(s)' /\ NoteHolds(s)'
      BY <1>1, <1>2, <2>2 DEF RunHolds, NoteHolds
    <2>6. record[s].state = "paused" /\ record[s].cases = Cases /\ record[s].expected
      BY <1>3 DEF Promotion!Promotable
    <2>7. WorkerHolds(s)'
      BY <1>1, <2>2, <2>4, <2>6 DEF WorkerHolds
    <2> QED BY <2>3, <2>4, <2>5, <2>7 DEF Life
  <1>4. CASE ~Promotion!Promotable(s)
    <2>1. run' = [run EXCEPT ![s] = "failed"] /\ worker' = worker
      BY <1>4 DEF Promotion!ReadRecord
    <2>2. run'[s] = "failed"
      BY <2>1 DEF Promotion!TypeOK
    <2>3. RunHolds(s)'
      BY <2>2 DEF RunHolds
    <2> QED BY <1>1, <2>1, <2>3, RunMoves DEF Promotion!Places
  <1> QED BY <1>3, <1>4

LEMMA CasRejectedLife ==
  ASSUME Promotion!TypeOK, Named, NEW s \in Suites, Life(s), Promotion!CasRejected(s)
  PROVE  Promotion!TypeOK' /\ Life(s)' /\ Others(s)
  <1>1. worker[s] = "cas" /\ worker' = [worker EXCEPT ![s] = "idle"] /\ UNCHANGED <<source, events, record, note>>
    BY DEF Promotion!CasRejected
  <1>2. run[s] \in {"waiting", "failed"}
    BY <1>1 DEF Life, WorkerHolds
  <1>3. run' = [run EXCEPT ![s] = "failed"]
    <2>1. run[s] = "failed" => run = [run EXCEPT ![s] = "failed"]
      BY DEF Promotion!TypeOK
    <2> QED BY <1>2, <2>1 DEF Promotion!CasRejected, Promotion!Answered
  <1>4. /\ run'[s] = "failed" /\ worker'[s] = "idle"
        /\ \A t \in Suites \ {s}: run'[t] = run[t] /\ worker'[t] = worker[t]
    BY <1>1, <1>3 DEF Promotion!TypeOK
  <1>5. Promotion!TypeOK'
    BY <1>1, <1>3 DEF Promotion!TypeOK, Promotion!Places
  <1>6. RecordHolds(s)' /\ Others(s)
    BY <1>1, <1>4, Moves DEF Others
  <1>7. RunHolds(s)' /\ WorkerHolds(s)' /\ NoteHolds(s)'
    BY <1>4 DEF RunHolds, WorkerHolds, NoteHolds
  <1> QED BY <1>5, <1>6, <1>7 DEF Life

LEMMA RunAllLife ==
  ASSUME Promotion!TypeOK, Named, NEW s \in Suites, Life(s), Promotion!RunAll(s)
  PROVE  Promotion!TypeOK' /\ Life(s)' /\ Others(s)
  <1>1. /\ run[s] = "new" /\ run' = [run EXCEPT ![s] = "digest"]
        /\ note' = [note EXCEPT ![s].candidate = source] /\ UNCHANGED <<source, events, record, worker>>
    BY DEF Promotion!RunAll
  <1>2. source \in Policies /\ note[s] \in Promotion!Notes
    BY DEF Promotion!TypeOK
  <1>3. /\ [note[s] EXCEPT !.candidate = source] \in Promotion!Notes
        /\ [note[s] EXCEPT !.candidate = source].candidate = source
    BY <1>2 DEF Promotion!Notes
  <1>4. /\ run'[s] = "digest" /\ note'[s] \in Promotion!Notes /\ note'[s].candidate \in Policies
        /\ \A t \in Suites \ {s}: run'[t] = run[t] /\ note'[t] = note[t]
    BY <1>1, <1>2, <1>3 DEF Promotion!TypeOK
  <1>5. Promotion!TypeOK'
    <2>1. note' \in [Suites -> Promotion!Notes]
      BY <1>1, <1>3 DEF Promotion!TypeOK
    <2> QED BY <1>1, <2>1 DEF Promotion!TypeOK, Promotion!Places
  <1>6. record[s].state = "none" /\ NoEvents(s) /\ worker[s] = "idle"
    BY <1>1 DEF Life, RunHolds, WorkerHolds, Promotion!TypeOK
  <1>7. RecordHolds(s)' /\ NoEvents(s)' /\ Others(s)
    BY <1>1, <1>4, <1>6, Moves DEF Others
  <1>8. RunHolds(s)' /\ WorkerHolds(s)' /\ NoteHolds(s)'
    BY <1>1, <1>4, <1>6, <1>7 DEF RunHolds, WorkerHolds, NoteHolds
  <1> QED BY <1>5, <1>7, <1>8 DEF Life

\* What the decisions leave of a note.
Decided(n, b, a) == [n EXCEPT !.passed = b, !.active = a]

LEMMA DecidedFacts ==
  ASSUME NEW n \in Promotion!Notes, NEW b \in BOOLEAN, NEW a \in Promotion!Digests
  PROVE  Decided(n, b, a) \in Promotion!Notes /\ Decided(n, b, a).candidate = n.candidate /\ Decided(n, b, a).active = a
  BY DEF Promotion!Notes, Decided

LEMMA DecideLife ==
  ASSUME Promotion!TypeOK, Named, NEW s \in Suites, Life(s), Promotion!Decide(s)
  PROVE  Promotion!TypeOK' /\ Life(s)' /\ Others(s)
  <1> DEFINE ok == \A c \in 1..Cases: Promotion!Expected(source, c)
             read == Decided(note[s], ok, Promotion!Active(events))
  <1>1. /\ run[s] = "digest" /\ run' = [run EXCEPT ![s] = "insert"]
        /\ note' = [note EXCEPT ![s] = read] /\ UNCHANGED <<source, events, record, worker>>
    BY DEF Promotion!Decide, Decided
  <1>2. /\ ok \in BOOLEAN /\ Promotion!Active(events) \in Promotion!Digests
        /\ note[s] \in Promotion!Notes /\ note[s].candidate \in Policies
    BY <1>1, EventsFacts DEF Promotion!TypeOK, Life, NoteHolds
  <1>3. read \in Promotion!Notes /\ read.candidate = note[s].candidate /\ read.active = Promotion!Active(events)
    <2> HIDE DEF ok
    <2> QED BY <1>2, DecidedFacts
  <1> HIDE DEF read
  <1>4. /\ run'[s] = "insert" /\ note'[s] = read
        /\ \A t \in Suites \ {s}: run'[t] = run[t] /\ note'[t] = note[t]
    BY <1>1 DEF Promotion!TypeOK
  <1>5. Promotion!TypeOK'
    BY <1>1, <1>3 DEF Promotion!TypeOK, Promotion!Places
  <1>6. record[s].state = "none" /\ NoEvents(s) /\ worker[s] = "idle"
    BY <1>1 DEF Life, RunHolds, WorkerHolds, Promotion!TypeOK
  <1>7. RecordHolds(s)' /\ NoEvents(s)' /\ Others(s)
    BY <1>1, <1>4, <1>6, Moves DEF Others
  <1>8. RunHolds(s)' /\ WorkerHolds(s)' /\ NoteHolds(s)'
    BY <1>1, <1>2, <1>3, <1>4, <1>6, <1>7 DEF RunHolds, WorkerHolds, NoteHolds
  <1> QED BY <1>5, <1>7, <1>8 DEF Life

-----------------------------------------------------------------------------
(* The steps that write a record. *)

\* What a case leaves of a record.
Ran(r, n, e) == [r EXCEPT !.state = "paused", !.cases = n, !.expected = @ /\ e]

LEMMA RanFacts ==
  ASSUME NEW r \in Promotion!Records, NEW n \in 0..Cases, NEW e \in BOOLEAN
  PROVE  /\ Ran(r, n, e) \in Promotion!Records /\ Ran(r, n, e).state = "paused" /\ Ran(r, n, e).cases = n
         /\ Ran(r, n, e).digest = r.digest /\ Ran(r, n, e).head = r.head
         /\ Ran(r, n, e).expected <=> r.expected /\ e
  <1>1. Ran(r, n, e) = [r EXCEPT !.state = "paused", !.cases = n, !.expected = r.expected /\ e]
    BY DEF Ran, Promotion!Records
  <1>2. ASSUME NEW b \in BOOLEAN
        PROVE  LET x == [r EXCEPT !.state = "paused", !.cases = n, !.expected = b]
               IN  /\ x \in Promotion!Records /\ x.state = "paused" /\ x.cases = n /\ x.digest = r.digest
                   /\ x.head = r.head /\ x.expected = b
    BY <1>2 DEF Promotion!Records
  <1>3. (r.expected /\ e) \in BOOLEAN
    OBVIOUS
  <1> QED BY <1>1, <1>2, <1>3

\* A record that was begun, or is begun now, names the policy file there is.
LEMMA BegunFacts ==
  ASSUME Promotion!TypeOK, Named, NEW s \in Suites, Life(s), run[s] \in {"new", "case"}, Promotion!Resumable(s)
  PROVE  /\ Promotion!Begun(s) \in Promotion!Records /\ Promotion!Begun(s).digest = source
         /\ Promotion!Begun(s).head \in 1..Len(events)
         /\ Promotion!Begun(s).cases \in 0..Cases - 1
         /\ Promotion!Begun(s).expected => \A c \in 1..Promotion!Begun(s).cases: Promotion!Expected(source, c)
  <1>1. Cases \in Nat /\ Cases >= 1 /\ source \in Policies /\ Len(events) \in Nat /\ Len(events) >= 1
        /\ Len(events) \in 0..MaxEvents /\ MaxEvents \in Nat
    BY EventsFacts DEF Named, Promotion!TypeOK
  <1>2. CASE record[s].state = "none"
    <2>1. Promotion!Begun(s) = [Promotion!NoRecord EXCEPT !.digest = source, !.head = Len(events)]
      BY <1>2 DEF Promotion!Begun
    <2>2. Promotion!Begun(s) =
            [state |-> "none", digest |-> source, head |-> Len(events), cases |-> 0, expected |-> TRUE]
      BY <2>1 DEF Promotion!NoRecord
    <2>3. \A c \in 1..0: FALSE
      OBVIOUS
    <2> QED BY <1>1, <2>2, <2>3 DEF Promotion!Records
  <1>3. CASE record[s].state # "none"
    <2>1. Promotion!Begun(s) = record[s] /\ record[s].digest = source
      BY <1>3 DEF Promotion!Begun, Promotion!Resumable
    <2>2. record[s] \in Promotion!Records /\ record[s].cases \in 0..Cases
      BY DEF Promotion!TypeOK, Promotion!Records
    <2>3. run[s] = "case"
      BY <1>3 DEF Life, RunHolds
    <2>4. record[s].cases < Cases /\ record[s].head \in 1..Len(events)
          /\ (record[s].expected => \A c \in 1..record[s].cases: Promotion!Expected(record[s].digest, c))
      BY <1>3, <2>3 DEF Life, RunHolds, RecordHolds
    <2>5. record[s].cases \in 0..Cases - 1
      BY <1>1, <2>2, <2>4
    <2> QED BY <2>1, <2>2, <2>4, <2>5
  <1> QED BY <1>2, <1>3

LEMMA RunCaseLife ==
  ASSUME Promotion!TypeOK, Named, NEW s \in Suites, Life(s), Promotion!RunCase(s)
  PROVE  Promotion!TypeOK' /\ Life(s)' /\ Others(s)
  <1> DEFINE done == Promotion!Begun(s).cases + 1
             e == Promotion!Expected(source, done)
             new == Ran(Promotion!Begun(s), done, e)
  <1>1. /\ run[s] \in {"new", "case"} /\ Promotion!Resumable(s) /\ run' = [run EXCEPT ![s] = "check"]
        /\ record' = [record EXCEPT ![s] = new] /\ UNCHANGED <<source, events, worker, note>>
    BY DEF Promotion!RunCase, Ran
  <1>2. /\ Promotion!Begun(s) \in Promotion!Records /\ Promotion!Begun(s).digest = source
         /\ Promotion!Begun(s).head \in 1..Len(events)
        /\ Promotion!Begun(s).cases \in 0..Cases - 1
        /\ Promotion!Begun(s).expected => \A c \in 1..Promotion!Begun(s).cases: Promotion!Expected(source, c)
    BY <1>1, BegunFacts
  <1>3. done \in 0..Cases /\ e \in BOOLEAN /\ \A c \in 1..done: c \in 1..Promotion!Begun(s).cases \/ c = done
    <2>1. done \in 0..Cases /\ \A c \in 1..done: c \in 1..Promotion!Begun(s).cases \/ c = done
      BY <1>2 DEF Named
    <2> QED BY <2>1 DEF Promotion!Expected
  <1>4. /\ new \in Promotion!Records /\ new.state = "paused" /\ new.cases = done /\ new.digest = source
        /\ new.head \in 1..Len(events) /\ (new.expected <=> Promotion!Begun(s).expected /\ e)
    <2> HIDE DEF done, e
    <2> QED BY <1>2, <1>3, RanFacts
  <1>5. new.expected => \A c \in 1..new.cases: Promotion!Expected(source, c)
    <2> HIDE DEF new
    <2> QED BY <1>2, <1>3, <1>4
  <1> HIDE DEF new, done, e
  <1>6. /\ run'[s] = "check" /\ record'[s] = new
        /\ \A t \in Suites \ {s}: run'[t] = run[t] /\ record'[t] = record[t]
    BY <1>1 DEF Promotion!TypeOK
  <1>7. Promotion!TypeOK'
    BY <1>1, <1>4 DEF Promotion!TypeOK, Promotion!Places
  <1>8. \A t \in Suites: Extended(t)
    BY <1>1, Unextended
  <1>9. Others(s)
    BY <1>1, <1>6, <1>8 DEF Others, Untouched
  <1>10. NoEvents(s) /\ worker[s] = "idle"
    BY <1>1 DEF Life, RunHolds, WorkerHolds, Promotion!TypeOK
  <1>11. NoEvents(s)'
    BY <1>8, <1>10, SameNoEvents
  <1>12. RecordHolds(s)'
    <2>1. source \in Policies /\ events' = events
      BY <1>1 DEF Promotion!TypeOK
    <2>2. \A c \in 1..new.cases: Promotion!Expected(source, c) = Promotion!Expected(new.digest, c)
      BY <1>4
    <2> QED BY <1>4, <1>5, <1>6, <1>11, <2>1 DEF RecordHolds, Promotion!Expected
  <1>13. RunHolds(s)' /\ WorkerHolds(s)' /\ NoteHolds(s)'
    BY <1>1, <1>4, <1>6, <1>10, <1>11 DEF RunHolds, WorkerHolds, NoteHolds
  <1> QED BY <1>7, <1>9, <1>12, <1>13 DEF Life

LEMMA CaseBrokenLife ==
  ASSUME Promotion!TypeOK, Named, NEW s \in Suites, Life(s), Promotion!CaseBroken(s)
  PROVE  Promotion!TypeOK' /\ Life(s)' /\ Others(s)
  <1> DEFINE new == [Promotion!Begun(s) EXCEPT !.state = "running"]
  <1>1. /\ run[s] \in {"new", "case"} /\ Promotion!Resumable(s) /\ run' = [run EXCEPT ![s] = "failed"]
        /\ record' = [record EXCEPT ![s] = new] /\ UNCHANGED <<source, events, worker, note>>
    BY DEF Promotion!CaseBroken
  <1>2. /\ Promotion!Begun(s) \in Promotion!Records /\ Promotion!Begun(s).digest = source
         /\ Promotion!Begun(s).head \in 1..Len(events)
        /\ Promotion!Begun(s).expected => \A c \in 1..Promotion!Begun(s).cases: Promotion!Expected(source, c)
    BY <1>1, BegunFacts
  <1>3. /\ new \in Promotion!Records /\ new.state = "running" /\ new.cases = Promotion!Begun(s).cases
        /\ new.digest = source
        /\ new.head \in 1..Len(events) /\ new.expected = Promotion!Begun(s).expected
    <2>1. ASSUME NEW r \in Promotion!Records
          PROVE  LET x == [r EXCEPT !.state = "running"]
                 IN  /\ x \in Promotion!Records /\ x.state = "running" /\ x.cases = r.cases /\ x.digest = r.digest
                     /\ x.head = r.head /\ x.expected = r.expected
      BY <2>1 DEF Promotion!Records
    <2> QED BY <1>2, <2>1
  <1> HIDE DEF new
  <1>4. new.expected => \A c \in 1..new.cases: Promotion!Expected(source, c)
    BY <1>2, <1>3
  <1>6. /\ run'[s] = "failed" /\ record'[s] = new
        /\ \A t \in Suites \ {s}: run'[t] = run[t] /\ record'[t] = record[t]
    BY <1>1 DEF Promotion!TypeOK
  <1>7. Promotion!TypeOK'
    BY <1>1, <1>3 DEF Promotion!TypeOK, Promotion!Places
  <1>8. \A t \in Suites: Extended(t)
    BY <1>1, Unextended
  <1>9. Others(s)
    BY <1>1, <1>6, <1>8 DEF Others, Untouched
  <1>10. NoEvents(s) /\ worker[s] = "idle"
    BY <1>1 DEF Life, RunHolds, WorkerHolds, Promotion!TypeOK
  <1>11. NoEvents(s)'
    BY <1>8, <1>10, SameNoEvents
  <1>12. RecordHolds(s)'
    <2>1. source \in Policies /\ events' = events
      BY <1>1 DEF Promotion!TypeOK
    <2> QED BY <1>3, <1>4, <1>6, <1>11, <2>1 DEF RecordHolds, Promotion!Expected
  <1>13. RunHolds(s)' /\ WorkerHolds(s)' /\ NoteHolds(s)'
    BY <1>1, <1>6, <1>10 DEF RunHolds, WorkerHolds, NoteHolds
  <1> QED BY <1>7, <1>9, <1>12, <1>13 DEF Life

LEMMA WriteRecordLife ==
  ASSUME Promotion!TypeOK, Named, NEW s \in Suites, Life(s), Promotion!WriteRecord(s)
  PROVE  Promotion!TypeOK' /\ Life(s)' /\ Others(s)
  <1> DEFINE new == [record[s] EXCEPT !.state = "finished"]
  <1>1. /\ worker[s] = "write" /\ record' = [record EXCEPT ![s] = new]
        /\ worker' = [worker EXCEPT ![s] = "idle"] /\ UNCHANGED <<source, events, note>>
    BY DEF Promotion!WriteRecord
  <1>2. record[s].state = "paused" /\ run[s] \in {"waiting", "failed"}
    BY <1>1 DEF Life, WorkerHolds
  <1>3. /\ new \in Promotion!Records /\ new.state = "finished" /\ new.cases = record[s].cases
        /\ new.digest = record[s].digest /\ new.head = record[s].head /\ new.expected = record[s].expected
    <2>1. ASSUME NEW r \in Promotion!Records
          PROVE  LET x == [r EXCEPT !.state = "finished"]
                 IN  /\ x \in Promotion!Records /\ x.state = "finished" /\ x.cases = r.cases /\ x.digest = r.digest
                     /\ x.head = r.head /\ x.expected = r.expected
      BY <2>1 DEF Promotion!Records
    <2> QED BY <2>1 DEF Promotion!TypeOK
  <1> HIDE DEF new
  <1>4. PICK p \in {"final", "failed"}: run' = [run EXCEPT ![s] = p]
    <2>1. run[s] = "failed" => run = [run EXCEPT ![s] = "failed"]
      BY DEF Promotion!TypeOK
    <2> QED BY <1>2, <2>1 DEF Promotion!WriteRecord, Promotion!Answered
  <1>5. /\ run'[s] = p /\ record'[s] = new /\ worker'[s] = "idle"
        /\ \A t \in Suites \ {s}: run'[t] = run[t] /\ record'[t] = record[t] /\ worker'[t] = worker[t]
    BY <1>1, <1>4 DEF Promotion!TypeOK
  <1>6. Promotion!TypeOK'
    BY <1>1, <1>3, <1>4 DEF Promotion!TypeOK, Promotion!Places
  <1>7. \A t \in Suites: Extended(t)
    BY <1>1, Unextended
  <1>8. Others(s)
    BY <1>1, <1>5, <1>7 DEF Others, Untouched
  <1>9. RecordHolds(s)'
    BY <1>2, <1>3, <1>5, <1>7, SameRecordHolds DEF SameRecord, Life
  <1>10. RunHolds(s)' /\ WorkerHolds(s)' /\ NoteHolds(s)'
    BY <1>3, <1>5 DEF RunHolds, WorkerHolds, NoteHolds
  <1> QED BY <1>6, <1>8, <1>9, <1>10 DEF Life

-----------------------------------------------------------------------------
(* The steps that write the ledger. *)

\* The three events of a promotion.
Triple(new, old, s) == <<Promotion!Event("promote", new, old, s),
                         Promotion!Event("rollback", old, new, s), Promotion!Event("promote", new, old, s)>>

LEMMA TripleFacts ==
  ASSUME Promotion!TypeOK, Named, NEW s \in Suites, NEW new \in Promotion!Digests, NEW old \in Promotion!Digests,
         Len(events) + 3 <= MaxEvents, events' = events \o Triple(new, old, s)
  PROVE  /\ events' \in Seq(Promotion!Events) /\ Len(events') = Len(events) + 3 /\ Len(events') \in 1..MaxEvents
         /\ \A k \in 1..Len(events): events'[k] = events[k]
         /\ events'[Len(events) + 1] = Promotion!Event("promote", new, old, s)
         /\ events'[Len(events) + 2] = Promotion!Event("rollback", old, new, s)
         /\ events'[Len(events) + 3] = Promotion!Event("promote", new, old, s)
         /\ \A t \in Suites \ {s}: Extended(t)
  <1> DEFINE a == Promotion!Event("promote", new, old, s)
             b == Promotion!Event("rollback", old, new, s)
  <1>1. a \in Promotion!Events /\ b \in Promotion!Events /\ a.suite = s /\ b.suite = s
    BY DEF Promotion!Events, Promotion!Event
  <1>2. events' = events \o <<a, b, a>>
    BY DEF Triple
  <1> HIDE DEF a, b
  <1>3. events \in Seq(Promotion!Events) /\ Len(events) \in Nat /\ Len(events) >= 1 /\ MaxEvents \in Nat
    BY EventsFacts DEF Named
  <1>4. <<a, b, a>> \in Seq(Promotion!Events) /\ Len(<<a, b, a>>) = 3
    BY <1>1
  <1>5. events' \in Seq(Promotion!Events) /\ Len(events') = Len(events) + 3
    BY <1>2, <1>3, <1>4
  <1>6. \A k \in 1..Len(events): events'[k] = events[k]
    BY <1>2, <1>3, <1>4
  <1>7. events'[Len(events) + 1] = a /\ events'[Len(events) + 2] = b /\ events'[Len(events) + 3] = a
    BY <1>2, <1>3, <1>4
  <1>8. \A k \in Len(events) + 1 .. Len(events'): events'[k].suite = s
    <2>1. \A k \in Len(events) + 1 .. Len(events'):
            k = Len(events) + 1 \/ k = Len(events) + 2 \/ k = Len(events) + 3
      BY <1>3, <1>5
    <2> QED BY <1>1, <1>7, <2>1
  <1>9. Len(events') \in 1..MaxEvents /\ Len(events') \in Nat /\ Len(events') >= Len(events)
    BY <1>3, <1>5
  <1>10. \A t \in Suites \ {s}: Extended(t)
    BY <1>6, <1>8, <1>9 DEF Extended
  <1> QED BY <1>5, <1>6, <1>7, <1>9, <1>10 DEF a, b

\* The compare-and-swap found the head the run's first case saw: the block goes right behind it.
LEMMA PromoteLife ==
  ASSUME Promotion!TypeOK, Named, NEW s \in Suites, Life(s), Promotion!Promote(s)
  PROVE  Promotion!TypeOK' /\ Life(s)' /\ Others(s)
  <1> DEFINE old == Promotion!Active(events)
             new == record[s].digest
             h == record[s].head
  <1>1. /\ worker[s] = "cas" /\ Len(events) = h /\ Len(events) + 3 <= MaxEvents
        /\ events' = events \o Triple(new, old, s) /\ worker' = [worker EXCEPT ![s] = "write"]
        /\ UNCHANGED <<source, record, run, note>>
    BY DEF Promotion!Promote, Promotion!Unmoved, Triple
  <1>2. /\ run[s] \in {"waiting", "failed"} /\ record[s].state = "paused" /\ NoEvents(s)
        /\ record[s].cases = Cases /\ record[s].expected
    BY <1>1 DEF Life, WorkerHolds
  <1>3. /\ new \in Policies /\ h \in 1..Len(events)
        /\ (record[s].expected => \A c \in 1..record[s].cases: Promotion!Expected(new, c))
    BY <1>2 DEF Life, RecordHolds
  <1>4. new \in Promotion!Digests /\ old \in Promotion!Digests
    BY <1>3, EventsFacts DEF Promotion!Digests
  <1> HIDE DEF new, old
  <1>5. /\ events' \in Seq(Promotion!Events) /\ Len(events') = Len(events) + 3 /\ Len(events') \in 1..MaxEvents
        /\ \A k \in 1..Len(events): events'[k] = events[k]
        /\ events'[Len(events) + 1] = Promotion!Event("promote", new, old, s)
        /\ events'[Len(events) + 2] = Promotion!Event("rollback", old, new, s)
        /\ events'[Len(events) + 3] = Promotion!Event("promote", new, old, s)
        /\ \A t \in Suites \ {s}: Extended(t)
    BY <1>1, <1>4, TripleFacts
  <1>6. worker'[s] = "write" /\ \A t \in Suites \ {s}: worker'[t] = worker[t]
    BY <1>1 DEF Promotion!TypeOK
  <1>7. Promotion!TypeOK'
    <2>1. worker' \in [Suites -> {"idle", "cas", "write"}]
      BY <1>1 DEF Promotion!TypeOK
    <2> QED BY <1>1, <1>5, <2>1 DEF Promotion!TypeOK
  <1>8. Others(s)
    BY <1>1, <1>5, <1>6 DEF Others, Untouched
  <1>9. Whole(s)'
    <2>1. record'[s].head = h /\ record'[s].digest = new /\ record'[s].cases = Cases /\ record'[s].expected
      BY <1>1, <1>2 DEF new
    <2>2. events'[h].digest = old
      BY <1>1, <1>3, <1>5 DEF old, Promotion!Active
    <2>3. Len(events) \in Nat /\ h \in Nat
      BY <1>1, EventsFacts
    <2>4. \A k \in 1..Len(events'): events'[k].suite = s => k \in h + 1 .. h + 3
      <3>1. ASSUME NEW k \in 1..Len(events'), events'[k].suite = s PROVE k \in h + 1 .. h + 3
        <4>1. k \in 1..Len(events) \/ k \in h + 1 .. h + 3
          BY <1>1, <1>5, <2>3
        <4>2. k \notin 1..Len(events)
          BY <1>2, <1>5, <3>1 DEF NoEvents
        <4> QED BY <4>1, <4>2
      <3> QED BY <3>1
    <2>5. h + 3 <= Len(events')
      BY <1>1, <1>5, <2>3
    <2>6. /\ events'[h + 1] = Promotion!Event("promote", new, old, s)
          /\ events'[h + 2] = Promotion!Event("rollback", old, new, s)
          /\ events'[h + 3] = Promotion!Event("promote", new, old, s)
      BY <1>1, <1>5
    <2> HIDE DEF h
    <2> QED BY <2>1, <2>2, <2>4, <2>5, <2>6 DEF Whole, Promotion!Event
  <1>10. RecordHolds(s)'
    <2>1. h \in 1..Len(events')
      BY <1>3, <1>5, EventsFacts
    <2> QED BY <1>1, <1>3, <1>9, <2>1 DEF RecordHolds, Promotion!Expected, new
  <1>11. RunHolds(s)' /\ WorkerHolds(s)' /\ NoteHolds(s)'
    BY <1>1, <1>2, <1>6 DEF RunHolds, WorkerHolds, NoteHolds
  <1> QED BY <1>7, <1>8, <1>10, <1>11 DEF Life

LEMMA InsertAllLife ==
  ASSUME Promotion!TypeOK, Named, NEW s \in Suites, Life(s), Promotion!InsertAll(s)
  PROVE  Promotion!TypeOK' /\ Life(s)' /\ Others(s)
  <1> DEFINE old == note[s].active
             new == note[s].candidate
  <1>1. /\ run[s] = "insert" /\ run' = [run EXCEPT ![s] = "explored"] /\ note' = [note EXCEPT ![s] = Promotion!NoNote]
        /\ UNCHANGED <<source, record, worker>>
    BY DEF Promotion!InsertAll
  <1>2. /\ record[s].state = "none" /\ worker[s] = "idle" /\ old \in Promotion!Digests /\ new \in Promotion!Digests
    BY <1>1 DEF Life, RunHolds, WorkerHolds, NoteHolds, Promotion!TypeOK, Promotion!Digests
  <1>3. /\ events' \in Seq(Promotion!Events) /\ Len(events') \in 1..MaxEvents
        /\ \A t \in Suites \ {s}: Extended(t)
    <2>1. CASE note[s].passed
      <3>1. Len(events) + 3 <= MaxEvents /\ events' = events \o Triple(new, old, s)
        BY <2>1 DEF Promotion!InsertAll, Triple
      <3> HIDE DEF new, old
      <3> QED BY <1>2, <3>1, TripleFacts
    <2>2. CASE ~note[s].passed
      <3>1. events' = events
        BY <2>2 DEF Promotion!InsertAll
      <3> QED BY <3>1, Unextended DEF Promotion!TypeOK
    <2> QED BY <2>1, <2>2
  <1>4. /\ run'[s] = "explored" /\ \A t \in Suites \ {s}: run'[t] = run[t] /\ note'[t] = note[t]
    BY <1>1 DEF Promotion!TypeOK
  <1>5. Promotion!TypeOK'
    <2>1. note' \in [Suites -> Promotion!Notes] /\ run' \in [Suites -> Promotion!Places]
      BY <1>1 DEF Promotion!TypeOK, Promotion!NoNote, Promotion!Notes, Promotion!Places
    <2> QED BY <1>1, <1>3, <2>1 DEF Promotion!TypeOK
  <1>6. Others(s)
    BY <1>1, <1>3, <1>4 DEF Others, Untouched
  <1>7. RecordHolds(s)' /\ RunHolds(s)' /\ WorkerHolds(s)' /\ NoteHolds(s)'
    BY <1>1, <1>2, <1>4 DEF RecordHolds, RunHolds, WorkerHolds, NoteHolds
  <1> QED BY <1>5, <1>6, <1>7 DEF Life

-----------------------------------------------------------------------------
(* The inductive invariant. *)

LEMMA PromotionInit == Named /\ Promotion!Init => PromotionInv
  <1> SUFFICES ASSUME Named, Promotion!Init PROVE PromotionInv
    OBVIOUS
  <1> DEFINE e == Promotion!Event("baseline", Baseline, None, None)
  <1>1. e \in Promotion!Events /\ e.suite = None
    BY DEF Promotion!Event, Promotion!Events, Promotion!Digests
  <1>2. events = <<e>>
    BY DEF Promotion!Init
  <1> HIDE DEF e
  <1>3. events \in Seq(Promotion!Events) /\ Len(events) = 1 /\ events[1] = e
    BY <1>1, <1>2
  <1>4. Promotion!NoRecord \in Promotion!Records /\ Promotion!NoNote \in Promotion!Notes
    BY DEF Promotion!NoRecord, Promotion!Records, Promotion!NoNote, Promotion!Notes, Named
  <1>5. Promotion!TypeOK
    <2>1. Len(events) \in 1..MaxEvents
      BY <1>3 DEF Named
    <2> QED BY <1>3, <1>4, <2>1 DEF Promotion!Init, Promotion!TypeOK, Promotion!Places
  <1>6. ASSUME NEW s \in Suites PROVE Life(s)
    <2>1. NoEvents(s)
      BY <1>1, <1>3 DEF NoEvents, Named
    <2>2. record[s].state = "none" /\ run[s] = "new" /\ worker[s] = "idle"
      BY DEF Promotion!Init, Promotion!NoRecord
    <2> QED BY <2>1, <2>2 DEF Life, RecordHolds, RunHolds, WorkerHolds, NoteHolds
  <1> QED BY <1>5, <1>6 DEF PromotionInv

\* The death of the store ends its threads and what waits for them.
LEMMA CrashLife ==
  ASSUME PromotionInv, Named, Promotion!Crash
  PROVE  PromotionInv'
  <1>1. /\ worker' = [s \in Suites |-> "idle"] /\ note' = [s \in Suites |-> Promotion!NoNote]
        /\ run' = [s \in Suites |-> IF run[s] \in {"waiting", "digest", "insert"} THEN "failed" ELSE run[s]]
        /\ UNCHANGED <<source, events, record>>
    BY DEF Promotion!Crash
  <1>2. Promotion!TypeOK
    BY DEF PromotionInv
  <1>3. Promotion!TypeOK'
    <2>1. run' \in [Suites -> Promotion!Places]
      BY <1>1, <1>2 DEF Promotion!TypeOK, Promotion!Places
    <2> QED BY <1>1, <1>2, <2>1 DEF Promotion!TypeOK, Promotion!NoNote, Promotion!Notes
  <1>4. ASSUME NEW s \in Suites PROVE Life(s)'
    <2>1. Life(s)
      BY DEF PromotionInv
    <2>2. RecordHolds(s)' /\ (NoEvents(s)' <=> NoEvents(s))
      BY <1>1, <1>2, <2>1, Moves
    <2>3. worker'[s] = "idle" /\ run'[s] \notin {"digest", "insert"} /\ run'[s] \in {run[s], "failed"}
      BY <1>1
    <2>4. RunHolds(s)'
      BY <1>1, <2>1, <2>2, <2>3 DEF Life, RunHolds
    <2> QED BY <2>2, <2>3, <2>4 DEF Life, WorkerHolds, NoteHolds
  <1> QED BY <1>3, <1>4 DEF PromotionInv

LEMMA EditLife ==
  ASSUME PromotionInv, Named, Promotion!Edit
  PROVE  PromotionInv'
  <1>1. source' \in Policies /\ UNCHANGED <<events, record, run, worker, note>>
    BY DEF Promotion!Edit
  <1>2. Promotion!TypeOK'
    BY <1>1 DEF PromotionInv, Promotion!TypeOK
  <1>3. ASSUME NEW s \in Suites PROVE Life(s)'
    BY <1>1, KeptLife, Unextended DEF Untouched, PromotionInv
  <1> QED BY <1>2, <1>3 DEF PromotionInv

LEMMA StepLife ==
  ASSUME PromotionInv, Named, NEW s \in Suites, Promotion!Step(s)
  PROVE  PromotionInv'
  <1>1. Promotion!TypeOK /\ Life(s)
    BY DEF PromotionInv
  <1>2. Promotion!TypeOK' /\ Life(s)' /\ Others(s)
    BY <1>1, RunCaseLife, CaseBrokenLife, CaseRefusedLife, CheckCaseLife, CheckHeadLife, ReadRecordLife,
       PromoteLife, CasRejectedLife, WriteRecordLife, FinalCheckLife, GiveUpLife, RunAllLife, DecideLife,
       InsertAllLife, Zenon DEF Promotion!Step
  <1>3. \A t \in Suites \ {s}: Life(t)'
    BY <1>1, <1>2, KeptLife DEF Others, PromotionInv
  <1> QED BY <1>2, <1>3 DEF PromotionInv

LEMMA PromotionNext ==
  ASSUME PromotionInv, Named, [Promotion!Next]_(Promotion!vars)
  PROVE  PromotionInv'
  <1>1. CASE UNCHANGED Promotion!vars
    <2>1. UNCHANGED <<source, events, record, run, worker, note>>
      BY <1>1 DEF Promotion!vars
    <2>2. Promotion!TypeOK'
      BY <2>1 DEF PromotionInv, Promotion!TypeOK
    <2>3. ASSUME NEW s \in Suites PROVE Life(s)'
      BY <2>1, KeptLife, Unextended DEF Untouched, PromotionInv
    <2> QED BY <2>2, <2>3 DEF PromotionInv
  <1> QED BY <1>1, StepLife, CrashLife, EditLife DEF Promotion!Next

\* In every reachable state the store's variables are what the code stores, and the record,
\* the run, the store's thread and the events of every suite agree.
THEOREM PromotionInductive == ASSUME Named PROVE Promotion!Spec => []PromotionInv
  <1>1. Promotion!Init => PromotionInv
    BY PromotionInit
  <1>2. PromotionInv /\ [Promotion!Next]_(Promotion!vars) => PromotionInv'
    BY PromotionNext
  <1> QED BY <1>1, <1>2, PTL DEF Promotion!Spec

\* The last case of a record that was promoted was expected.
LEMMA WholeIsGood ==
  ASSUME Promotion!TypeOK, Named, NEW s \in Suites, RecordHolds(s), record[s].state # "none", Whole(s)
  PROVE  record[s].digest \in Good
  <1>1. record[s].cases = Cases /\ record[s].expected
    BY DEF Whole
  <1>2. Cases \in 1..Cases /\ ~(Cases < Cases)
    BY DEF Named
  <1>3. Promotion!Expected(record[s].digest, Cases)
    BY <1>1, <1>2 DEF RecordHolds
  <1> QED BY <1>2, <1>3 DEF Promotion!Expected

\* promote_sequence: whatever other runs, explorations, edits of the policy file and deaths of
\* the store lie between its cases and its promotion, the file a run promotes is the one all its
\* cases ran on, and every one of them came out as expected.
THEOREM PromotionTested == ASSUME Named PROVE Promotion!Spec => []Promotion!PromotedWasTested
  <1>1. PromotionInv => Promotion!PromotedWasTested
    <2> SUFFICES ASSUME PromotionInv, NEW k \in 1..Len(events), NEW s \in Suites,
                        events[k].suite = s, events[k].event = "promote", record[s].state # "none"
                 PROVE  events[k].digest \in Good /\ record[s].cases = Cases
      BY DEF Promotion!PromotedWasTested
    <2>1. Promotion!TypeOK /\ RecordHolds(s)
      BY DEF PromotionInv, Life
    <2>2. Whole(s)
      BY <2>1 DEF RecordHolds, NoEvents
    <2> DEFINE h == record[s].head
               new == record[s].digest
    <2>3. k \in h + 1 .. h + 3 /\ h \in Nat
      <3>1. h \in 1..Len(events)
        BY <2>1 DEF RecordHolds
      <3> QED BY <2>1, <2>2, <3>1, EventsFacts DEF Whole
    <2>4. k = h + 1 \/ k = h + 2 \/ k = h + 3
      BY <2>3
    <2>5. /\ events[h + 1].digest = new /\ events[h + 3].digest = new /\ events[h + 2].event = "rollback"
          /\ record[s].cases = Cases
      BY <2>2 DEF Whole, Promotion!Event
    <2>6. events[k].digest = new
      BY <2>4, <2>5
    <2>7. new \in Good
      BY <2>1, <2>2, WholeIsGood
    <2> QED BY <2>5, <2>6, <2>7
  <1> QED BY <1>1, PromotionInductive, PTL

\* promote_sequence's compare-and-swap and the verifier's final check: the promote, rollback and
\* promote of a run are one block right behind the head its first case saw, nobody else's
\* promotion lies between, and a run that passed has its block.
THEOREM PromotionOneBlock == ASSUME Named PROVE Promotion!Spec => []Promotion!PromotionIsOneBlock
  <1>1. PromotionInv => Promotion!PromotionIsOneBlock
    <2> SUFFICES ASSUME PromotionInv, NEW s \in Suites, record[s].state # "none"
                 PROVE  /\ \A k \in 1..Len(events): events[k].suite = s =>
                             k \in record[s].head + 1 .. record[s].head + 3
                        /\ (\E k \in 1..Len(events): events[k].suite = s) => Promotion!Block(s)
                        /\ run[s] = "passed" => Promotion!Block(s)
      BY DEF Promotion!PromotionIsOneBlock
    <2>1. Promotion!TypeOK /\ RecordHolds(s) /\ RunHolds(s)
      BY DEF PromotionInv, Life
    <2>2. record[s].head \in 1..Len(events) /\ (NoEvents(s) \/ Whole(s))
      BY <2>1 DEF RecordHolds
    <2>3. Whole(s) => Promotion!Block(s)
      BY <2>1, <2>2, BlockIsWhole DEF Whole
    <2>4. run[s] = "passed" => ~NoEvents(s)
      BY <2>1 DEF RunHolds
    <2> QED BY <2>2, <2>3, <2>4 DEF NoEvents, Whole
  <1> QED BY <1>1, PromotionInductive, PTL

\* PolicyPromotion is well typed.
THEOREM PromotionTypeOK == ASSUME Named PROVE Promotion!Spec => []Promotion!TypeOK
  <1>1. PromotionInv => Promotion!TypeOK
    BY DEF PromotionInv
  <1> QED BY <1>1, PromotionInductive, PTL
===============================================================================

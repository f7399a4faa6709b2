--------------------------- MODULE OperationLedger ---------------------------
(***************************************************************************)
(* The execution ledgers of P02 and P03 (p02_ledger.py, p03_ledger.py) and *)
(* the request threads that drive them (p02_provider.py, p03_provider.py,  *)
(* and the native-record and native-credentials endpoints).  An execution  *)
(* makes each of its operations at most once, one after the other.  The    *)
(* two modules differ in names, and in what native-record does when its    *)
(* record is refused: P03 settles the call as an error, P02 leaves it.     *)
(* A timestamp is a number of time units, 0 standing for SQL NULL.         *)
(***************************************************************************)
EXTENDS Integers, Sequences, SequenceTheorems, TLAPS

CONSTANTS Executions,    \* execution identifiers
          Operations,    \* store_source and embed, or job_status and retrieve
          Threads,       \* request threads
          Ids,           \* identities of provider responses
          NoId, BadId,   \* no response; a response the ledger refuses to store
          NoReq,         \* a thread that works for no execution
          Window,        \* 180 seconds: life of a capability
          MaxTime        \* bound on the clock

VARIABLES now,         \* what time.time returns
          executions,  \* tables p02_executions, p03_executions
          calls,       \* per execution its rows of p02_calls, in the order of sequence
          grants,      \* executions in p02_native_grants
          pc,          \* per thread: its place
          req,         \* per thread: the execution and operation it works for
          answer,      \* per thread: the identity of the response it holds
          served,      \* provider side: how often each operation was performed
          issued       \* STS side: credentials issued for each execution

ledger == <<executions, calls, grants>>
outside == <<served, issued>>
vars == <<now, executions, calls, grants, pc, req, answer, served, issued>>

Times == 1..MaxTime
Registered(e) == executions[e].started # 0
Closed(e) == executions[e].closed # 0
Live(e) == /\ Registered(e) /\ ~Closed(e)
           /\ 0 <= now - executions[e].started /\ now - executions[e].started < Window

Rows(e) == {calls[e][i] : i \in DOMAIN calls[e]}
Stored == UNION {{r.id : r \in Rows(e)} : e \in Executions}

Init == /\ now \in Times
        /\ executions = [e \in Executions |-> [started |-> 0, closed |-> 0]]
        /\ calls = [e \in Executions |-> <<>>]
        /\ grants = {}
        /\ pc = [t \in Threads |-> "idle"]
        /\ req = [t \in Threads |-> NoReq]
        /\ answer = [t \in Threads |-> NoId]
        /\ served = [e \in Executions |-> [o \in Operations |-> 0]]
        /\ issued = [e \in Executions |-> 0]

Goto(t, label) == pc' = [pc EXCEPT ![t] = label]
Return(t) == /\ Goto(t, "idle")
             /\ req' = [req EXCEPT ![t] = NoReq]
             /\ answer' = [answer EXCEPT ![t] = NoId]
Skip(t, from, to) == /\ pc[t] = from
                     /\ Goto(t, to)
                     /\ UNCHANGED <<now, ledger, req, answer, outside>>

-----------------------------------------------------------------------------
(* register and close *)

Register(e) ==
  /\ ~Registered(e)
  /\ executions' = [executions EXCEPT ![e].started = now]
  /\ UNCHANGED <<now, calls, grants, pc, req, answer, outside>>

\* No call is pending, and the clock is not behind the records.
Closable(e) == /\ now >= executions[e].started
               /\ \A r \in Rows(e) : r.state # "pending" /\ now >= r.finished

Close(e) ==
  /\ Registered(e) /\ ~Closed(e)
  /\ Closable(e)
  /\ executions' = [executions EXCEPT ![e].closed = now]
  /\ UNCHANGED <<now, calls, grants, pc, req, answer, outside>>

-----------------------------------------------------------------------------
(* reserve and finish, each one transaction *)

\* Mutant of Reservable: a failed operation may be tried again.
ReservableAgain(e, o) == /\ Live(e)
                         /\ \A r \in Rows(e) : r.state = "error" \/ (r.state = "complete" /\ r.op # o)

\* Everything reserved before is complete, and this operation is not among it.
Reservable(e, o) == /\ Live(e)
                    /\ \A r \in Rows(e) : r.state = "complete" /\ r.op # o

Reserve(t, e, o, label) ==
  /\ pc[t] = "idle"
  /\ Reservable(e, o)
  /\ calls' = [calls EXCEPT ![e] = Append(@, [op |-> o, state |-> "pending", started |-> now,
                                              finished |-> 0, id |-> NoId])]
  /\ req' = [req EXCEPT ![t] = [e |-> e, op |-> o]]
  /\ Goto(t, label)

\* finish has no window of its own: a late answer is still recorded.
Pending(q) == /\ ~Closed(q.e)
              /\ \E r \in Rows(q.e) : r.op = q.op /\ r.state = "pending" /\ now >= r.started

\* Mutant of Settled: an error removes the row.
SettledRemoved(q, state, id) ==
  [calls EXCEPT ![q.e] = IF state = "error" THEN SubSeq(@, 1, Len(@) - 1)
     ELSE [i \in DOMAIN @ |-> IF @[i].op = q.op
             THEN [@[i] EXCEPT !.state = state, !.finished = now, !.id = id] ELSE @[i]]]

\* The outcome of a call is written to its row.
Settled(q, state, id) ==
  [calls EXCEPT ![q.e] = [i \in DOMAIN @ |->
     IF @[i].op = q.op THEN [@[i] EXCEPT !.state = state, !.finished = now, !.id = id] ELSE @[i]]]

\* A response is stored once: its identity is a unique column.
Storable(t) == Pending(req[t]) /\ answer[t] \in Ids \ Stored

-----------------------------------------------------------------------------
(* DocumentProvider.invoke and SearchProvider.invoke *)

Invoke(t, e, o) ==
  /\ Reserve(t, e, o, "calling")
  /\ UNCHANGED <<now, executions, grants, answer, outside>>

\* The provider performs the operation; its answer may be lost or unusable.
Call(t, id) ==
  /\ pc[t] = "calling"
  /\ served' = [served EXCEPT ![req[t].e][req[t].op] = @ + 1]
  /\ \/ answer' = [answer EXCEPT ![t] = id] /\ Goto(t, "finishing")
     \/ answer' = answer /\ Goto(t, "failing")
  /\ UNCHANGED <<now, ledger, req, issued>>

\* The payload is refused, or the call fails before it reaches the provider.
Refuse(t) == Skip(t, "calling", "failing")

Finish(t) ==
  /\ pc[t] \in {"finishing", "recording"}
  /\ Storable(t)
  /\ calls' = Settled(req[t], "complete", answer[t])
  /\ Return(t)
  /\ UNCHANGED <<now, executions, grants, outside>>

FinishRefused(t) == Skip(t, "finishing", "failing") /\ ~Storable(t)

\* "Preserve the attempt, not zero calls": the call is settled as an error,
\* unless the ledger refuses even that.
Fail(t) ==
  /\ pc[t] = "failing"
  /\ calls' = IF Pending(req[t]) THEN Settled(req[t], "error", NoId) ELSE calls
  /\ Return(t)
  /\ UNCHANGED <<now, executions, grants, outside>>

-----------------------------------------------------------------------------
(* native-record: the control plane reports a call made with the SDK. *)

NativeRecord(t, e, o, id) ==
  /\ Reserve(t, e, o, "recording")
  /\ answer' = [answer EXCEPT ![t] = id]
  /\ UNCHANGED <<now, executions, grants, outside>>

\* A report without a response is an error at once; a refused one is settled
\* by P03 and left pending by P02.
NativeRefused(t) ==
  /\ pc[t] = "recording"
  /\ ~Storable(t)
  /\ \/ Goto(t, "failing") /\ UNCHANGED <<req, answer>>
     \/ answer[t] # NoId /\ Return(t)                     \* P02 alone
  /\ UNCHANGED <<now, ledger, outside>>

-----------------------------------------------------------------------------
(* native-credentials: authorize, claim the execution's only grant, issue. *)

AuthorizeNative(t, e) ==
  /\ pc[t] = "idle"
  /\ Live(e)
  /\ req' = [req EXCEPT ![t] = [e |-> e, op |-> NoReq]]
  /\ Goto(t, "claiming")
  /\ UNCHANGED <<now, ledger, answer, outside>>

Claimable(e) == e \notin grants

ClaimGrant(t) ==
  /\ pc[t] = "claiming"
  /\ Claimable(req[t].e)
  /\ grants' = grants \cup {req[t].e}
  /\ Goto(t, "issuing")
  /\ UNCHANGED <<now, executions, calls, req, answer, outside>>

ClaimRefused(t) == /\ pc[t] = "claiming"
                   /\ ~Claimable(req[t].e)
                   /\ Return(t)
                   /\ UNCHANGED <<now, ledger, outside>>

\* STS issues the credentials, or fails; either way the grant is used up.
Issue(t) ==
  /\ pc[t] = "issuing"
  /\ \/ issued' = [issued EXCEPT ![req[t].e] = @ + 1]
     \/ issued' = issued
  /\ Return(t)
  /\ UNCHANGED <<now, ledger, served>>

-----------------------------------------------------------------------------
Crash == /\ pc' = [t \in Threads |-> "idle"]
         /\ req' = [t \in Threads |-> NoReq]
         /\ answer' = [t \in Threads |-> NoId]
         /\ UNCHANGED <<now, ledger, outside>>

Tick == /\ now' \in Times
        /\ UNCHANGED <<ledger, pc, req, answer, outside>>

Step(t) == \/ \E id \in Ids : Call(t, id)
           \/ Refuse(t) \/ Finish(t) \/ FinishRefused(t) \/ Fail(t) \/ NativeRefused(t)
           \/ ClaimGrant(t) \/ ClaimRefused(t) \/ Issue(t)

Next == \/ \E e \in Executions : Register(e) \/ Close(e)
        \/ \E t \in Threads, e \in Executions :
              \/ \E o \in Operations : \/ Invoke(t, e, o)
                                       \/ \E id \in Ids \cup {NoId, BadId} : NativeRecord(t, e, o, id)
              \/ AuthorizeNative(t, e)
        \/ \E t \in Threads : Step(t)
        \/ Crash \/ Tick

Spec == Init /\ [][Next]_vars

-----------------------------------------------------------------------------
(* Properties. *)

Labels == {"idle", "calling", "finishing", "failing", "recording", "claiming", "issuing"}
CallRows == [op : Operations, state : {"pending", "complete", "error"}, started : Times,
             finished : 0..MaxTime, id : Ids \cup {NoId}]
Requests == [e : Executions, op : Operations \cup {NoReq}]

TypeOK ==
  /\ now \in Times
  /\ executions \in [Executions -> [started : 0..MaxTime, closed : 0..MaxTime]]
  /\ calls \in [Executions -> Seq(CallRows)]
  /\ grants \subseteq Executions
  /\ pc \in [Threads -> Labels]
  /\ req \in [Threads -> {NoReq} \cup Requests]
  /\ \A t \in Threads : pc[t] = "idle" \/ req[t] \in Requests
  /\ answer \in [Threads -> Ids \cup {NoId, BadId}]
  /\ served \in [Executions -> [Operations -> Nat]]
  /\ issued \in [Executions -> Nat]

\* The calls of an execution are different operations, each reserved only
\* after the one before completed: whatever is not complete is the last.
OneAfterAnother ==
  \A e \in Executions : \A i, j \in DOMAIN calls[e] : i < j =>
    calls[e][i].state = "complete" /\ calls[e][i].op # calls[e][j].op

\* An operation is performed at most once for an execution, and one that was
\* performed is a row of the ledger; a success has a response, and no response
\* stands for two operations.
EffectsRecorded ==
  \A e \in Executions, o \in Operations :
    /\ served[e][o] <= 1
    /\ served[e][o] = 1 => \E r \in Rows(e) : r.op = o
    /\ \A r \in Rows(e) : r.op = o /\ r.state = "complete" =>
         /\ r.id \in Ids
         /\ \A x \in Executions : \A q \in Rows(x) : q.id = r.id => x = e /\ q.op = o

\* Nothing of a closed execution changes any more: its rows stay, and the provider
\* performs nothing for it, however late a thread or its answer is.
ClosedIsFinal ==
  [][\A e \in Executions : Closed(e) => /\ executions'[e].closed = executions[e].closed
                                       /\ calls'[e] = calls[e] /\ served'[e] = served[e]]_vars

-----------------------------------------------------------------------------
(* Proofs, for any executions, operations, threads and response ids.  What *)
(* they need of the constants is a hypothesis of the theorems: NoId is not *)
(* a response, and the clock has a bound.  First, the inductive invariant. *)

Sentinels == NoId \notin Ids /\ MaxTime \in Nat

\* A thread that has reserved a row, and must settle it.
Busy == {"calling", "finishing", "failing", "recording"}

HasRow(e, o) == \E i \in DOMAIN calls[e] : calls[e][i].op = o
HasPending(e, o) == \E i \in DOMAIN calls[e] : calls[e][i].op = o /\ calls[e][i].state = "pending"

\* The row of a busy thread is pending, so its execution cannot close, ...
Owned == \A t \in Threads : pc[t] \in Busy =>
  /\ req[t] \in [e : Executions, op : Operations]
  /\ ~Closed(req[t].e) /\ HasPending(req[t].e, req[t].op)
\* ... nor can another thread work for it.
OneOwner == \A t, u \in Threads : t # u /\ pc[t] \in Busy /\ pc[u] \in Busy => req[t].e # req[u].e

\* What was performed has a row; who is about to call did not call yet.
Performed == \A e \in Executions, o \in Operations :
  served[e][o] \in {0, 1} /\ (served[e][o] = 1 => HasRow(e, o))
Uncalled == \A t \in Threads : pc[t] = "calling" => served[req[t].e][req[t].op] = 0

\* Complete rows, and no others, have a response, each its own.
RowIds == \A e \in Executions : \A i \in DOMAIN calls[e] :
  /\ calls[e][i].state = "complete" <=> calls[e][i].id \in Ids
  /\ \A x \in Executions : \A j \in DOMAIN calls[x] :
       calls[e][i].id \in Ids /\ calls[x][j].id = calls[e][i].id => x = e /\ j = i

WorkInv == Owned /\ OneOwner /\ Performed /\ Uncalled /\ RowIds /\ OneAfterAnother
OInv == TypeOK /\ WorkInv

-----------------------------------------------------------------------------
(* Rows. *)

\* The rows of an execution, in the order of sequence.
LEMMA RowsOf ==
  ASSUME TypeOK, NEW e \in Executions
  PROVE  /\ calls[e] \in Seq(CallRows) /\ Len(calls[e]) \in Nat /\ DOMAIN calls[e] = 1..Len(calls[e])
         /\ \A i \in DOMAIN calls[e] : calls[e][i] \in CallRows
         /\ Rows(e) = {calls[e][i] : i \in DOMAIN calls[e]}
<1>1. calls[e] \in Seq(CallRows)
  BY DEF TypeOK
<1> QED BY <1>1, LenProperties DEF Rows

\* A change of rows in their places keeps the sequence and its length.
LEMMA SameLength ==
  ASSUME NEW S, NEW s \in Seq(S), NEW f \in [DOMAIN s -> S]
  PROVE  f \in Seq(S) /\ DOMAIN f = DOMAIN s
<1>1. Len(s) \in Nat /\ DOMAIN s = 1..Len(s)
  BY LenProperties
<1>2. f \in [1..Len(s) -> S]
  BY <1>1
<1> QED BY <1>1, <1>2, SeqDef

NewCall(o) == [op |-> o, state |-> "pending", started |-> now, finished |-> 0, id |-> NoId]

\* A reservation adds a row for an operation that had none, to complete ones.
LEMMA Reserved ==
  ASSUME Sentinels, TypeOK, NEW t \in Threads, NEW e \in Executions, NEW o \in Operations, NEW label,
         Reserve(t, e, o, label)
  PROVE  LET n == Len(calls[e]) + 1 IN
         /\ calls' \in [Executions -> Seq(CallRows)]
         /\ \A x \in Executions : x # e => calls'[x] = calls[x]
         /\ n \in Nat /\ n \notin DOMAIN calls[e] /\ DOMAIN calls'[e] = DOMAIN calls[e] \cup {n}
         /\ \A i \in DOMAIN calls[e] : /\ calls'[e][i] = calls[e][i] /\ i < n /\ i \in Nat
                                       /\ calls[e][i].state = "complete" /\ calls[e][i].op # o
         /\ calls'[e][n].op = o /\ calls'[e][n].state = "pending" /\ calls'[e][n].id = NoId
         /\ Live(e)
<1> DEFINE n == Len(calls[e]) + 1
<1>1. /\ calls[e] \in Seq(CallRows) /\ Len(calls[e]) \in Nat /\ DOMAIN calls[e] = 1..Len(calls[e])
      /\ Rows(e) = {calls[e][i] : i \in DOMAIN calls[e]}
  BY RowsOf
<1>2. NewCall(o) \in CallRows /\ NewCall(o).op = o /\ NewCall(o).state = "pending" /\ NewCall(o).id = NoId
  BY DEF NewCall, CallRows, TypeOK, Times, Sentinels
<1>3. /\ calls' = [calls EXCEPT ![e] = Append(calls[e], NewCall(o))]
      /\ Live(e) /\ \A r \in Rows(e) : r.state = "complete" /\ r.op # o
  BY DEF Reserve, Reservable, NewCall
<1>4. /\ Append(calls[e], NewCall(o)) \in Seq(CallRows)
      /\ Len(Append(calls[e], NewCall(o))) = n
      /\ \A i \in 1..Len(calls[e]) : Append(calls[e], NewCall(o))[i] = calls[e][i]
      /\ Append(calls[e], NewCall(o))[n] = NewCall(o)
  BY <1>1, <1>2, AppendProperties
<1>5. DOMAIN Append(calls[e], NewCall(o)) = 1..n
  BY <1>4, LenProperties
<1>6. /\ calls' \in [Executions -> Seq(CallRows)] /\ calls'[e] = Append(calls[e], NewCall(o))
      /\ \A x \in Executions : x # e => calls'[x] = calls[x]
  BY <1>3, <1>4 DEF TypeOK
<1>7. \A i \in DOMAIN calls[e] : calls[e][i].state = "complete" /\ calls[e][i].op # o
  BY <1>1, <1>3
<1>8. /\ n \in Nat /\ n \notin DOMAIN calls[e] /\ 1..n = DOMAIN calls[e] \cup {n}
      /\ \A i \in DOMAIN calls[e] : i < n /\ i \in Nat
  BY <1>1
<1> QED BY <1>1, <1>2, <1>3, <1>4, <1>5, <1>6, <1>7, <1>8

\* What settling does to one row.
LEMMA RowChanged ==
  ASSUME NEW O, NEW S, NEW T, NEW F, NEW I,
         NEW r \in [op : O, state : S, started : T, finished : F, id : I],
         NEW x \in S, NEW y \in F, NEW z \in I
  PROVE  LET new == [r EXCEPT !.state = x, !.finished = y, !.id = z] IN
         /\ new \in [op : O, state : S, started : T, finished : F, id : I]
         /\ new.op = r.op /\ new.state = x /\ new.id = z
OBVIOUS

\* The row of the thread's operation is settled; its other rows stay.
LEMMA RowSettled ==
  ASSUME Sentinels, TypeOK, NEW q \in [e : Executions, op : Operations],
         NEW state \in {"complete", "error"}, NEW id \in Ids \cup {NoId},
         calls' = Settled(q, state, id)
  PROVE  /\ calls' \in [Executions -> Seq(CallRows)]
         /\ \A x \in Executions : x # q.e => calls'[x] = calls[x]
         /\ DOMAIN calls'[q.e] = DOMAIN calls[q.e]
         /\ \A i \in DOMAIN calls[q.e] :
              /\ calls'[q.e][i].op = calls[q.e][i].op
              /\ calls[q.e][i].op # q.op => calls'[q.e][i] = calls[q.e][i]
              /\ calls[q.e][i].op = q.op => calls'[q.e][i].state = state /\ calls'[q.e][i].id = id
<1>1. /\ q.e \in Executions /\ calls[q.e] \in Seq(CallRows)
      /\ \A i \in DOMAIN calls[q.e] : calls[q.e][i] \in CallRows
  BY RowsOf
<1> DEFINE s == [i \in DOMAIN calls[q.e] |->
                   IF calls[q.e][i].op = q.op
                   THEN [calls[q.e][i] EXCEPT !.state = state, !.finished = now, !.id = id]
                   ELSE calls[q.e][i]]
<1>2. calls' = [calls EXCEPT ![q.e] = s]
  BY DEF Settled
<1>3. ASSUME NEW r \in CallRows
      PROVE  LET new == [r EXCEPT !.state = state, !.finished = now, !.id = id] IN
             /\ new \in CallRows /\ new.op = r.op /\ new.state = state /\ new.id = id
  <2>1. now \in 0..MaxTime
    BY DEF TypeOK, Times, Sentinels
  <2> QED BY <2>1, RowChanged DEF CallRows
<1>4. /\ s \in [DOMAIN calls[q.e] -> CallRows]
      /\ \A i \in DOMAIN calls[q.e] :
           /\ s[i].op = calls[q.e][i].op
           /\ calls[q.e][i].op # q.op => s[i] = calls[q.e][i]
           /\ calls[q.e][i].op = q.op => s[i].state = state /\ s[i].id = id
  BY <1>1, <1>3
<1> HIDE DEF s
<1>5. s \in Seq(CallRows) /\ DOMAIN s = DOMAIN calls[q.e]
  BY <1>1, <1>4, SameLength
<1>6. /\ calls' \in [Executions -> Seq(CallRows)] /\ calls'[q.e] = s
      /\ \A x \in Executions : x # q.e => calls'[x] = calls[x]
  BY <1>1, <1>2, <1>5 DEF TypeOK
<1> QED BY <1>4, <1>5, <1>6

\* A new ledger has no rows.
LEMMA InitWork == Sentinels /\ Init => OInv
<1> SUFFICES ASSUME Sentinels, Init PROVE OInv  OBVIOUS
<1>1. \A e \in Executions : calls[e] = <<>> /\ calls[e] \in Seq(CallRows) /\ DOMAIN calls[e] = {}
  <2>1. <<>> \in Seq(CallRows) /\ DOMAIN <<>> = {}
    BY EmptySeq
  <2> QED BY <2>1 DEF Init
<1>2. TypeOK
  <2>1. calls \in [Executions -> Seq(CallRows)]
    BY <1>1 DEF Init
  <2> QED BY <2>1 DEF Init, TypeOK, Labels, Sentinels, Times
<1>3. WorkInv
  BY <1>1 DEF Init, WorkInv, Owned, OneOwner, Performed, Uncalled, RowIds, OneAfterAnother, Busy
<1> QED BY <1>2, <1>3 DEF OInv

-----------------------------------------------------------------------------
(* What steps do to the invariant. *)

\* A step that leaves the rows and the effects, takes no row from its thread
\* and closes no execution with a pending row.
LEMMA Moved ==
  ASSUME WorkInv, calls' = calls, served' = served,
         \A e \in Executions : Closed(e)' => Closed(e) \/ \A i \in DOMAIN calls[e] : calls[e][i].state # "pending",
         \A t \in Threads : pc'[t] \in Busy => pc[t] \in Busy /\ req'[t] = req[t],
         \A t \in Threads : pc'[t] = "calling" => pc[t] = "calling"
  PROVE  WorkInv'
<1>1. Owned'
  BY DEF WorkInv, Owned, HasPending, Closed
<1>2. OneOwner'
  BY DEF WorkInv, OneOwner
<1>3. Performed' /\ RowIds' /\ OneAfterAnother'
  BY DEF WorkInv, Performed, HasRow, RowIds, OneAfterAnother
<1>4. Uncalled'
  BY DEF WorkInv, Uncalled, Busy
<1> QED BY <1>1, <1>2, <1>3, <1>4 DEF WorkInv

\* A request that reserves a row works for it from then on.
LEMMA ReserveStep ==
  ASSUME Sentinels, OInv, NEW t \in Threads, NEW e \in Executions, NEW o \in Operations,
         NEW label \in {"calling", "recording"}, Reserve(t, e, o, label),
         UNCHANGED <<executions, served>>
  PROVE  WorkInv'
<1> DEFINE n == Len(calls[e]) + 1
<1>1. /\ \A x \in Executions : x # e => calls'[x] = calls[x]
      /\ n \in Nat /\ n \notin DOMAIN calls[e] /\ DOMAIN calls'[e] = DOMAIN calls[e] \cup {n}
      /\ \A i \in DOMAIN calls[e] : /\ calls'[e][i] = calls[e][i] /\ i < n /\ i \in Nat
                                    /\ calls[e][i].state = "complete" /\ calls[e][i].op # o
      /\ calls'[e][n].op = o /\ calls'[e][n].state = "pending" /\ calls'[e][n].id = NoId
      /\ Live(e)
  BY Reserved DEF OInv
<1> HIDE DEF n
<1>2. /\ pc' = [pc EXCEPT ![t] = label] /\ req' = [req EXCEPT ![t] = [e |-> e, op |-> o]]
      /\ pc[t] = "idle" /\ pc'[t] = label /\ req'[t] = [e |-> e, op |-> o]
      /\ \A u \in Threads : u # t => pc'[u] = pc[u] /\ req'[u] = req[u]
  BY DEF Reserve, Goto, OInv, TypeOK
<1>3. \A u \in Threads : u # t /\ pc'[u] \in Busy =>
        pc[u] \in Busy /\ req'[u] = req[u] /\ req[u] \in [e : Executions, op : Operations] /\ req[u].e # e
  BY <1>1, <1>2 DEF OInv, WorkInv, Owned, HasPending
<1>4. Owned'
  <2> SUFFICES ASSUME NEW u \in Threads, pc'[u] \in Busy
               PROVE  /\ req'[u] \in [e : Executions, op : Operations]
                      /\ executions'[req'[u].e].closed = 0
                      /\ \E i \in DOMAIN calls'[req'[u].e] : /\ calls'[req'[u].e][i].op = req'[u].op
                                                            /\ calls'[req'[u].e][i].state = "pending"
    BY DEF Owned, HasPending, Closed
  <2>1. CASE u = t
    BY <2>1, <1>1, <1>2 DEF Live, Closed
  <2>2. CASE u # t
    BY <2>2, <1>1, <1>2, <1>3 DEF HasPending, Closed, OInv, WorkInv, Owned
  <2> QED BY <2>1, <2>2
<1>5. OneOwner'
  BY <1>2, <1>3 DEF OneOwner, OInv, WorkInv
<1>6. Performed' /\ Uncalled'
  <2>1. \A x \in Executions, p \in Operations : HasRow(x, p) => HasRow(x, p)'
    BY <1>1 DEF HasRow
  <2>2. served[e][o] = 0
    BY <1>1 DEF OInv, WorkInv, Performed, HasRow
  <2>3. Performed'
    BY <2>1 DEF OInv, WorkInv, Performed
  <2>4. Uncalled'
    BY <2>2, <1>2, <1>3 DEF Uncalled, OInv, WorkInv, Busy
  <2> QED BY <2>3, <2>4
<1>7. RowIds'
  <2>1. \A x \in Executions : \A i \in DOMAIN calls'[x] :
          \/ i \in DOMAIN calls[x] /\ calls'[x][i] = calls[x][i]
          \/ calls'[x][i].state = "pending" /\ calls'[x][i].id = NoId
    BY <1>1
  <2> QED BY <2>1 DEF OInv, WorkInv, RowIds, Sentinels
<1>8. OneAfterAnother'
  <2> SUFFICES ASSUME NEW x \in Executions, NEW i \in DOMAIN calls'[x], NEW j \in DOMAIN calls'[x], i < j
               PROVE  calls'[x][i].state = "complete" /\ calls'[x][i].op # calls'[x][j].op
    BY DEF OneAfterAnother
  <2>1. CASE x # e
    BY <2>1, <1>1 DEF OInv, WorkInv, OneAfterAnother
  <2>2. CASE x = e
    <3>1. i \in DOMAIN calls[e]
      BY <2>2, <1>1
    <3>2. CASE j = n
      BY <2>2, <3>1, <3>2, <1>1
    <3>3. CASE j # n
      BY <2>2, <3>1, <3>3, <1>1 DEF OInv, WorkInv, OneAfterAnother
    <3> QED BY <3>2, <3>3
  <2> QED BY <2>1, <2>2
<1> QED BY <1>4, <1>5, <1>6, <1>7, <1>8 DEF WorkInv

\* A thread that settles its row is done with it.
LEMMA SettleStep ==
  ASSUME Sentinels, OInv, NEW t \in Threads, pc[t] \in Busy, Pending(req[t]),
         NEW state \in {"complete", "error"}, NEW id \in Ids \cup {NoId},
         state = "complete" => id \in Ids \ Stored, state = "error" => id = NoId,
         calls' = Settled(req[t], state, id), pc' = [pc EXCEPT ![t] = "idle"],
         \A u \in Threads : u # t => req'[u] = req[u],
         UNCHANGED <<executions, served>>
  PROVE  WorkInv'
<1> DEFINE e == req[t].e
           o == req[t].op
<1>1. req[t] \in [e : Executions, op : Operations]
  BY DEF OInv, WorkInv, Owned
<1>2. /\ \A x \in Executions : x # e => calls'[x] = calls[x]
      /\ DOMAIN calls'[e] = DOMAIN calls[e]
      /\ \A i \in DOMAIN calls[e] :
           /\ calls'[e][i].op = calls[e][i].op
           /\ calls[e][i].op # o => calls'[e][i] = calls[e][i]
           /\ calls[e][i].op = o => calls'[e][i].state = state /\ calls'[e][i].id = id
  BY <1>1, RowSettled DEF OInv
<1>3. e \in Executions /\ o \in Operations
  BY <1>1
<1>4. /\ DOMAIN calls[e] = 1..Len(calls[e]) /\ Len(calls[e]) \in Nat
      /\ Rows(e) = {calls[e][i] : i \in DOMAIN calls[e]}
  BY <1>3, RowsOf DEF OInv
<1>5. PICK k \in DOMAIN calls[e] : calls[e][k].op = o /\ calls[e][k].state = "pending"
  BY <1>4 DEF Pending
<1> HIDE DEF e, o
\* It is the last row, and the only one of its operation.
<1>6. \A i \in DOMAIN calls[e] : (calls[e][i].op = o <=> i = k) /\ i <= k /\ i \in Nat
  <2> SUFFICES ASSUME NEW i \in DOMAIN calls[e]
               PROVE  (calls[e][i].op = o <=> i = k) /\ i <= k /\ i \in Nat
    OBVIOUS
  <2>1. i \in Nat /\ k \in Nat
    BY <1>4
  <2>2. ~(k < i)
    BY <1>3, <1>5 DEF OInv, WorkInv, OneAfterAnother
  <2>3. i < k => calls[e][i].op # o
    BY <1>3, <1>5 DEF OInv, WorkInv, OneAfterAnother
  <2> QED BY <2>1, <2>2, <2>3, <1>5
<1>7. /\ pc'[t] = "idle"
      /\ \A u \in Threads : u # t => pc'[u] = pc[u] /\ req'[u] = req[u]
  BY DEF OInv, TypeOK
<1>8. \A u \in Threads : pc'[u] \in Busy =>
        u # t /\ pc[u] \in Busy /\ req'[u] = req[u] /\ req[u] \in [e : Executions, op : Operations] /\ req[u].e # e
  BY <1>7 DEF OInv, WorkInv, Owned, OneOwner, Busy, e
<1>9. Owned' /\ OneOwner'
  <2>1. Owned'
    BY <1>2, <1>8 DEF OInv, WorkInv, Owned, HasPending, Closed
  <2>2. OneOwner'
    BY <1>8 DEF OInv, WorkInv, OneOwner
  <2> QED BY <2>1, <2>2
<1>10. Performed' /\ Uncalled'
  <2>1. \A x \in Executions, p \in Operations : HasRow(x, p) => HasRow(x, p)'
    BY <1>2 DEF HasRow
  <2>2. Performed'
    BY <2>1 DEF OInv, WorkInv, Performed
  <2>3. Uncalled'
    BY <1>7, <1>8 DEF Uncalled, OInv, WorkInv, Busy
  <2> QED BY <2>2, <2>3
<1>11. RowIds'
  <2>1. \A x \in Executions : \A i \in DOMAIN calls[x] : calls[x][i].id \in Stored
    BY DEF Stored, Rows
  <2>2. \A x \in Executions : \A i \in DOMAIN calls'[x] :
          /\ i \in DOMAIN calls[x]
          /\ ~(x = e /\ i = k) => calls'[x][i] = calls[x][i]
    BY <1>2, <1>6
  <2>3. calls'[e][k].state = state /\ calls'[e][k].id = id
    BY <1>2, <1>5
  <2> QED BY <2>1, <2>2, <2>3, <1>3 DEF OInv, WorkInv, RowIds, Sentinels
<1>12. OneAfterAnother'
  <2> SUFFICES ASSUME NEW x \in Executions, NEW i \in DOMAIN calls'[x], NEW j \in DOMAIN calls'[x], i < j
               PROVE  calls'[x][i].state = "complete" /\ calls'[x][i].op # calls'[x][j].op
    BY DEF OneAfterAnother
  <2>1. CASE x # e
    BY <2>1, <1>2 DEF OInv, WorkInv, OneAfterAnother
  <2>2. CASE x = e
    <3>1. i \in DOMAIN calls[e] /\ j \in DOMAIN calls[e] /\ i # k
      BY <2>2, <1>2, <1>6
    <3>2. calls[e][i].state = "complete" /\ calls[e][i].op # calls[e][j].op
      BY <3>1, <1>3 DEF OInv, WorkInv, OneAfterAnother
    <3> QED BY <2>2, <3>1, <3>2, <1>2, <1>6
  <2> QED BY <2>1, <2>2
<1> QED BY <1>9, <1>10, <1>11, <1>12 DEF WorkInv

-----------------------------------------------------------------------------
(* Every step keeps the types and what the threads and rows say of each other. *)

\* A thread goes from one place to another, or returns.
LEMMA Places ==
  ASSUME TypeOK, NEW t \in Threads
  PROVE  /\ \A label \in Labels : Goto(t, label) /\ UNCHANGED req /\ pc[t] # "idle" =>
              /\ pc' \in [Threads -> Labels] /\ pc'[t] = label
              /\ \A u \in Threads : pc'[u] = "idle" \/ req'[u] \in Requests
              /\ \A u \in Threads : u # t => pc'[u] = pc[u]
         /\ Return(t) =>
              /\ pc' \in [Threads -> Labels] /\ pc'[t] = "idle"
              /\ req' \in [Threads -> {NoReq} \cup Requests]
              /\ answer' \in [Threads -> Ids \cup {NoId, BadId}]
              /\ \A u \in Threads : pc'[u] = "idle" \/ req'[u] \in Requests
              /\ \A u \in Threads : u # t => pc'[u] = pc[u] /\ req'[u] = req[u]
BY DEF TypeOK, Goto, Return, Labels

\* What registering and closing write.
LEMMA Stamped ==
  ASSUME TypeOK, NEW e \in Executions
  PROVE  /\ Register(e) => executions' = [executions EXCEPT ![e] = [started |-> now, closed |-> executions[e].closed]]
         /\ Close(e) => executions' = [executions EXCEPT ![e] = [started |-> executions[e].started, closed |-> now]]
<1>1. executions[e] = [started |-> executions[e].started, closed |-> executions[e].closed]
      /\ executions[e].started \in 0..MaxTime /\ executions[e].closed \in 0..MaxTime
  BY DEF TypeOK
<1> QED BY <1>1 DEF Register, Close

\* Registering and closing touch no row; a closed execution has none pending.
LEMMA RegisterKeeps ==
  ASSUME Sentinels, OInv, NEW e \in Executions, Register(e) \/ Close(e)
  PROVE  OInv'
<1>1. now \in 0..MaxTime
  BY DEF OInv, TypeOK, Times, Sentinels
<1>2. executions[e].started \in 0..MaxTime /\ executions[e].closed \in 0..MaxTime
  BY DEF OInv, TypeOK
<1>3. \/ executions' = [executions EXCEPT ![e] = [started |-> now, closed |-> executions[e].closed]]
      \/ executions' = [executions EXCEPT ![e] = [started |-> executions[e].started, closed |-> now]]
  BY Stamped DEF OInv
<1>4. executions' \in [Executions -> [started : 0..MaxTime, closed : 0..MaxTime]]
  <2>1. PICK new \in [started : 0..MaxTime, closed : 0..MaxTime] : executions' = [executions EXCEPT ![e] = new]
    BY <1>1, <1>2, <1>3
  <2> QED BY <2>1 DEF OInv, TypeOK
<1>5. UNCHANGED <<now, calls, grants, pc, req, answer, outside>>
  BY DEF Register, Close
<1>6. TypeOK'
  BY <1>4, <1>5 DEF OInv, TypeOK, outside
<1>7. \A x \in Executions : Closed(x)' => Closed(x) \/ \A i \in DOMAIN calls[x] : calls[x][i].state # "pending"
  <2>1. CASE Register(e)
    BY <2>1 DEF Register, Closed, OInv, TypeOK
  <2>2. CASE Close(e)
    BY <2>2 DEF Close, Closable, Closed, Rows, OInv, TypeOK
  <2> QED BY <2>1, <2>2
<1>8. WorkInv'
  BY <1>5, <1>7, Moved DEF OInv, outside
<1> QED BY <1>6, <1>8 DEF OInv

\* Requests of both kinds that reserve a row.
LEMMA ReserveKeeps ==
  ASSUME Sentinels, OInv, NEW t \in Threads, NEW e \in Executions, NEW o \in Operations,
         \/ Invoke(t, e, o)
         \/ \E id \in Ids \cup {NoId, BadId} : NativeRecord(t, e, o, id)
  PROVE  OInv'
<1>1. PICK label \in {"calling", "recording"} : Reserve(t, e, o, label)
  BY DEF Invoke, NativeRecord
<1>2. UNCHANGED <<now, executions, grants, outside>> /\ answer' \in [Threads -> Ids \cup {NoId, BadId}]
  BY DEF Invoke, NativeRecord, OInv, TypeOK
<1>3. calls' \in [Executions -> Seq(CallRows)]
  BY <1>1, Reserved DEF OInv
<1>4. [e |-> e, op |-> o] \in Requests /\ label \in Labels
  BY DEF Requests, Labels
<1>5. /\ pc' \in [Threads -> Labels] /\ req' \in [Threads -> {NoReq} \cup Requests]
      /\ \A u \in Threads : pc'[u] = "idle" \/ req'[u] \in Requests
  BY <1>1, <1>4 DEF Reserve, Goto, OInv, TypeOK
<1>6. TypeOK'
  BY <1>2, <1>3, <1>5 DEF OInv, TypeOK, outside
<1>7. WorkInv'
  BY <1>1, <1>2, ReserveStep DEF outside
<1> QED BY <1>6, <1>7 DEF OInv

\* The provider performs what its thread reserved, the first time.
LEMMA CallKeeps ==
  ASSUME Sentinels, OInv, NEW t \in Threads, NEW id \in Ids, Call(t, id)
  PROVE  OInv'
<1> DEFINE e == req[t].e
           o == req[t].op
<1>1. /\ req[t] \in [e : Executions, op : Operations] /\ e \in Executions /\ o \in Operations
      /\ HasPending(e, o) /\ served[e][o] = 0
  BY DEF Call, OInv, WorkInv, Owned, Uncalled, Busy
<1>2. /\ served[e] \in [Operations -> Nat]
      /\ served' = [served EXCEPT ![e] = [served[e] EXCEPT ![o] = served[e][o] + 1]]
  BY <1>1 DEF Call, OInv, TypeOK
<1> HIDE DEF e, o
<1>3. /\ served' \in [Executions -> [Operations -> Nat]] /\ served'[e][o] = 1
      /\ \A x \in Executions, p \in Operations : x # e \/ p # o => served'[x][p] = served[x][p]
  BY <1>1, <1>2 DEF OInv, TypeOK
<1>4. UNCHANGED <<now, executions, calls, grants, req, issued>>
  BY DEF Call, ledger
<1>5. /\ pc[t] = "calling" /\ pc'[t] \in {"finishing", "failing"}
      /\ \A u \in Threads : u # t => pc'[u] = pc[u]
      /\ pc' \in [Threads -> Labels] /\ answer' \in [Threads -> Ids \cup {NoId, BadId}]
  BY DEF Call, Goto, OInv, TypeOK, Labels
<1>6. TypeOK'
  BY <1>3, <1>4, <1>5 DEF OInv, TypeOK
<1>7. Owned' /\ OneOwner'
  BY <1>4, <1>5 DEF OInv, WorkInv, Owned, OneOwner, HasPending, Closed, Busy
<1>8. Performed'
  BY <1>1, <1>3, <1>4 DEF OInv, WorkInv, Performed, HasRow, HasPending
<1>9. Uncalled'
  <2> SUFFICES ASSUME NEW u \in Threads, pc'[u] = "calling"
               PROVE  served'[req'[u].e][req'[u].op] = 0
    BY DEF Uncalled
  <2>1. u # t /\ pc[u] = "calling" /\ req'[u] = req[u]
    BY <1>4, <1>5
  <2>2. req[u].e # e /\ req[u] \in [e : Executions, op : Operations] /\ served[req[u].e][req[u].op] = 0
    BY <2>1, <1>5 DEF OInv, WorkInv, Owned, OneOwner, Uncalled, Busy, e
  <2> QED BY <2>1, <2>2, <1>3
<1>10. RowIds' /\ OneAfterAnother'
  BY <1>4 DEF OInv, WorkInv, RowIds, OneAfterAnother
<1> QED BY <1>6, <1>7, <1>8, <1>9, <1>10 DEF OInv, WorkInv

\* A response or an error is written, by the thread that owns the row.
LEMMA SettleKeeps ==
  ASSUME Sentinels, OInv, NEW t \in Threads, Finish(t) \/ Fail(t)
  PROVE  OInv'
<1>1. UNCHANGED <<now, executions, grants, outside>> /\ pc[t] \in Busy /\ Return(t)
  BY DEF Finish, Fail, Busy
<1>2. req[t] \in [e : Executions, op : Operations]
  BY <1>1 DEF OInv, WorkInv, Owned
<1>3. /\ pc' \in [Threads -> Labels] /\ pc'[t] = "idle"
      /\ req' \in [Threads -> {NoReq} \cup Requests]
      /\ answer' \in [Threads -> Ids \cup {NoId, BadId}]
      /\ \A u \in Threads : pc'[u] = "idle" \/ req'[u] \in Requests
      /\ \A u \in Threads : u # t => pc'[u] = pc[u] /\ req'[u] = req[u]
  BY <1>1, Places DEF OInv
<1>4. pc' = [pc EXCEPT ![t] = "idle"]
  BY <1>1 DEF Return, Goto
<1>5. ASSUME calls' \in [Executions -> Seq(CallRows)], WorkInv'
      PROVE  OInv'
  BY <1>1, <1>3, <1>5 DEF OInv, TypeOK, outside
<1>6. CASE Finish(t)
  <2>1. Pending(req[t]) /\ answer[t] \in Ids \ Stored /\ calls' = Settled(req[t], "complete", answer[t])
    BY <1>6 DEF Finish, Storable
  <2>2. calls' \in [Executions -> Seq(CallRows)]
    BY <1>2, <2>1, RowSettled DEF OInv
  <2>3. WorkInv'
    BY <1>1, <1>3, <1>4, <2>1, SettleStep DEF outside
  <2> QED BY <2>2, <2>3, <1>5
<1>7. CASE Fail(t) /\ Pending(req[t])
  <2>1. calls' = Settled(req[t], "error", NoId)
    BY <1>7 DEF Fail
  <2>2. calls' \in [Executions -> Seq(CallRows)]
    BY <1>2, <2>1, RowSettled DEF OInv
  <2>3. WorkInv'
    BY <1>1, <1>3, <1>4, <1>7, <2>1, SettleStep DEF outside
  <2> QED BY <2>2, <2>3, <1>5
<1>8. CASE Fail(t) /\ ~Pending(req[t])
  <2>1. calls' = calls
    BY <1>8 DEF Fail
  <2>2. calls' \in [Executions -> Seq(CallRows)]
    BY <2>1 DEF OInv, TypeOK
  <2>3. WorkInv'
    BY <1>1, <1>3, <2>1, Moved DEF OInv, outside, Closed, Busy
  <2> QED BY <2>2, <2>3, <1>5
<1> QED BY <1>6, <1>7, <1>8

\* Refusals, and the credentials: nothing that WorkInv speaks of changes.
LEMMA RefusalKeeps ==
  ASSUME Sentinels, OInv, NEW t \in Threads,
         Refuse(t) \/ FinishRefused(t) \/ NativeRefused(t)
  PROVE  OInv'
<1>1. UNCHANGED <<now, executions, calls, grants, served, issued>> /\ pc[t] \in Busy
  BY DEF Refuse, FinishRefused, NativeRefused, Skip, ledger, outside, Busy
<1>2. \/ Goto(t, "failing") /\ UNCHANGED <<req, answer>>
      \/ Return(t)
  BY DEF Refuse, FinishRefused, NativeRefused, Skip
<1>3. /\ pc' \in [Threads -> Labels] /\ pc'[t] \in {"idle", "failing"}
      /\ req' \in [Threads -> {NoReq} \cup Requests]
      /\ answer' \in [Threads -> Ids \cup {NoId, BadId}]
      /\ \A u \in Threads : pc'[u] = "idle" \/ req'[u] \in Requests
      /\ \A u \in Threads : u # t => pc'[u] = pc[u] /\ req'[u] = req[u]
      /\ pc'[t] = "failing" => req'[t] = req[t]
  <2>1. CASE Goto(t, "failing") /\ UNCHANGED <<req, answer>>
    BY <1>1, <2>1 DEF Goto, OInv, TypeOK, Labels, Busy
  <2>2. CASE Return(t)
    BY <2>2, Places DEF OInv
  <2> QED BY <1>2, <2>1, <2>2
<1>4. TypeOK'
  BY <1>1, <1>3 DEF OInv, TypeOK
<1>5. WorkInv'
  BY <1>1, <1>3, Moved DEF OInv, Closed, Busy
<1> QED BY <1>4, <1>5 DEF OInv

\* native-credentials works with no row.
LEMMA CredentialsKeep ==
  ASSUME Sentinels, OInv, NEW t \in Threads,
         \/ \E e \in Executions : AuthorizeNative(t, e)
         \/ ClaimGrant(t) \/ ClaimRefused(t) \/ Issue(t)
  PROVE  OInv'
<1>1. UNCHANGED <<now, executions, calls, served>>
  BY DEF AuthorizeNative, ClaimGrant, ClaimRefused, Issue, ledger, outside
<1>2. /\ pc' \in [Threads -> Labels] /\ pc'[t] \in {"idle", "claiming", "issuing"}
      /\ req' \in [Threads -> {NoReq} \cup Requests]
      /\ answer' \in [Threads -> Ids \cup {NoId, BadId}]
      /\ \A u \in Threads : pc'[u] = "idle" \/ req'[u] \in Requests
      /\ \A u \in Threads : u # t => pc'[u] = pc[u] /\ req'[u] = req[u]
  <2>1. ASSUME NEW e \in Executions, AuthorizeNative(t, e) PROVE <1>2!:
    BY <2>1 DEF AuthorizeNative, Goto, OInv, TypeOK, Labels, Requests
  <2>2. CASE ClaimGrant(t)
    BY <2>2 DEF ClaimGrant, Goto, OInv, TypeOK, Labels
  <2>3. CASE Return(t)
    BY <2>3, Places DEF OInv
  <2> QED BY <2>1, <2>2, <2>3 DEF ClaimRefused, Issue
<1>3. grants' \subseteq Executions /\ issued' \in [Executions -> Nat]
  <2>1. pc[t] # "idle" => req[t] \in Requests
    BY DEF OInv, TypeOK
  <2>2. pc[t] # "idle" => req[t].e \in Executions
    BY <2>1 DEF Requests
  <2>3. grants' \subseteq Executions
    BY <2>2 DEF AuthorizeNative, ClaimGrant, ClaimRefused, Issue, OInv, TypeOK, ledger, outside
  <2>4. CASE Issue(t)
    <3> DEFINE e == req[t].e
    <3>1. /\ e \in Executions /\ issued \in [Executions -> Nat]
          /\ issued' = [issued EXCEPT ![e] = issued[e] + 1] \/ issued' = issued
      BY <2>2, <2>4 DEF Issue, OInv, TypeOK
    <3> HIDE DEF e
    <3>2. issued' \in [Executions -> Nat]
      BY <3>1
    <3> QED BY <2>3, <3>2
  <2>5. CASE issued' = issued
    BY <2>3, <2>5 DEF OInv, TypeOK
  <2> QED BY <2>3, <2>4, <2>5 DEF AuthorizeNative, ClaimGrant, ClaimRefused, outside
<1>4. TypeOK'
  BY <1>1, <1>2, <1>3 DEF OInv, TypeOK
<1>5. WorkInv'
  BY <1>1, <1>2, Moved DEF OInv, Closed, Busy
<1> QED BY <1>4, <1>5 DEF OInv

\* A crash leaves its rows pending, and nobody owns them.
LEMMA CrashKeeps == OInv /\ (Crash \/ Tick \/ UNCHANGED vars) => OInv'
<1> SUFFICES ASSUME OInv, Crash \/ Tick \/ UNCHANGED vars PROVE OInv'
  OBVIOUS
<1>1. TypeOK'
  BY DEF OInv, TypeOK, Crash, Tick, vars, ledger, outside, Labels
<1>2. WorkInv'
  <2>1. UNCHANGED <<executions, calls, served>>
    BY DEF Crash, Tick, vars, ledger, outside
  <2>2. \A t \in Threads : pc'[t] = "idle" \/ (pc'[t] = pc[t] /\ req'[t] = req[t])
    BY DEF Crash, Tick, vars
  <2> QED BY <2>1, <2>2, Moved DEF OInv, Closed, Busy
<1> QED BY <1>1, <1>2 DEF OInv

\* Every step keeps the invariant.
LEMMA StepWork == Sentinels /\ OInv /\ [Next]_vars => OInv'
<1> SUFFICES ASSUME Sentinels, OInv, [Next]_vars PROVE OInv'
  OBVIOUS
<1>1. CASE \E e \in Executions : Register(e) \/ Close(e)
  BY <1>1, RegisterKeeps
<1>2. CASE \E t \in Threads, e \in Executions : \E o \in Operations :
             \/ Invoke(t, e, o)
             \/ \E id \in Ids \cup {NoId, BadId} : NativeRecord(t, e, o, id)
  BY <1>2, ReserveKeeps
<1>3. CASE \E t \in Threads, e \in Executions : AuthorizeNative(t, e)
  BY <1>3, CredentialsKeep
<1>4. CASE \E t \in Threads : Step(t)
  <2> SUFFICES ASSUME NEW t \in Threads, Step(t) PROVE OInv'
    BY <1>4
  <2>1. CASE \E id \in Ids : Call(t, id)
    BY <2>1, CallKeeps
  <2>2. CASE Finish(t) \/ Fail(t)
    BY <2>2, SettleKeeps
  <2>3. CASE Refuse(t) \/ FinishRefused(t) \/ NativeRefused(t)
    BY <2>3, RefusalKeeps
  <2>4. CASE ClaimGrant(t) \/ ClaimRefused(t) \/ Issue(t)
    BY <2>4, CredentialsKeep
  <2> QED BY <2>1, <2>2, <2>3, <2>4 DEF Step
<1>5. CASE Crash \/ Tick \/ UNCHANGED vars
  BY <1>5, CrashKeeps
<1> QED BY <1>1, <1>2, <1>3, <1>4, <1>5 DEF Next

\* The types hold, and every busy thread owns the pending row of its execution.
THEOREM WorkInvariance == ASSUME Sentinels PROVE Spec => []OInv
<1>1. Sentinels
  OBVIOUS
<1>2. Init => OInv
  BY <1>1, InitWork
<1>3. OInv /\ [Next]_vars => OInv'
  BY <1>1, StepWork
<1> QED BY <1>2, <1>3, PTL DEF Spec

\* The calls of an execution are different operations, each reserved only after the
\* one before completed (DocumentLedger.reserve), whatever threads compete or die.
THEOREM OneAfterAnotherAlways == ASSUME Sentinels PROVE Spec => []OneAfterAnother
<1>1. OInv => OneAfterAnother
  BY DEF OInv, WorkInv
<1> QED BY <1>1, WorkInvariance, PTL

\* What the provider performed has its row, once; a success has a response of its own.
THEOREM EffectsRecordedAlways == ASSUME Sentinels PROVE Spec => []EffectsRecorded
<1>1. OInv => EffectsRecorded
  <2> SUFFICES ASSUME OInv, NEW e \in Executions, NEW o \in Operations
               PROVE  /\ served[e][o] <= 1
                      /\ served[e][o] = 1 => \E r \in Rows(e) : r.op = o
                      /\ \A r \in Rows(e) : r.op = o /\ r.state = "complete" =>
                           /\ r.id \in Ids
                           /\ \A x \in Executions : \A q \in Rows(x) : q.id = r.id => x = e /\ q.op = o
    BY DEF EffectsRecorded
  <2>1. served[e][o] <= 1 /\ (served[e][o] = 1 => \E r \in Rows(e) : r.op = o)
    BY DEF OInv, WorkInv, Performed, HasRow, Rows
  <2>2. ASSUME NEW r \in Rows(e), r.op = o, r.state = "complete"
        PROVE  /\ r.id \in Ids
               /\ \A x \in Executions : \A q \in Rows(x) : q.id = r.id => x = e /\ q.op = o
    BY <2>2 DEF OInv, WorkInv, RowIds, Rows
  <2> QED BY <2>1, <2>2
<1> QED BY <1>1, WorkInvariance, PTL

\* What is neither registering nor closing leaves the executions alone.
LEMMA ExecutionsMove ==
  ASSUME [Next]_vars
  PROVE  UNCHANGED executions \/ \E e \in Executions : Register(e) \/ Close(e)
BY DEF Next, Step, Invoke, Reserve, Call, Refuse, Skip, Finish, FinishRefused, Fail, NativeRecord, NativeRefused,
       AuthorizeNative, ClaimGrant, ClaimRefused, Issue, Crash, Tick, vars, ledger, outside

\* Rows and effects change only by a thread that reserves or has reserved.
LEMMA RowsMove ==
  ASSUME OInv, [Next]_vars, NEW e \in Executions, Closed(e)
  PROVE  calls'[e] = calls[e] /\ served'[e] = served[e]
<1>1. \A t \in Threads : pc[t] \in Busy => req[t].e \in Executions /\ req[t].e # e
  BY DEF OInv, WorkInv, Owned
<1>2. CASE UNCHANGED <<calls, served>>
  BY <1>2
<1>3. ASSUME NEW t \in Threads, NEW x \in Executions, NEW o \in Operations, NEW label, Reserve(t, x, o, label),
             UNCHANGED served
      PROVE  calls'[e] = calls[e] /\ served'[e] = served[e]
  BY <1>3 DEF Reserve, Reservable, Live, OInv, TypeOK
<1>4. ASSUME NEW t \in Threads, pc[t] \in Busy, UNCHANGED served,
             calls' = calls \/ \E state, id : calls' = Settled(req[t], state, id)
      PROVE  calls'[e] = calls[e] /\ served'[e] = served[e]
  BY <1>1, <1>4 DEF Settled, OInv, TypeOK
<1>5. ASSUME NEW t \in Threads, NEW id \in Ids, Call(t, id)
      PROVE  calls'[e] = calls[e] /\ served'[e] = served[e]
  BY <1>1, <1>5 DEF Call, ledger, Busy, OInv, TypeOK
<1>6. \/ UNCHANGED <<calls, served>>
      \/ \E t \in Threads : \/ \E x \in Executions, o \in Operations, label \in Labels :
                                Reserve(t, x, o, label) /\ UNCHANGED served
                            \/ Finish(t) \/ Fail(t) \/ \E id \in Ids : Call(t, id)
  BY DEF Next, Step, Register, Close, Invoke, Refuse, Skip, FinishRefused, NativeRecord, NativeRefused,
         AuthorizeNative, ClaimGrant, ClaimRefused, Issue, Crash, Tick, vars, ledger, outside, Labels
<1>7. \A t \in Threads : Finish(t) \/ Fail(t) =>
        /\ pc[t] \in Busy /\ UNCHANGED served
        /\ calls' = calls \/ \E state, id : calls' = Settled(req[t], state, id)
  BY DEF Finish, Fail, Busy, outside
<1> QED BY <1>2, <1>3, <1>4, <1>5, <1>6, <1>7

\* Nothing of a closed execution changes any more (DocumentLedger.close), however late
\* a thread or its answer is.
THEOREM ClosedIsFinalAlways == ASSUME Sentinels PROVE Spec => ClosedIsFinal
<1>1. OInv /\ [Next]_vars =>
        [\A e \in Executions : Closed(e) => /\ executions'[e].closed = executions[e].closed
                                           /\ calls'[e] = calls[e] /\ served'[e] = served[e]]_vars
  <2> SUFFICES ASSUME OInv, [Next]_vars, NEW e \in Executions, Closed(e)
               PROVE  /\ executions'[e].closed = executions[e].closed
                      /\ calls'[e] = calls[e] /\ served'[e] = served[e]
    OBVIOUS
  <2>1. executions'[e].closed = executions[e].closed
    <3>1. CASE UNCHANGED executions
      BY <3>1
    <3>2. ASSUME NEW x \in Executions, Register(x)
          PROVE  executions'[e].closed = executions[e].closed
      <4>1. executions' = [executions EXCEPT ![x] = [started |-> now, closed |-> executions[x].closed]]
        BY <3>2, Stamped DEF OInv
      <4> QED BY <4>1 DEF OInv, TypeOK
    <3>3. ASSUME NEW x \in Executions, Close(x)
          PROVE  executions'[e].closed = executions[e].closed
      BY <3>3 DEF Close, Closed, OInv, TypeOK
    <3> QED BY <3>1, <3>2, <3>3, ExecutionsMove
  <2> QED BY <2>1, RowsMove
<1> QED BY <1>1, WorkInvariance, PTL DEF Spec, ClosedIsFinal

=============================================================================

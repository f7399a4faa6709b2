--------------------------- MODULE GuardrailLedger ---------------------------
(***************************************************************************)
(* The P04 execution ledger (p04_ledger.py) and the call coordinators that *)
(* drive it (p04_invocation.py, p04_api.py).  The ledger is one SQLite     *)
(* file: every method is one BEGIN IMMEDIATE transaction, hence one action *)
(* here.  A coordinator is a request thread; between two of its ledger     *)
(* transactions anything else may happen, a crash of the process included. *)
(*                                                                         *)
(* A timestamp is a number of time units, 0 standing for SQL NULL: the     *)
(* code refuses a clock reading that is not positive.  The clock is        *)
(* time.time, which an operator or NTP may set back; Monotone forbids it.  *)
(***************************************************************************)
EXTENDS Integers, TLC

CONSTANTS Executions,   \* execution identifiers (UUIDs of the control plane)
          Callers,      \* request threads of the gateway process
          RequestIds,   \* RequestIds AWS may put in a response or a receipt
          Digests,      \* digests of prepared resource snapshots
          NoId,         \* no RequestId
          NoResource,   \* resources are not prepared, or cannot be read
          Window,       \* 180 seconds: life of an execution's capability
          AuditWindow,  \* 12 seconds: longest policy audit
          MaxTime,      \* bound on the clock
          Monotone      \* TRUE: the clock never steps back

ASSUME WindowAssumption == Window \in Nat /\ AuditWindow \in Nat /\ MaxTime \in Nat
ASSUME SentinelAssumption == NoId \notin RequestIds /\ NoResource \notin Digests
ASSUME MonotoneAssumption == Monotone \in BOOLEAN

Phases == {"before", "after"}
Times  == 1..MaxTime
Stamps == 0..MaxTime

VARIABLES now,         \* what time.time returns
          resource,    \* digest of the resource snapshot readable now
          executions,  \* table p04_executions
          calls,       \* table p04_calls
          audits,      \* table p04_policy_audits, with the ids of p04_policy_audit_requests
          pc,          \* where each coordinator is in p04_api.invoke / Invocation.invoke
          req,         \* the execution each coordinator was called for
          receipt,     \* the policy audit a coordinator holds
          response,    \* RequestId of the provider response a coordinator holds
          served       \* provider side: calls received for each execution

ledger == <<executions, calls, audits>>
coordinators == <<pc, req, receipt, response>>
vars == <<now, resource, executions, calls, audits, pc, req, receipt, response, served>>

NoExecution == [mode |-> "none", digest |-> NoResource, started |-> 0, closed |-> 0]
NoCall      == [state |-> "none", started |-> 0, dispatched |-> 0, finished |-> 0,
                provider |-> NoId]
NoReceipt   == [started |-> 0, observed |-> 0, digest |-> NoResource, id |-> NoId]

Registered(e) == executions[e].mode # "none"
Closed(e)     == executions[e].closed # 0
\* Mutant of Live: a closed execution is still accepted.
LiveWhenClosed(e) == Registered(e) /\ 0 <= now - executions[e].started
                     /\ now - executions[e].started < Window

\* The capability is live: the execution is open and inside its window.
Live(e) == Registered(e) /\ ~Closed(e)
           /\ 0 <= now - executions[e].started /\ now - executions[e].started < Window
\* GuardrailLedger._pending
Pending(e) == Live(e) /\ calls[e].state = "pending" /\ now >= calls[e].started
UsedAuditIds == {audits[e][p].id : e \in Executions, p \in Phases} \ {NoId}

Init == /\ now \in Times
        /\ resource \in Digests \cup {NoResource}
        /\ executions = [e \in Executions |-> NoExecution]
        /\ calls = [e \in Executions |-> NoCall]
        /\ audits = [e \in Executions |-> [p \in Phases |-> NoReceipt]]
        /\ pc = [c \in Callers |-> "idle"]
        /\ req \in [Callers -> Executions]
        /\ receipt = [c \in Callers |-> NoReceipt]
        /\ response = [c \in Callers |-> NoId]
        /\ served = [e \in Executions |-> 0]

\* A thread moves on; or it answers its request, and its locals are gone.
Goto(c, label) == pc' = [pc EXCEPT ![c] = label]
Return(c) == /\ pc' = [pc EXCEPT ![c] = "idle"]
             /\ receipt' = [receipt EXCEPT ![c] = NoReceipt]
             /\ response' = [response EXCEPT ![c] = NoId]

-----------------------------------------------------------------------------
(* The control plane: register and close. *)

\* register: the suite store resolved the case against the current resources.
Register(e, mode) ==
  /\ ~Registered(e)
  /\ resource # NoResource
  /\ executions' = [executions EXCEPT ![e] =
        [mode |-> mode, digest |-> resource, started |-> now, closed |-> 0]]
  /\ UNCHANGED <<now, resource, calls, audits, coordinators, served>>

\* close: refused while the call is pending or the clock is behind its records.
Settled(e) == calls[e].state # "none" => calls[e].state # "pending" /\ now >= calls[e].finished

Close(e) ==
  /\ Registered(e) /\ ~Closed(e)
  /\ now >= executions[e].started
  /\ Settled(e)
  /\ executions' = [executions EXCEPT ![e].closed = now]
  /\ UNCHANGED <<now, resource, calls, audits, coordinators, served>>

-----------------------------------------------------------------------------
(* One coordinator, from the request to its answer. *)

\* A thread goes on without touching the ledger.
Skip(c, from, to) == /\ pc[c] = from
                     /\ Goto(c, to)
                     /\ UNCHANGED <<now, resource, ledger, req, receipt, response, served>>

\* authorize: read-only, before the provider of the case is resolved.
Authorize(c, e) ==
  /\ pc[c] = "idle"
  /\ Live(e)
  /\ req' = [req EXCEPT ![c] = e]
  /\ Goto(c, "authorized")
  /\ UNCHANGED <<now, resource, ledger, receipt, response, served>>

\* reserve: the primary key of p04_calls admits one call per execution.
\* Mutant of Reservable: the row of an earlier call is replaced.
ReservableAgain(e) == Live(e)
Reservable(e) == Live(e) /\ calls[e].state = "none"

Reserve(c) ==
  /\ pc[c] = "authorized"
  /\ Reservable(req[c])
  /\ calls' = [calls EXCEPT ![req[c]] = [NoCall EXCEPT !.state = "pending", !.started = now]]
  /\ Goto(c, "reserved")
  /\ UNCHANGED <<now, resource, executions, audits, req, receipt, response, served>>

\* The reservation is outside the try: whoever loses it leaves the call alone.
ReserveRefused(c) == ~Reservable(req[c]) /\ Skip(c, "authorized", "idle")

\* The resource digest is compared before the call and again after it.
CheckResource(c, from, audit, next) ==
  Skip(c, from, IF resource # executions[req[c]].digest THEN "failing"
                ELSE IF executions[req[c]].mode = "aws" THEN audit ELSE next)

\* Mutant of CheckBefore: the fixture is called without a dispatch.
CheckThenCall(c) == CheckResource(c, "reserved", "audit_before", "calling")
CheckBefore(c) == CheckResource(c, "reserved", "audit_before", "dispatching")

\* Mutant of CheckAfter: the second audit is left out.
CheckThenFinish(c) == CheckResource(c, "returned", "finishing", "finishing")
CheckAfter(c) == CheckResource(c, "returned", "audit_after", "finishing")

\* validate_invocation, or anything else inside the try, raises.
Raise(c) == \E at \in {"reserved", "audit_before", "observe_before", "calling",
                      "returned", "audit_after", "observe_after"} : Skip(c, at, "failing")

AuditPc(phase)   == IF phase = "before" THEN "audit_before" ELSE "audit_after"
ObservePc(phase) == IF phase = "before" THEN "observe_before" ELSE "observe_after"
RecordPc(phase)  == IF phase = "before" THEN "record_before" ELSE "record_after"

\* PolicyAudit.__call__ reads the snapshot and the clock, asks AWS three times
\* whether the policy still is that snapshot, and reads the clock again.  The
\* three RequestIds of a receipt, all of them new to the ledger, count as one.
StartAudit(c, phase) ==
  /\ pc[c] = AuditPc(phase)
  /\ resource # NoResource
  /\ receipt' = [receipt EXCEPT ![c] = [NoReceipt EXCEPT !.started = now, !.digest = resource]]
  /\ Goto(c, ObservePc(phase))
  /\ UNCHANGED <<now, resource, ledger, req, response, served>>

ObserveAudit(c, phase, id) ==
  /\ pc[c] = ObservePc(phase)
  /\ receipt[c].started <= now /\ now - receipt[c].started < AuditWindow
  /\ receipt' = [receipt EXCEPT ![c].observed = now, ![c].id = id]
  /\ Goto(c, RecordPc(phase))
  /\ UNCHANGED <<now, resource, ledger, req, response, served>>

\* policy_audit's conditions, in the transaction that stores the receipt.
AuditAdmissible(c, phase) ==
  LET e == req[c]  r == receipt[c] IN
  /\ Pending(e)
  /\ executions[e].mode = "aws"
  /\ r.digest = executions[e].digest
  /\ calls[e].started <= r.started /\ r.observed <= now
  /\ phase = "before" => calls[e].dispatched = 0
  /\ phase = "after" => /\ calls[e].dispatched # 0
                        /\ audits[e]["before"] # NoReceipt
                        /\ r.started >= calls[e].dispatched
  /\ audits[e][phase] = NoReceipt
  /\ r.id \notin UsedAuditIds

RecordAudit(c, phase) ==
  /\ pc[c] = RecordPc(phase)
  /\ AuditAdmissible(c, phase)
  /\ audits' = [audits EXCEPT ![req[c]][phase] = receipt[c]]
  /\ receipt' = [receipt EXCEPT ![c] = NoReceipt]
  /\ Goto(c, IF phase = "before" THEN "dispatching" ELSE "finishing")
  /\ UNCHANGED <<now, resource, executions, calls, req, response, served>>

AuditRefused(c, phase) == ~AuditAdmissible(c, phase) /\ Skip(c, RecordPc(phase), "failing")

\* dispatch: marks the call as about to reach the provider, once.
Dispatchable(e) == Pending(e) /\ calls[e].dispatched = 0

\* Mutant of Dispatched: the update is not committed.
DispatchLost(e) == calls
Dispatched(e) == [calls EXCEPT ![e].dispatched = now]

Dispatch(c) ==
  /\ pc[c] = "dispatching"
  /\ Dispatchable(req[c])
  /\ calls' = Dispatched(req[c])
  /\ Goto(c, "calling")
  /\ UNCHANGED <<now, resource, executions, audits, req, receipt, response, served>>

DispatchRefused(c) == ~Dispatchable(req[c]) /\ Skip(c, "dispatching", "failing")

\* The backend call: AWS answers with a RequestId, the fixture with none; or
\* the provider did its work and the answer was lost (timeout, malformed).
Call(c, id) ==
  /\ pc[c] = "calling"
  /\ executions[req[c]].mode = "contract" => id = NoId
  /\ served' = [served EXCEPT ![req[c]] = @ + 1]
  /\ \/ /\ response' = [response EXCEPT ![c] = id]
        /\ Goto(c, "returned")
     \/ /\ response' = response
        /\ Goto(c, "failing")
  /\ UNCHANGED <<now, resource, ledger, req, receipt>>

\* finish with a response; in aws mode its RequestId must be there and be new.
Finishable(e) == Pending(e) /\ now >= calls[e].dispatched
Completable(c) ==
  LET e == req[c] IN
  /\ Finishable(e) /\ calls[e].dispatched # 0
  /\ executions[e].mode = "aws" => /\ response[c] # NoId
                                   /\ \A x \in Executions : calls[x].provider # response[c]

Complete(c) ==
  LET e == req[c] IN
  /\ pc[c] = "finishing"
  /\ Completable(c)
  /\ calls' = [calls EXCEPT ![e].state = "complete", ![e].finished = now,
                            ![e].provider = IF executions[e].mode = "aws"
                                            THEN response[c] ELSE NoId]
  /\ Return(c)
  /\ UNCHANGED <<now, resource, executions, audits, req, served>>

CompleteRefused(c) == ~Completable(c) /\ Skip(c, "finishing", "failing")

\* The except branch: finish without a response; its LedgerError is swallowed.
\* Mutant of Failed: it settles the call in a state of its own.
FailedUnknown(e) == [calls EXCEPT ![e].state = "failed", ![e].finished = now]
Failed(e) == [calls EXCEPT ![e].state = "error", ![e].finished = now]

Fail(c) ==
  /\ pc[c] = "failing"
  /\ calls' = IF Finishable(req[c]) THEN Failed(req[c]) ELSE calls
  /\ Return(c)
  /\ UNCHANGED <<now, resource, executions, audits, req, served>>

-----------------------------------------------------------------------------
(* The environment. *)

\* The process dies: threads and what they hold are gone, the file remains.
Crash ==
  /\ pc' = [c \in Callers |-> "idle"]
  /\ receipt' = [c \in Callers |-> NoReceipt]
  /\ response' = [c \in Callers |-> NoId]
  /\ UNCHANGED <<now, resource, ledger, req, served>>

Tick ==
  /\ now' \in Times
  /\ Monotone => now' >= now
  /\ UNCHANGED <<resource, ledger, coordinators, served>>

\* Preparation or deletion of the AWS resources changes what is readable.
ChangeResource ==
  /\ resource' \in Digests \cup {NoResource}
  /\ UNCHANGED <<now, ledger, coordinators, served>>

-----------------------------------------------------------------------------
Audit(c) == \E p \in Phases : \/ StartAudit(c, p)
                              \/ \E id \in RequestIds : ObserveAudit(c, p, id)
                              \/ RecordAudit(c, p)
                              \/ AuditRefused(c, p)

\* What a coordinator does by itself once its request was authorized.
Step(c) == \/ Reserve(c) \/ ReserveRefused(c)
           \/ CheckBefore(c) \/ CheckAfter(c) \/ Raise(c)
           \/ Audit(c)
           \/ Dispatch(c) \/ DispatchRefused(c)
           \/ \E id \in RequestIds \cup {NoId} : Call(c, id)
           \/ Complete(c) \/ CompleteRefused(c) \/ Fail(c)

Next == \/ \E e \in Executions : \/ \E mode \in {"aws", "contract"} : Register(e, mode)
                                 \/ Close(e)
        \/ \E c \in Callers : \/ \E e \in Executions : Authorize(c, e)
                              \/ Step(c)
        \/ Crash \/ Tick \/ ChangeResource

Spec == Init /\ [][Next]_vars

-----------------------------------------------------------------------------
(* Properties. *)

Labels == {"idle", "authorized", "reserved", "audit_before", "observe_before",
           "record_before", "dispatching", "calling", "returned", "audit_after",
           "observe_after", "record_after", "finishing", "failing"}

Receipts == [started : Stamps, observed : Stamps, digest : Digests \cup {NoResource},
             id : RequestIds \cup {NoId}]

ExecutionRows == [mode : {"none", "aws", "contract"}, digest : Digests \cup {NoResource},
                  started : Stamps, closed : Stamps]
CallRows == [state : {"none", "pending", "complete", "error"}, started : Stamps,
             dispatched : Stamps, finished : Stamps, provider : RequestIds \cup {NoId}]

\* Every table row and every local variable has the shape the code gives it.
TypeOK ==
  /\ now \in Times
  /\ resource \in Digests \cup {NoResource}
  /\ executions \in [Executions -> ExecutionRows]
  /\ calls \in [Executions -> CallRows]
  /\ audits \in [Executions -> [Phases -> Receipts]]
  /\ pc \in [Callers -> Labels]
  /\ req \in [Callers -> Executions]
  /\ receipt \in [Callers -> Receipts]
  /\ response \in [Callers -> RequestIds \cup {NoId}]
  /\ served \in [Executions -> Nat]

\* A coordinator that holds the reservation and has not settled the call yet.
InFlight(c) == pc[c] \notin {"idle", "authorized"}
Works(c, e) == InFlight(c) /\ req[c] = e

\* Whatever requests are retried, run at the same time or cut by a crash, the
\* provider is asked at most once for an execution.
AtMostOneCall == \A e \in Executions : served[e] <= 1

\* When the provider was asked, the ledger says so, even if the process died
\* before it could record the answer: an error never hides a dispatched call.
CallIsRecorded == \A e \in Executions : served[e] > 0 => calls[e].dispatched # 0

\* A reserved call is worked on by one coordinator; one that lost the race for
\* the reservation never gets to finish the call of the one that won it.
OneOwner == \A c, d \in Callers : InFlight(c) /\ InFlight(d) /\ req[c] = req[d] => c = d

\* close waits for the call: nothing works on a closed execution any more.
ClosedIsQuiet == \A e \in Executions : Closed(e) =>
                   /\ calls[e].state # "pending"
                   /\ \A c \in Callers : ~Works(c, e)

\* A complete AWS call carries its proof: the provider was asked, the policy
\* was audited on both sides of the call against the registered resources, the
\* second time after the dispatch, and no other call or audit has its ids.
CompleteIsProven ==
  \A e \in Executions : calls[e].state = "complete" =>
    /\ served[e] = 1
    /\ executions[e].mode = "aws" =>
         /\ \A p \in Phases : /\ audits[e][p].digest = executions[e].digest
                              /\ audits[e][p].id # NoId
         /\ audits[e]["after"].started >= calls[e].dispatched
         /\ calls[e].provider # NoId
         /\ \A x \in Executions \ {e} : /\ calls[x].provider # calls[e].provider
                                        /\ \A p, q \in Phases : audits[x][p].id # audits[e][q].id
         /\ audits[e]["before"].id # audits[e]["after"].id

\* The timestamps of a complete AWS call tell its story in order, if the clock
\* does not step back: reserve, first audit, dispatch, second audit, finish.
EvidenceInOrder ==
  \A e \in Executions : calls[e].state = "complete" /\ executions[e].mode = "aws" =>
    LET b == audits[e]["before"]  a == audits[e]["after"]  k == calls[e] IN
    /\ executions[e].started <= k.started /\ k.started <= b.started
    /\ b.started <= b.observed /\ b.observed <= k.dispatched
    /\ k.dispatched <= a.started /\ a.started <= a.observed /\ a.observed <= k.finished
    /\ Closed(e) => k.finished <= executions[e].closed

\* Complete is proven, and proven in order.
EvidenceHolds == CompleteIsProven /\ EvidenceInOrder

\* Once an execution is closed its row, its call and its audits never change,
\* and the provider is not asked for it any more.
ClosedIsFinal ==
  [][\A e \in Executions : Closed(e) =>
       /\ executions'[e] = executions[e] /\ calls'[e] = calls[e]
       /\ audits'[e] = audits[e] /\ served'[e] = served[e]]_vars

\* A call whose coordinator is gone (a crash, or an answer after the window)
\* stays pending: no later request re-runs, settles or closes it.
OrphanStaysPending ==
  [][\A e \in Executions :
       calls[e].state = "pending" /\ (\A c \in Callers : ~Works(c, e)) =>
         calls'[e] = calls[e] /\ executions'[e] = executions[e] /\ served'[e] = served[e]]_vars

\* The ledger with its coordinators keeps the promise of OneShotCall.
CallStatus == [e \in Executions |->
                 IF ~Registered(e) THEN "absent"
                 ELSE IF calls[e].state = "none" THEN "open"
                 ELSE IF calls[e].state # "pending" THEN calls[e].state
                 ELSE IF calls[e].dispatched = 0 THEN "reserved" ELSE "dispatched"]
ClosedExecutions == {e \in Executions : Closed(e)}
Abstract == INSTANCE OneShotCall WITH status <- CallStatus, closed <- ClosedExecutions
OneShot == Abstract!Spec

-----------------------------------------------------------------------------
(* For the instances: nothing tells executions, threads or RequestIds apart. *)

Symmetry == Permutations(Executions) \cup Permutations(Callers) \cup Permutations(RequestIds)
=============================================================================

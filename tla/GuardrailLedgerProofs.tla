------------------------- MODULE GuardrailLedgerProofs -------------------------
(***************************************************************************)
(* Proofs about GuardrailLedger, for any number of executions and threads, *)
(* any window, and a clock that may step back.                             *)
(***************************************************************************)
EXTENDS GuardrailLedger, TLAPS

-----------------------------------------------------------------------------
(* Types. *)

LEMMA ReceiptType == NoReceipt \in Receipts
  BY WindowAssumption DEF NoReceipt, Receipts, Stamps

LEMMA NowType == TypeOK => now \in Stamps
  BY WindowAssumption DEF TypeOK, Times, Stamps

\* The updates the ledger makes to a row leave a row.
LEMMA CallRowUpdates ==
  ASSUME NEW r \in CallRows, NEW n \in Stamps, NEW id \in RequestIds \cup {NoId}
  PROVE  /\ [NoCall EXCEPT !.state = "pending", !.started = n] \in CallRows
         /\ [r EXCEPT !.dispatched = n] \in CallRows
         /\ [r EXCEPT !.state = "complete", !.finished = n, !.provider = id] \in CallRows
         /\ [r EXCEPT !.state = "error", !.finished = n] \in CallRows
<1>1. 0 \in Stamps  BY WindowAssumption DEF Stamps
<1> QED BY <1>1 DEF CallRows, NoCall

\* A step that only moves a thread to another label keeps the types.
LEMMA SkipType ==
  ASSUME TypeOK, NEW c \in Callers, NEW from, NEW to \in Labels, Skip(c, from, to)
  PROVE  TypeOK'
  BY DEF TypeOK, Skip, Goto, ledger

LEMMA InitType == Init => TypeOK
  BY ReceiptType, WindowAssumption DEF Init, TypeOK, NoExecution, NoCall, ExecutionRows, CallRows,
     Stamps, Times, Labels

\* The control plane and the environment keep the types.
LEMMA OutsideType ==
  ASSUME TypeOK,
         \/ \E e \in Executions : \/ \E mode \in {"aws", "contract"} : Register(e, mode)
                                  \/ Close(e)
         \/ \E c \in Callers, e \in Executions : Authorize(c, e)
         \/ Crash \/ Tick \/ ChangeResource
  PROVE  TypeOK'
<1> USE DEF TypeOK, ledger, coordinators
<1>1. CASE \E e \in Executions : \E mode \in {"aws", "contract"} : Register(e, mode)
  BY <1>1, NowType, WindowAssumption DEF Register, ExecutionRows, Stamps
<1>2. CASE \E e \in Executions : Close(e)
  <2> PICK e \in Executions : Close(e)  BY <1>2
  <2>1. [executions[e] EXCEPT !.closed = now] \in ExecutionRows
    BY NowType DEF ExecutionRows
  <2> QED BY <2>1 DEF Close
<1>3. CASE \E c \in Callers, e \in Executions : Authorize(c, e)
  BY <1>3 DEF Authorize, Goto, Labels
<1>4. CASE Crash
  BY <1>4, ReceiptType DEF Crash, Labels
<1>5. CASE Tick
  BY <1>5 DEF Tick
<1>6. CASE ChangeResource
  BY <1>6 DEF ChangeResource
<1> QED BY <1>1, <1>2, <1>3, <1>4, <1>5, <1>6

\* A coordinator keeps the types.
LEMMA StepType ==
  ASSUME TypeOK, NEW c \in Callers, Step(c)
  PROVE  TypeOK'
<1>a. /\ req[c] \in Executions /\ calls[req[c]] \in CallRows
      /\ response[c] \in RequestIds \cup {NoId} /\ now \in Stamps
  BY NowType DEF TypeOK
<1>1. CASE Reserve(c)
  <2>1. calls' \in [Executions -> CallRows]
    BY <1>1, <1>a, CallRowUpdates DEF Reserve, TypeOK
  <2> QED BY <1>1, <2>1 DEF TypeOK, Reserve, Goto, Labels
<1>2. CASE ReserveRefused(c)
  BY <1>2, SkipType DEF ReserveRefused, Labels
<1>3. CASE CheckBefore(c)
  <2>1. (IF resource # executions[req[c]].digest THEN "failing"
         ELSE IF executions[req[c]].mode = "aws" THEN "audit_before" ELSE "dispatching") \in Labels
    BY DEF Labels
  <2> QED BY <1>3, <2>1, SkipType DEF CheckBefore, CheckResource
<1>4. CASE CheckAfter(c)
  <2>1. (IF resource # executions[req[c]].digest THEN "failing"
         ELSE IF executions[req[c]].mode = "aws" THEN "audit_after" ELSE "finishing") \in Labels
    BY DEF Labels
  <2> QED BY <1>4, <2>1, SkipType DEF CheckAfter, CheckResource
<1>5. CASE Raise(c)
  BY <1>5, SkipType DEF Raise, Labels
<1>6. CASE Audit(c)
  <2> PICK p \in Phases : \/ StartAudit(c, p)
                          \/ \E id \in RequestIds : ObserveAudit(c, p, id)
                          \/ RecordAudit(c, p)
                          \/ AuditRefused(c, p)
    BY <1>6 DEF Audit
  <2>1. CASE StartAudit(c, p)
    <3>1. [NoReceipt EXCEPT !.started = now, !.digest = resource] \in Receipts
      BY <1>a, ReceiptType DEF TypeOK, Receipts
    <3> QED BY <2>1, <3>1 DEF StartAudit, TypeOK, ledger, Goto, ObservePc, Labels
  <2>2. CASE \E id \in RequestIds : ObserveAudit(c, p, id)
    <3> PICK id \in RequestIds : ObserveAudit(c, p, id)  BY <2>2
    <3>1. receipt' \in [Callers -> Receipts]
      BY NowType DEF ObserveAudit, TypeOK, Receipts
    <3> QED BY <3>1 DEF ObserveAudit, TypeOK, ledger, Goto, RecordPc, Labels
  <2>3. CASE RecordAudit(c, p)
    BY <2>3, ReceiptType DEF RecordAudit, TypeOK, Goto, Labels
  <2>4. CASE AuditRefused(c, p)
    BY <2>4, SkipType DEF AuditRefused, Labels
  <2> QED BY <2>1, <2>2, <2>3, <2>4
<1>7. CASE Dispatch(c)
  <2>1. calls' \in [Executions -> CallRows]
    BY <1>7, <1>a, CallRowUpdates DEF Dispatch, Dispatched, TypeOK
  <2> QED BY <1>7, <2>1 DEF Dispatch, TypeOK, Goto, Labels
<1>8. CASE DispatchRefused(c)
  BY <1>8, SkipType DEF DispatchRefused, Labels
<1>9. CASE \E id \in RequestIds \cup {NoId} : Call(c, id)
  <2> PICK id \in RequestIds \cup {NoId} : Call(c, id)  BY <1>9
  <2>1. served' \in [Executions -> Nat] /\ response' \in [Callers -> RequestIds \cup {NoId}]
    BY DEF Call, TypeOK
  <2>2. pc' \in [Callers -> Labels]
    BY DEF Call, Goto, TypeOK, Labels
  <2> QED BY <2>1, <2>2 DEF Call, TypeOK, ledger
<1>10. CASE Complete(c)
  <2> DEFINE id == IF executions[req[c]].mode = "aws" THEN response[c] ELSE NoId
  <2>1. [calls[req[c]] EXCEPT !.state = "complete", !.finished = now, !.provider = id] \in CallRows
    BY <1>a, CallRowUpdates
  <2>2. calls' \in [Executions -> CallRows]
    BY <1>10, <1>a, <2>1 DEF Complete, TypeOK
  <2> QED BY <1>10, <2>2, ReceiptType DEF Complete, TypeOK, Return, Labels
<1>11. CASE CompleteRefused(c)
  BY <1>11, SkipType DEF CompleteRefused, Labels
<1>12. CASE Fail(c)
  <2>2. calls' \in [Executions -> CallRows]
    BY <1>12, <1>a, CallRowUpdates DEF Fail, Failed, TypeOK
  <2> QED BY <1>12, <2>2, ReceiptType DEF Fail, TypeOK, Return, Labels
<1> QED BY <1>1, <1>2, <1>3, <1>4, <1>5, <1>6, <1>7, <1>8, <1>9, <1>10, <1>11, <1>12 DEF Step

LEMMA NextType == TypeOK /\ [Next]_vars => TypeOK'
<1> SUFFICES ASSUME TypeOK, [Next]_vars PROVE TypeOK'  OBVIOUS
<1>1. CASE UNCHANGED vars
  BY <1>1 DEF TypeOK, vars
<1>2. CASE Next
  BY <1>2, OutsideType, StepType DEF Next
<1> QED BY <1>1, <1>2

\* The tables and the threads' variables keep the shape the code gives them.
THEOREM TypeCorrect == Spec => []TypeOK
  BY InitType, NextType, PTL DEF Spec

-----------------------------------------------------------------------------
(* The inductive invariant: who owns a call, and how far it got. *)

BeforeDispatch == {"reserved", "audit_before", "observe_before", "record_before", "dispatching"}
AfterCall == {"returned", "audit_after", "observe_after", "record_after", "finishing"}

\* A coordinator in flight owns a pending call of an open execution.
Owned == \A c \in Callers : InFlight(c) => /\ calls[req[c]].state = "pending"
                                         /\ Registered(req[c]) /\ ~Closed(req[c])

\* Its place in the code tells whether it dispatched, and whether it called.
InPlace == \A c \in Callers :
  /\ pc[c] \in BeforeDispatch => calls[req[c]].dispatched = 0 /\ served[req[c]] = 0
  /\ pc[c] = "calling" => calls[req[c]].dispatched # 0 /\ served[req[c]] = 0
  /\ pc[c] \in AfterCall => calls[req[c]].dispatched # 0 /\ served[req[c]] = 1

\* What the rows of one execution say together.
RowsAgree == \A e \in Executions :
  /\ Closed(e) => Registered(e) /\ calls[e].state # "pending"
  /\ calls[e].state # "none" => Registered(e)
  /\ calls[e].state = "none" => calls[e].dispatched = 0 /\ served[e] = 0
  /\ calls[e].state = "complete" => served[e] = 1
  /\ served[e] <= 1
  /\ served[e] # 0 => calls[e].dispatched # 0

OwnInv == OneOwner /\ Owned /\ InPlace /\ RowsAgree
IInv == TypeOK /\ OwnInv

LEMMA InitInv == Init => IInv
  BY InitType DEF Init, IInv, OwnInv, OneOwner, Owned, InPlace, RowsAgree, InFlight,
     BeforeDispatch, AfterCall, NoExecution, NoCall, Closed, Registered

\* A thread may move within a stretch of the code, give up, or return, as long
\* as no row changes.
LEMMA QuietStep ==
  ASSUME IInv, NEW c \in Callers, NEW to, pc' = [pc EXCEPT ![c] = to],
         UNCHANGED <<executions, calls, req, served>>,
         \/ to = "idle" 
         \/ InFlight(c) /\ to = "failing"
         \/ pc[c] \in BeforeDispatch /\ to \in BeforeDispatch
         \/ pc[c] \in AfterCall /\ to \in AfterCall
  PROVE  OwnInv'
<1> USE DEF IInv, OwnInv, InFlight, BeforeDispatch, AfterCall
<1>1. \A d \in Callers : pc'[d] = IF d = c THEN to ELSE pc[d]
  BY DEF TypeOK
<1>2. OneOwner'
  BY <1>1 DEF OneOwner
<1>3. Owned'
  BY <1>1 DEF Owned, Registered, Closed
<1>4. InPlace'
  BY <1>1 DEF InPlace
<1>5. RowsAgree'
  BY DEF RowsAgree, Registered, Closed
<1> QED BY <1>2, <1>3, <1>4, <1>5

\* A coordinator that changes the row of its call, or calls the provider, is
\* the only one in flight there, so every other one is undisturbed.
LEMMA OwnerStep ==
  ASSUME IInv, NEW c \in Callers, NEW to, NEW row, NEW count, InFlight(c),
         pc' = [pc EXCEPT ![c] = to],
         calls' = [calls EXCEPT ![req[c]] = row],
         served' = [served EXCEPT ![req[c]] = count],
         UNCHANGED <<executions, req>>,
         to = "idle" \/ row.state = "pending",
         to \in BeforeDispatch => row.dispatched = 0 /\ count = 0,
         to = "calling" => row.dispatched # 0 /\ count = 0,
         to \in AfterCall => row.dispatched # 0 /\ count = 1,
         to # "authorized",
         row.state # "none",
         row.state = "complete" => count = 1,
         count \in {0, 1},
         count # 0 => row.dispatched # 0
  PROVE  OwnInv'
<1> USE DEF IInv, OwnInv
<1>1. \A d \in Callers : pc'[d] = IF d = c THEN to ELSE pc[d]
  BY DEF TypeOK
<1>2. /\ req[c] \in Executions
      /\ \A e \in Executions : /\ calls'[e] = IF e = req[c] THEN row ELSE calls[e]
                               /\ served'[e] = IF e = req[c] THEN count ELSE served[e]
  BY DEF TypeOK
<1>3. \A d \in Callers : d # c /\ pc[d] \notin {"idle", "authorized"} => req[d] # req[c]
  BY DEF OneOwner, InFlight
<1>4. \A d \in Callers : req[d] \in Executions
  BY DEF TypeOK
<1>5. OneOwner'
  BY <1>1, <1>3 DEF OneOwner, InFlight
<1>6. Owned'
  BY <1>1, <1>2, <1>3, <1>4 DEF Owned, InFlight, Registered, Closed
<1>7. InPlace'
  BY <1>1, <1>2, <1>3, <1>4 DEF InPlace, BeforeDispatch, AfterCall
<1>8. RowsAgree'
  BY <1>2 DEF RowsAgree, Owned, Registered, Closed
<1> QED BY <1>5, <1>6, <1>7, <1>8

\* Each step of a coordinator is one of the two kinds; only the reservation,
\* which makes it the owner, is neither.
LEMMA StepInv ==
  ASSUME IInv, NEW c \in Callers, Step(c)
  PROVE  OwnInv'
<1>a. /\ req[c] \in Executions
      /\ \A label : pc[c] = label /\ label \notin {"idle", "authorized"} => InFlight(c)
  BY DEF IInv, TypeOK, InFlight
<1>b. InFlight(c) => /\ calls[req[c]].state = "pending"
                     /\ calls[req[c]] \in CallRows /\ served[req[c]] \in {0, 1}
                     /\ served[req[c]] # 0 => calls[req[c]].dispatched # 0
  <2>1. served[req[c]] \in Nat /\ served[req[c]] <= 1 /\ calls[req[c]] \in CallRows
    BY <1>a DEF IInv, OwnInv, RowsAgree, TypeOK
  <2>2. served[req[c]] \in {0, 1}
    BY <2>1
  <2> QED BY <1>a, <2>1, <2>2 DEF IInv, OwnInv, Owned, RowsAgree
<1>c. now # 0
  BY DEF IInv, TypeOK, Times
<1>1. CASE Reserve(c)
  <2>1. /\ Registered(req[c]) /\ ~Closed(req[c]) /\ calls[req[c]].state = "none"
        /\ served[req[c]] = 0
    BY <1>1, <1>a DEF Reserve, Reservable, Live, IInv, OwnInv, RowsAgree
  <2>2. /\ \A e \in Executions : e # req[c] => calls'[e] = calls[e]
        /\ calls'[req[c]].state = "pending" /\ calls'[req[c]].dispatched = 0
    BY <1>1, <1>a DEF Reserve, NoCall, IInv, TypeOK
  <2>3. \A d \in Callers : /\ pc'[d] = IF d = c THEN "reserved" ELSE pc[d]
                           /\ req[d] \in Executions
    BY <1>1 DEF Reserve, Goto, IInv, TypeOK
  <2>4. \A d \in Callers : InFlight(d) => req[d] # req[c]
    BY <2>1 DEF IInv, OwnInv, Owned
  <2>5. UNCHANGED <<executions, req, served>>
    BY <1>1 DEF Reserve
  <2>6. OneOwner'
    BY <2>3, <2>4, <2>5 DEF OneOwner, InFlight, IInv, OwnInv
  <2>7. Owned'
    BY <2>1, <2>2, <2>3, <2>4, <2>5 DEF Owned, InFlight, Registered, Closed, IInv, OwnInv
  <2>8. InPlace'
    BY <2>1, <2>2, <2>3, <2>4, <2>5 DEF InPlace, InFlight, BeforeDispatch, AfterCall, IInv, OwnInv
  <2>9. RowsAgree'
    BY <2>1, <2>2, <2>5 DEF RowsAgree, Registered, Closed, IInv, OwnInv
  <2> QED BY <2>6, <2>7, <2>8, <2>9 DEF OwnInv
<1>2. CASE ReserveRefused(c)
  BY <1>2, QuietStep DEF ReserveRefused, Skip, Goto, ledger
<1>3. CASE CheckBefore(c)
  BY <1>3, <1>a, QuietStep DEF CheckBefore, CheckResource, Skip, Goto, ledger, BeforeDispatch
<1>4. CASE CheckAfter(c)
  BY <1>4, <1>a, QuietStep DEF CheckAfter, CheckResource, Skip, Goto, ledger, AfterCall
<1>5. CASE Raise(c)
  BY <1>5, <1>a, QuietStep DEF Raise, Skip, Goto, ledger
<1>6. CASE Audit(c)
  <2> PICK p \in Phases : \/ StartAudit(c, p)
                          \/ \E id \in RequestIds : ObserveAudit(c, p, id)
                          \/ RecordAudit(c, p)
                          \/ AuditRefused(c, p)
    BY <1>6 DEF Audit
  <2>1. CASE StartAudit(c, p)
    BY <2>1, QuietStep DEF StartAudit, Goto, ledger, AuditPc, ObservePc, BeforeDispatch, AfterCall
  <2>2. CASE \E id \in RequestIds : ObserveAudit(c, p, id)
    BY <2>2, QuietStep DEF ObserveAudit, Goto, ledger, ObservePc, RecordPc, BeforeDispatch,
       AfterCall
  <2>3. CASE RecordAudit(c, p)
    BY <2>3, QuietStep DEF RecordAudit, Goto, RecordPc, BeforeDispatch, AfterCall
  <2>4. CASE AuditRefused(c, p)
    BY <2>4, <1>a, QuietStep DEF AuditRefused, Skip, Goto, ledger, RecordPc
  <2> QED BY <2>1, <2>2, <2>3, <2>4
<1>7. CASE Dispatch(c)
  <2> DEFINE row == [calls[req[c]] EXCEPT !.dispatched = now]
  <2>1. served[req[c]] = 0 /\ InFlight(c)
    BY <1>7, <1>a DEF Dispatch, IInv, OwnInv, InPlace, BeforeDispatch
  <2>2. row.state = "pending" /\ row.dispatched # 0
    BY <2>1, <1>b, <1>c DEF CallRows
  <2>3. /\ pc' = [pc EXCEPT ![c] = "calling"]
        /\ calls' = [calls EXCEPT ![req[c]] = row]
        /\ served' = [served EXCEPT ![req[c]] = 0]
        /\ UNCHANGED <<executions, req>>
    BY <1>7, <1>a, <2>1 DEF Dispatch, Dispatched, Goto, IInv, TypeOK
  <2> QED BY <2>1, <2>2, <2>3, OwnerStep DEF BeforeDispatch, AfterCall
<1>8. CASE DispatchRefused(c)
  BY <1>8, <1>a, QuietStep DEF DispatchRefused, Skip, Goto, ledger
<1>9. CASE \E id \in RequestIds \cup {NoId} : Call(c, id)
  <2> PICK id \in RequestIds \cup {NoId} : Call(c, id)  BY <1>9
  <2>1. /\ served[req[c]] = 0 /\ calls[req[c]].dispatched # 0 /\ InFlight(c)
    BY <1>a DEF Call, IInv, OwnInv, InPlace
  <2>2. PICK to \in {"returned", "failing"} : pc' = [pc EXCEPT ![c] = to]
    BY DEF Call, Goto
  <2>3. /\ calls' = [calls EXCEPT ![req[c]] = calls[req[c]]]
        /\ served' = [served EXCEPT ![req[c]] = 1]
        /\ UNCHANGED <<executions, req>>
    BY <1>a, <2>1 DEF Call, ledger, IInv, TypeOK
  <2> QED BY <1>b, <2>1, <2>2, <2>3, OwnerStep DEF BeforeDispatch, AfterCall
<1>10. CASE Complete(c)
  <2> DEFINE id == IF executions[req[c]].mode = "aws" THEN response[c] ELSE NoId
             row == [calls[req[c]] EXCEPT !.state = "complete", !.finished = now, !.provider = id]
  <2>1. served[req[c]] = 1 /\ calls[req[c]].dispatched # 0 /\ InFlight(c)
    BY <1>10, <1>a DEF Complete, IInv, OwnInv, InPlace, AfterCall
  <2>2. row.state = "complete" /\ row.dispatched # 0
    BY <2>1, <1>b DEF CallRows
  <2>3. /\ pc' = [pc EXCEPT ![c] = "idle"]
        /\ calls' = [calls EXCEPT ![req[c]] = row]
        /\ served' = [served EXCEPT ![req[c]] = 1]
        /\ UNCHANGED <<executions, req>>
    BY <1>10, <1>a, <2>1 DEF Complete, Return, IInv, TypeOK
  <2> QED BY <2>1, <2>2, <2>3, OwnerStep DEF BeforeDispatch, AfterCall
<1>11. CASE CompleteRefused(c)
  BY <1>11, <1>a, QuietStep DEF CompleteRefused, Skip, Goto, ledger
<1>12. CASE Fail(c)
  <2>1. InFlight(c)
    BY <1>12, <1>a DEF Fail
  <2>2. /\ pc' = [pc EXCEPT ![c] = "idle"]
        /\ UNCHANGED <<executions, req, served>>
    BY <1>12 DEF Fail, Return
  <2>3. CASE Finishable(req[c])
    <3> DEFINE row == [calls[req[c]] EXCEPT !.state = "error", !.finished = now]
    <3>1. row.state = "error" /\ row.dispatched = calls[req[c]].dispatched
      BY <2>1, <1>b DEF CallRows
    <3>2. /\ calls' = [calls EXCEPT ![req[c]] = row]
          /\ served' = [served EXCEPT ![req[c]] = served[req[c]]]
      BY <1>12, <1>a, <2>2, <2>3 DEF Fail, Failed, IInv, TypeOK
    <3> QED BY <1>b, <2>1, <2>2, <3>1, <3>2, OwnerStep DEF BeforeDispatch, AfterCall
  <2>4. CASE ~Finishable(req[c])
    BY <1>12, <2>2, <2>4, QuietStep DEF Fail
  <2> QED BY <2>3, <2>4
<1> QED BY <1>1, <1>2, <1>3, <1>4, <1>5, <1>6, <1>7, <1>8, <1>9, <1>10, <1>11, <1>12 DEF Step

LEMMA OutsideInv ==
  ASSUME IInv,
         \/ \E e \in Executions : \/ \E mode \in {"aws", "contract"} : Register(e, mode)
                                  \/ Close(e)
         \/ \E c \in Callers, e \in Executions : Authorize(c, e)
         \/ Crash \/ Tick \/ ChangeResource
  PROVE  OwnInv'
<1> USE DEF IInv, OwnInv
<1>a. \A c \in Callers : req[c] \in Executions
  BY DEF TypeOK
<1>1. CASE \E e \in Executions : \E mode \in {"aws", "contract"} : Register(e, mode)
  <2> PICK e \in Executions, mode \in {"aws", "contract"} : Register(e, mode)  BY <1>1
  <2>1. /\ calls[e].state = "none" /\ ~Registered(e)
        /\ UNCHANGED <<calls, pc, req, served>>
    BY DEF Register, RowsAgree, coordinators
  <2>2. \A x \in Executions :
           /\ executions'[x].mode # "none" <=> (x = e \/ executions[x].mode # "none")
           /\ executions'[x].closed # 0 <=> (x # e /\ executions[x].closed # 0)
    BY DEF Register, TypeOK
  <2>3. OneOwner' /\ InPlace'
    BY <2>1 DEF OneOwner, InPlace, InFlight
  <2>4. Owned'
    BY <1>a, <2>1, <2>2 DEF Owned, InFlight, Registered, Closed
  <2>5. RowsAgree'
    BY <2>1, <2>2 DEF RowsAgree, Registered, Closed
  <2> QED BY <2>3, <2>4, <2>5
<1>2. CASE \E e \in Executions : Close(e)
  <2> PICK e \in Executions : Close(e)  BY <1>2
  <2>1. /\ calls[e].state # "pending" /\ Registered(e)
        /\ UNCHANGED <<calls, pc, req, served>>
    BY DEF Close, Settled, coordinators
  <2>2. \A x \in Executions :
           /\ executions'[x].mode # "none" <=> executions[x].mode # "none"
           /\ x # e => (executions'[x].closed # 0 <=> executions[x].closed # 0)
    BY DEF Close, TypeOK, ExecutionRows
  <2>3. OneOwner' /\ InPlace'
    BY <2>1 DEF OneOwner, InPlace, InFlight
  <2>4. Owned'
    BY <1>a, <2>1, <2>2 DEF Owned, InFlight, Registered, Closed
  <2>5. RowsAgree'
    BY <2>1, <2>2 DEF RowsAgree, Registered, Closed
  <2> QED BY <2>3, <2>4, <2>5
<1>3. CASE \E c \in Callers, e \in Executions : Authorize(c, e)
  <2> PICK c \in Callers, e \in Executions : Authorize(c, e)  BY <1>3
  <2>1. /\ \A d \in Callers : /\ pc'[d] = IF d = c THEN "authorized" ELSE pc[d]
                              /\ d # c => req'[d] = req[d]
        /\ UNCHANGED <<executions, calls, served>>
    BY DEF Authorize, Goto, TypeOK, ledger
  <2> QED BY <2>1 DEF OneOwner, Owned, InPlace, RowsAgree, InFlight, BeforeDispatch, AfterCall,
          Registered, Closed
<1>4. CASE Crash
  BY <1>4 DEF Crash, OneOwner, Owned, InPlace, RowsAgree, InFlight, BeforeDispatch, AfterCall,
     Registered, Closed, ledger
<1>5. CASE Tick \/ ChangeResource
  BY <1>5 DEF Tick, ChangeResource, OneOwner, Owned, InPlace, RowsAgree, InFlight,
     BeforeDispatch, AfterCall, Registered, Closed, ledger, coordinators
<1> QED BY <1>1, <1>2, <1>3, <1>4, <1>5

LEMMA NextInv == IInv /\ [Next]_vars => IInv'
<1> SUFFICES ASSUME IInv, [Next]_vars PROVE IInv'  OBVIOUS
<1>1. TypeOK'
  BY NextType DEF IInv
<1>2. CASE UNCHANGED vars
  BY <1>1, <1>2 DEF vars, IInv, OwnInv, OneOwner, Owned, InPlace, RowsAgree, InFlight,
     BeforeDispatch, AfterCall, Registered, Closed
<1>3. CASE Next
  BY <1>1, <1>3, OutsideInv, StepInv DEF Next, IInv
<1> QED BY <1>2, <1>3

THEOREM Invariance == Spec => []IInv
  BY InitInv, NextInv, PTL DEF Spec

\* The provider is asked at most once for an execution.
THEOREM AtMostOneCallAlways == Spec => []AtMostOneCall
<1>1. IInv => AtMostOneCall
  BY DEF IInv, OwnInv, RowsAgree, AtMostOneCall
<1> QED BY <1>1, Invariance, PTL

\* A call the provider has seen is marked as dispatched, whatever crashed.
THEOREM CallIsRecordedAlways == Spec => []CallIsRecorded
<1>1. IInv => CallIsRecorded
  BY DEF IInv, OwnInv, RowsAgree, CallIsRecorded, TypeOK
<1> QED BY <1>1, Invariance, PTL

\* No two coordinators work on the same call.
THEOREM OneOwnerAlways == Spec => []OneOwner
<1>1. IInv => OneOwner
  BY DEF IInv, OwnInv
<1> QED BY <1>1, Invariance, PTL

\* Nothing works on a closed execution.
THEOREM ClosedIsQuietAlways == Spec => []ClosedIsQuiet
<1>1. IInv => ClosedIsQuiet
  BY DEF IInv, OwnInv, Owned, RowsAgree, ClosedIsQuiet, Works
<1> QED BY <1>1, Invariance, PTL

-----------------------------------------------------------------------------
(* The ledger and its coordinators implement OneShotCall. *)

LEMMA InitOneShot == Init => Abstract!Init
  BY DEF Init, Abstract!Init, CallStatus, ClosedExecutions, Registered, Closed, NoExecution

\* A step that touches no row of an execution or a call is a stutter.
LEMMA StutterStep ==
  ASSUME UNCHANGED <<executions, calls, served>>
  PROVE  UNCHANGED Abstract!vars
  BY DEF Abstract!vars, CallStatus, ClosedExecutions, Registered, Closed

\* Two functions that differ at one point only.
LEMMA OneUpdate ==
  ASSUME NEW S, NEW f, NEW g, NEW x \in S, NEW v,
         f = [y \in S |-> f[y]], g = [y \in S |-> g[y]],
         \A y \in S : g[y] = IF y = x THEN v ELSE f[y]
  PROVE  g = [f EXCEPT ![x] = v]
  OBVIOUS

\* A change of one call's row moves the status of that execution only.
LEMMA CallMoves ==
  ASSUME TypeOK, NEW e \in Executions, NEW row, UNCHANGED executions, Registered(e),
         row.state # "none",
         calls' = [calls EXCEPT ![e] = row]
  PROVE  /\ CallStatus' = [CallStatus EXCEPT ![e] =
                IF row.state # "pending" THEN row.state
                ELSE IF row.dispatched = 0 THEN "reserved" ELSE "dispatched"]
         /\ ClosedExecutions' = ClosedExecutions
<1>1. \A x \in Executions : calls'[x] = IF x = e THEN row ELSE calls[x]
  BY DEF TypeOK
<1>2. ClosedExecutions' = ClosedExecutions
  BY DEF ClosedExecutions, Closed
<1> DEFINE new == IF row.state # "pending" THEN row.state
                  ELSE IF row.dispatched = 0 THEN "reserved" ELSE "dispatched"
<1>3. \A x \in Executions : CallStatus'[x] = IF x = e THEN new ELSE CallStatus[x]
  BY <1>1 DEF CallStatus, Registered
<1>4. CallStatus' = [CallStatus EXCEPT ![e] = new]
  <2>1. /\ CallStatus = [x \in Executions |-> CallStatus[x]]
        /\ CallStatus' = [x \in Executions |-> CallStatus'[x]]
    BY DEF CallStatus
  <2> HIDE DEF new
  <2> QED BY <1>3, <2>1, OneUpdate
<1> QED BY <1>2, <1>4

LEMMA StepOneShot ==
  ASSUME IInv, NEW c \in Callers, Step(c)
  PROVE  Abstract!Next \/ UNCHANGED Abstract!vars
<1> DEFINE e == req[c]
<1>a. e \in Executions /\ calls[e] \in CallRows /\ now # 0 /\ TypeOK
  BY DEF IInv, TypeOK, Times
<1>b. InFlight(c) => /\ calls[e].state = "pending" /\ Registered(e) /\ ~Closed(e)
                     /\ CallStatus[e] = IF calls[e].dispatched = 0 THEN "reserved" ELSE "dispatched"
                     /\ e \notin ClosedExecutions
  BY <1>a DEF IInv, OwnInv, Owned, CallStatus, ClosedExecutions
<1>1. CASE UNCHANGED <<executions, calls, served>>
  BY <1>1, StutterStep
<1>2. CASE Reserve(c)
  <2> DEFINE row == [NoCall EXCEPT !.state = "pending", !.started = now]
  <2>1. Registered(e) /\ ~Closed(e) /\ calls[e].state = "none"
    BY <1>2 DEF Reserve, Reservable, Live
  <2>2. CallStatus[e] = "open" /\ e \notin ClosedExecutions
    BY <1>a, <2>1 DEF CallStatus, ClosedExecutions
  <2>3. row.state = "pending" /\ row.dispatched = 0
    BY DEF NoCall
  <2>4. calls' = [calls EXCEPT ![e] = row] /\ UNCHANGED <<executions, served>>
    BY <1>2 DEF Reserve
  <2>5. /\ CallStatus' = [CallStatus EXCEPT ![e] = "reserved"]
        /\ ClosedExecutions' = ClosedExecutions
    BY <1>a, <2>1, <2>3, <2>4, CallMoves
  <2>6. Abstract!Reserve(e)
    BY <2>2, <2>4, <2>5 DEF Abstract!Reserve, Abstract!Move
  <2> QED BY <1>a, <2>6 DEF Abstract!Next
<1>3. CASE Dispatch(c)
  <2> DEFINE row == [calls[e] EXCEPT !.dispatched = now]
  <2>1. InFlight(c) /\ calls[e].dispatched = 0
    BY <1>3 DEF Dispatch, Dispatchable, InFlight
  <2>2. row.state = "pending" /\ row.dispatched # 0
    BY <1>a, <1>b, <2>1 DEF CallRows
  <2>3. calls' = [calls EXCEPT ![e] = row] /\ UNCHANGED <<executions, served>>
    BY <1>3, <1>a DEF Dispatch, Dispatched, TypeOK
  <2>4. /\ CallStatus' = [CallStatus EXCEPT ![e] = "dispatched"]
        /\ ClosedExecutions' = ClosedExecutions
    BY <1>a, <1>b, <2>1, <2>2, <2>3, CallMoves
  <2>5. Abstract!Dispatch(e)
    BY <1>b, <2>1, <2>3, <2>4 DEF Abstract!Dispatch, Abstract!Move
  <2> QED BY <1>a, <2>5 DEF Abstract!Next
<1>4. CASE \E id \in RequestIds \cup {NoId} : Call(c, id)
  <2> PICK id \in RequestIds \cup {NoId} : Call(c, id)  BY <1>4
  <2>a. pc[c] = "calling"
    BY DEF Call
  <2>b. served[e] = 0 /\ calls[e].dispatched # 0
    BY <2>a DEF IInv, OwnInv, InPlace
  <2>1. /\ InFlight(c) /\ calls[e].dispatched # 0 /\ served[e] = 0
        /\ served' = [served EXCEPT ![e] = 1] /\ UNCHANGED <<executions, calls>>
    BY <2>a, <2>b DEF Call, InFlight, ledger
  <2>2. UNCHANGED <<CallStatus, ClosedExecutions>>
    BY <2>1 DEF CallStatus, ClosedExecutions, Registered, Closed
  <2>3. Abstract!Serve(e)
    BY <1>b, <2>1, <2>2 DEF Abstract!Serve
  <2> QED BY <1>a, <2>3 DEF Abstract!Next
<1>5. CASE Complete(c)
  <2> DEFINE id == IF executions[e].mode = "aws" THEN response[c] ELSE NoId
             row == [calls[e] EXCEPT !.state = "complete", !.finished = now, !.provider = id]
  <2>1. InFlight(c) /\ calls[e].dispatched # 0 /\ served[e] = 1
    BY <1>5, <1>a DEF Complete, InFlight, IInv, OwnInv, InPlace, AfterCall
  <2>2. row.state = "complete"
    BY <1>a DEF CallRows
  <2>3. calls' = [calls EXCEPT ![e] = row] /\ UNCHANGED <<executions, served>>
    BY <1>5, <1>a DEF Complete, TypeOK
  <2>4. /\ CallStatus' = [CallStatus EXCEPT ![e] = "complete"]
        /\ ClosedExecutions' = ClosedExecutions
    <3> HIDE DEF row
    <3> QED BY <1>a, <1>b, <2>1, <2>2, <2>3, CallMoves
  <2>5. Abstract!Complete(e)
    BY <1>b, <2>1, <2>3, <2>4 DEF Abstract!Complete, Abstract!Move
  <2> QED BY <1>a, <2>5 DEF Abstract!Next
<1>6. CASE Fail(c) /\ Finishable(e)
  <2> DEFINE row == [calls[e] EXCEPT !.state = "error", !.finished = now]
  <2>1. InFlight(c)
    BY <1>6 DEF Fail, InFlight
  <2>2. row.state = "error"
    BY <1>a DEF CallRows
  <2>3. calls' = [calls EXCEPT ![e] = row] /\ UNCHANGED <<executions, served>>
    BY <1>6, <1>a DEF Fail, Failed, TypeOK
  <2>4. /\ CallStatus' = [CallStatus EXCEPT ![e] = "error"]
        /\ ClosedExecutions' = ClosedExecutions
    BY <1>a, <1>b, <2>1, <2>2, <2>3, CallMoves
  <2>5. Abstract!Fail(e)
    BY <1>b, <2>1, <2>3, <2>4 DEF Abstract!Fail, Abstract!Move
  <2> QED BY <1>a, <2>5 DEF Abstract!Next
<1>7. CASE ~(\/ UNCHANGED <<executions, calls, served>> \/ Reserve(c) \/ Dispatch(c)
             \/ (\E id \in RequestIds \cup {NoId} : Call(c, id)) \/ Complete(c)
             \/ (Fail(c) /\ Finishable(e)))
  BY <1>7 DEF Step, ReserveRefused, CheckBefore, CheckAfter, CheckResource, Raise, Skip, ledger,
     Audit, StartAudit, ObserveAudit, RecordAudit, AuditRefused, DispatchRefused,
     CompleteRefused, Fail
<1> QED BY <1>1, <1>2, <1>3, <1>4, <1>5, <1>6, <1>7

LEMMA NextOneShot ==
  ASSUME IInv, [Next]_vars
  PROVE  [Abstract!Next]_(Abstract!vars)
<1>1. CASE UNCHANGED <<executions, calls, served>>
  BY <1>1, StutterStep
<1>2. CASE \E e \in Executions : \E mode \in {"aws", "contract"} : Register(e, mode)
  <2> PICK e \in Executions, mode \in {"aws", "contract"} : Register(e, mode)  BY <1>2
  <2>1. /\ ~Registered(e) /\ ~Closed(e) /\ calls[e].state = "none"
        /\ UNCHANGED <<calls, served>>
    BY DEF Register, IInv, OwnInv, RowsAgree
  <2>2. \A x \in Executions :
          executions'[x] = IF x = e THEN [mode |-> mode, digest |-> resource, started |-> now,
                                          closed |-> 0] ELSE executions[x]
    BY DEF Register, IInv, TypeOK
  <2>3. CallStatus' = [CallStatus EXCEPT ![e] = "open"]
    <3>1. \A x \in Executions : CallStatus'[x] = IF x = e THEN "open" ELSE CallStatus[x]
      BY <2>1, <2>2 DEF CallStatus, Registered
    <3> QED BY <3>1 DEF CallStatus
  <2>4. UNCHANGED ClosedExecutions /\ e \notin ClosedExecutions
    BY <2>1, <2>2 DEF ClosedExecutions, Closed
  <2>5. Abstract!Register(e)
    BY <2>1, <2>3, <2>4 DEF Abstract!Register, Abstract!Move, CallStatus
  <2> QED BY <2>5 DEF Abstract!Next
<1>3. CASE \E e \in Executions : Close(e)
  <2> PICK e \in Executions : Close(e)  BY <1>3
  <2>1. /\ Registered(e) /\ ~Closed(e) /\ calls[e].state # "pending" /\ now # 0
        /\ calls[e].state \in {"none", "complete", "error"}
        /\ UNCHANGED <<calls, served>>
    BY DEF Close, Settled, IInv, TypeOK, Times, CallRows
  <2>2. \A x \in Executions : /\ executions'[x].mode = executions[x].mode
                             /\ executions'[x].closed = IF x = e THEN now ELSE executions[x].closed
    BY DEF Close, IInv, TypeOK, ExecutionRows
  <2>3. UNCHANGED CallStatus
    BY <2>1, <2>2 DEF CallStatus, Registered
  <2>4. ClosedExecutions' = ClosedExecutions \cup {e} /\ e \notin ClosedExecutions
    BY <2>1, <2>2 DEF ClosedExecutions, Closed
  <2>5. CallStatus[e] \in {"open", "complete", "error"}
    BY <2>1 DEF CallStatus
  <2>6. Abstract!Close(e)
    BY <2>1, <2>3, <2>4, <2>5 DEF Abstract!Close
  <2> QED BY <2>6 DEF Abstract!Next
<1>4. CASE \E c \in Callers : Step(c)
  BY <1>4, StepOneShot
<1>5. CASE \/ \E c \in Callers, e \in Executions : Authorize(c, e)
           \/ Crash \/ Tick \/ ChangeResource \/ UNCHANGED vars
  BY <1>1, <1>5 DEF Authorize, Crash, Tick, ChangeResource, vars, ledger
<1> QED BY <1>2, <1>3, <1>4, <1>5 DEF Next

\* Every behaviour of the ledger with racing, retried and crashing
\* coordinators is a behaviour of OneShotCall.
THEOREM Refinement == Spec => OneShot
  BY InitOneShot, NextOneShot, Invariance, PTL DEF Spec, OneShot, Abstract!Spec

-----------------------------------------------------------------------------
(* What a step may never do. *)

\* A coordinator changes nothing of an execution it does not work on and
\* cannot reserve.
LEMMA Untouched ==
  ASSUME TypeOK, NEW c \in Callers, Step(c), NEW e \in Executions,
         ~Works(c, e), ~Reservable(e)
  PROVE  /\ executions' = executions /\ calls'[e] = calls[e]
         /\ served'[e] = served[e] /\ audits'[e] = audits[e]
<1>a. req[c] \in Executions
  BY DEF TypeOK
<1>1. CASE UNCHANGED <<executions, calls, served, audits>>
  BY <1>1
<1>2. CASE Reserve(c)
  BY <1>2, <1>a DEF Reserve, TypeOK
<1>3. CASE Dispatch(c) \/ Complete(c) \/ Fail(c)
  <2>1. req[c] # e
    BY <1>3 DEF Dispatch, Complete, Fail, Works, InFlight
  <2> QED BY <1>3, <1>a, <2>1 DEF Dispatch, Dispatched, Complete, Fail, Failed, TypeOK
<1>4. CASE \E id \in RequestIds \cup {NoId} : Call(c, id)
  <2> PICK id \in RequestIds \cup {NoId} : Call(c, id)  BY <1>4
  <2>1. req[c] # e
    BY DEF Call, Works, InFlight
  <2> QED BY <1>a, <2>1 DEF Call, ledger, TypeOK
<1>5. CASE \E p \in Phases : RecordAudit(c, p)
  <2> PICK p \in Phases : RecordAudit(c, p)  BY <1>5
  <2>1. req[c] # e
    BY DEF RecordAudit, RecordPc, Works, InFlight
  <2> QED BY <1>a, <2>1 DEF RecordAudit, TypeOK
<1> QED BY <1>1, <1>2, <1>3, <1>4, <1>5 DEF Step, ReserveRefused, CheckBefore, CheckAfter,
        CheckResource, Raise, Skip, ledger, Audit, StartAudit, ObserveAudit, AuditRefused,
        DispatchRefused, CompleteRefused

\* A closed execution is final: row, call, audits and provider calls.
THEOREM ClosedIsFinalAlways == Spec => ClosedIsFinal
<1> DEFINE Kept(e) == /\ executions'[e] = executions[e] /\ calls'[e] = calls[e]
                      /\ audits'[e] = audits[e] /\ served'[e] = served[e]
<1>1. ASSUME IInv, [Next]_vars, NEW e \in Executions, Closed(e)
      PROVE  Kept(e)
  <2>a. \A c \in Callers : ~Works(c, e)
    BY <1>1 DEF IInv, OwnInv, Owned, Works
  <2>b. Registered(e) /\ ~Reservable(e)
    BY <1>1 DEF IInv, OwnInv, RowsAgree, Reservable, Live
  <2>1. CASE \E c \in Callers : Step(c)
    BY <1>1, <2>1, <2>a, <2>b, Untouched DEF IInv
  <2>2. CASE \E x \in Executions : \E mode \in {"aws", "contract"} : Register(x, mode)
    BY <1>1, <2>2, <2>b DEF Register, IInv, TypeOK
  <2>3. CASE \E x \in Executions : Close(x)
    BY <1>1, <2>3 DEF Close, IInv, TypeOK
  <2>4. CASE \/ \E c \in Callers, x \in Executions : Authorize(c, x)
             \/ Crash \/ Tick \/ ChangeResource \/ UNCHANGED vars
    BY <2>4 DEF Authorize, Crash, Tick, ChangeResource, vars, ledger
  <2> QED BY <1>1, <2>1, <2>2, <2>3, <2>4 DEF Next
<1>2. IInv /\ [Next]_vars => [\A e \in Executions : Closed(e) => Kept(e)]_vars
  BY <1>1
<1> QED BY <1>2, Invariance, PTL DEF Spec, ClosedIsFinal

\* A pending call nobody works on any more is never run again or settled.
THEOREM OrphanStaysPendingAlways == Spec => OrphanStaysPending
<1> DEFINE Orphan(e) == calls[e].state = "pending" /\ (\A c \in Callers : ~Works(c, e))
           Kept(e) == calls'[e] = calls[e] /\ executions'[e] = executions[e] /\ served'[e] = served[e]
<1>1. ASSUME IInv, [Next]_vars, NEW e \in Executions, Orphan(e)
      PROVE  Kept(e)
  <2>a. Registered(e) /\ ~Reservable(e)
    BY <1>1 DEF IInv, OwnInv, RowsAgree, Reservable
  <2>1. CASE \E c \in Callers : Step(c)
    BY <1>1, <2>1, <2>a, Untouched DEF IInv
  <2>2. CASE \E x \in Executions : \E mode \in {"aws", "contract"} : Register(x, mode)
    BY <1>1, <2>2, <2>a DEF Register, IInv, TypeOK
  <2>3. CASE \E x \in Executions : Close(x)
    BY <1>1, <2>3 DEF Close, Settled, IInv, TypeOK
  <2>4. CASE \/ \E c \in Callers, x \in Executions : Authorize(c, x)
             \/ Crash \/ Tick \/ ChangeResource \/ UNCHANGED vars
    BY <2>4 DEF Authorize, Crash, Tick, ChangeResource, vars, ledger
  <2> QED BY <1>1, <2>1, <2>2, <2>3, <2>4 DEF Next
<1>2. IInv /\ [Next]_vars => [\A e \in Executions : Orphan(e) => Kept(e)]_vars
  BY <1>1
<1> QED BY <1>2, Invariance, PTL DEF Spec, OrphanStaysPending

-----------------------------------------------------------------------------
(* The evidence of a complete call.  Two more invariants, both on top of    *)
(* IInv: what is stored proves the call, whatever the clock does; and the   *)
(* stamps are in order, when the clock does not step back.                  *)

Stored(e, p) == audits[e][p] # NoReceipt

\* No two stored audits share an id, and no two calls a provider's id.
IdsDistinct ==
  /\ \A e, x \in Executions, p, q \in Phases :
       audits[e][p].id # NoId /\ audits[e][p].id = audits[x][q].id => e = x /\ p = q
  /\ \A e, x \in Executions :
       calls[e].provider # NoId /\ calls[e].provider = calls[x].provider => e = x

\* A stored audit names the registered resources; the second one is younger
\* than the dispatch.
StoredIsProof == \A e \in Executions, p \in Phases : Stored(e, p) =>
  /\ audits[e][p].id # NoId /\ audits[e][p].digest = executions[e].digest
  /\ calls[e].state # "none"
  /\ p = "after" => calls[e].dispatched # 0 /\ calls[e].dispatched <= audits[e][p].started

\* A coordinator about to record an audit has the ids AWS gave it.
HeldHasId == \A c \in Callers : pc[c] \in {"record_before", "record_after"} => receipt[c].id # NoId

\* How far a coordinator of an AWS call got tells which audits are stored.
Audited(c, label) == executions[req[c]].mode = "aws" =>
  /\ label \in {"dispatching", "calling"} \cup AfterCall => Stored(req[c], "before")
  /\ label = "finishing" => Stored(req[c], "after")
AuditedSoFar == \A c \in Callers : Audited(c, pc[c])

\* A complete AWS call has both, and the id of the provider's answer.
CompleteAudited == \A e \in Executions :
  calls[e].state = "complete" /\ executions[e].mode = "aws" =>
    Stored(e, "before") /\ Stored(e, "after") /\ calls[e].provider # NoId

ProofInv == IdsDistinct /\ StoredIsProof /\ HeldHasId /\ AuditedSoFar /\ CompleteAudited
EInv == IInv /\ ProofInv

\* No stamp lies in the future.
RowsPast == \A e \in Executions :
  /\ executions[e].started <= now /\ executions[e].closed <= now
  /\ calls[e].started <= now /\ calls[e].dispatched <= now /\ calls[e].finished <= now
  /\ \A p \in Phases : audits[e][p].started <= now /\ audits[e][p].observed <= now
HeldPast == \A c \in Callers :
  /\ receipt[c].started <= now /\ receipt[c].observed <= now
  /\ pc[c] \in {"record_before", "record_after"} => receipt[c].started <= receipt[c].observed

\* The stamps of one execution follow its life.
RowsInOrder == \A e \in Executions :
  /\ calls[e].state # "none" => executions[e].started <= calls[e].started
  /\ \A p \in Phases : Stored(e, p) => /\ calls[e].started <= audits[e][p].started
                                       /\ audits[e][p].started <= audits[e][p].observed
  /\ Stored(e, "before") /\ calls[e].dispatched # 0 =>
       audits[e]["before"].observed <= calls[e].dispatched
  /\ calls[e].state = "complete" => audits[e]["after"].observed <= calls[e].finished
  /\ calls[e].state = "complete" /\ Closed(e) => calls[e].finished <= executions[e].closed

TimeInv == RowsPast /\ HeldPast /\ RowsInOrder

LEMMA InitProof == Init => EInv
  BY InitInv DEF Init, EInv, ProofInv, IdsDistinct, StoredIsProof, HeldHasId, AuditedSoFar, Audited,
     CompleteAudited, Stored, NoReceipt, NoCall, NoExecution, AfterCall

\* A step that writes no row: the thread's next label must be audited for.
LEMMA QuietProof ==
  ASSUME EInv, NEW c \in Callers, NEW to, NEW r,
         pc' = [pc EXCEPT ![c] = to], receipt' = [receipt EXCEPT ![c] = r],
         UNCHANGED <<executions, calls, audits, req>>,
         to \in {"record_before", "record_after"} => r.id # NoId,
         Audited(c, to)
  PROVE  ProofInv'
<1> USE DEF EInv, IInv, ProofInv
<1>1. \A d \in Callers : /\ pc'[d] = IF d = c THEN to ELSE pc[d]
                         /\ receipt'[d] = IF d = c THEN r ELSE receipt[d]
  BY DEF TypeOK
<1>2. IdsDistinct' /\ StoredIsProof' /\ CompleteAudited'
  BY DEF IdsDistinct, StoredIsProof, CompleteAudited, Stored
<1>3. HeldHasId'
  BY <1>1 DEF HeldHasId
<1>4. AuditedSoFar'
  BY <1>1 DEF AuditedSoFar, Audited, Stored
<1> QED BY <1>2, <1>3, <1>4

\* A step that writes the row of one call.
LEMMA CallProof ==
  ASSUME EInv, NEW c \in Callers, NEW to, NEW r, NEW row,
         pc' = [pc EXCEPT ![c] = to], receipt' = [receipt EXCEPT ![c] = r],
         calls' = [calls EXCEPT ![req[c]] = row],
         UNCHANGED <<executions, audits, req>>,
         to \notin {"record_before", "record_after"},
         Audited(c, to),
         row.state # "none",
         Stored(req[c], "after") =>
           row.dispatched # 0 /\ row.dispatched <= audits[req[c]]["after"].started,
         row.provider # NoId => \A x \in Executions : x # req[c] => calls[x].provider # row.provider,
         row.state = "complete" /\ executions[req[c]].mode = "aws" =>
           Stored(req[c], "before") /\ Stored(req[c], "after") /\ row.provider # NoId
  PROVE  ProofInv'
<1> USE DEF EInv, IInv, ProofInv
<1>1. \A d \in Callers : /\ pc'[d] = IF d = c THEN to ELSE pc[d]
                         /\ receipt'[d] = IF d = c THEN r ELSE receipt[d]
  BY DEF TypeOK
<1>2. /\ req[c] \in Executions
      /\ \A e \in Executions : calls'[e] = IF e = req[c] THEN row ELSE calls[e]
  BY DEF TypeOK
<1>3. IdsDistinct'
  BY <1>2 DEF IdsDistinct
<1>4. StoredIsProof'
  BY <1>2 DEF StoredIsProof, Stored
<1>5. CompleteAudited'
  BY <1>2 DEF CompleteAudited, Stored
<1>6. HeldHasId'
  BY <1>1 DEF HeldHasId
<1>7. AuditedSoFar'
  BY <1>1 DEF AuditedSoFar, Audited, Stored
<1> QED BY <1>3, <1>4, <1>5, <1>6, <1>7

LEMMA AuditProof ==
  ASSUME EInv, NEW c \in Callers, NEW p \in Phases, RecordAudit(c, p)
  PROVE  ProofInv'
<1> USE DEF EInv, IInv, ProofInv
<1> DEFINE e == req[c]
<1>1. \A d \in Callers : /\ pc'[d] = IF d = c THEN (IF p = "before" THEN "dispatching" ELSE "finishing")
                                              ELSE pc[d]
                         /\ receipt'[d] = IF d = c THEN NoReceipt ELSE receipt[d]
  BY DEF TypeOK, RecordAudit, Goto
<1>2. /\ e \in Executions
      /\ \A x \in Executions, q \in Phases :
           audits'[x][q] = IF x = e /\ q = p THEN receipt[c] ELSE audits[x][q]
  BY DEF TypeOK, RecordAudit
<1>3. receipt[c].id # NoId /\ receipt[c] # NoReceipt
  <2>1. pc[c] \in {"record_before", "record_after"}
    BY DEF RecordAudit, RecordPc
  <2> QED BY <2>1 DEF HeldHasId, NoReceipt
<1>4. \A x \in Executions, q \in Phases : /\ audits[x][q].id # receipt[c].id
                                          /\ Stored(x, q) => Stored(x, q)'
  BY <1>2, <1>3 DEF RecordAudit, AuditAdmissible, UsedAuditIds, Stored
<1>5. IdsDistinct'
  <2>1. ASSUME NEW x \in Executions, NEW y \in Executions, NEW q \in Phases, NEW s \in Phases,
               audits'[x][q].id # NoId, audits'[x][q].id = audits'[y][s].id
        PROVE  x = y /\ q = s
    BY <2>1, <1>2, <1>4 DEF IdsDistinct
  <2>2. UNCHANGED calls
    BY DEF RecordAudit
  <2> QED BY <2>1, <2>2 DEF IdsDistinct
<1>6. StoredIsProof'
  BY <1>2, <1>3 DEF StoredIsProof, Stored, RecordAudit, AuditAdmissible, Pending
<1>7. HeldHasId'
  BY <1>1 DEF HeldHasId
<1>8. CompleteAudited'
  BY <1>4 DEF CompleteAudited, RecordAudit, Phases
<1>9. AuditedSoFar'
  <2>1. audits'[e][p] # NoReceipt
    BY <1>2, <1>3
  <2>2. p = "after" => executions[e].mode = "aws" /\ Stored(e, "before")
    BY DEF RecordAudit, AuditAdmissible, Stored
  <2>3. UNCHANGED <<executions, req>> /\ \A d \in Callers : req[d] \in Executions
    BY DEF RecordAudit, TypeOK
  <2> QED BY <1>1, <1>4, <2>1, <2>2, <2>3 DEF AuditedSoFar, Audited, Stored, Phases, AfterCall
<1> QED BY <1>5, <1>6, <1>7, <1>8, <1>9

LEMMA StepProof ==
  ASSUME EInv, NEW c \in Callers, Step(c)
  PROVE  ProofInv'
<1> DEFINE e == req[c]
<1>a. /\ e \in Executions /\ calls[e] \in CallRows /\ now # 0 /\ now \in Stamps
      /\ receipt = [receipt EXCEPT ![c] = receipt[c]]
  BY NowType DEF EInv, IInv, TypeOK, Times
<1>b. Audited(c, pc[c])
  BY DEF EInv, ProofInv, AuditedSoFar
<1>c. \A q \in Phases : Stored(e, q) =>
        /\ calls[e].state # "none"
        /\ q = "after" => calls[e].dispatched # 0 /\ calls[e].dispatched <= audits[e][q].started
  BY <1>a DEF EInv, ProofInv, StoredIsProof
<1>d. InFlight(c) => calls[e].state = "pending"
  BY DEF EInv, IInv, OwnInv, Owned
<1>e. calls[e].provider # NoId => \A x \in Executions : x # e => calls[x].provider # calls[e].provider
  BY <1>a DEF EInv, ProofInv, IdsDistinct
<1>f. "before" \in Phases /\ "after" \in Phases
  BY DEF Phases
<1>1. ASSUME NEW from, NEW to, Skip(c, from, to), to \notin {"record_before", "record_after"},
             Audited(c, to)
      PROVE  ProofInv'
  BY <1>1, <1>a, QuietProof DEF Skip, Goto, ledger
<1>2. CASE Reserve(c)
  <2> DEFINE row == [NoCall EXCEPT !.state = "pending", !.started = now]
  <2>1. row.state = "pending" /\ row.provider = NoId
    BY DEF NoCall
  <2>2. ~Stored(e, "before") /\ ~Stored(e, "after")
    BY <1>2, <1>c, <1>f DEF Reserve, Reservable
  <2>3. /\ pc' = [pc EXCEPT ![c] = "reserved"]
        /\ receipt' = [receipt EXCEPT ![c] = receipt[c]]
        /\ calls' = [calls EXCEPT ![e] = row]
        /\ UNCHANGED <<executions, audits, req>>
    BY <1>2, <1>a DEF Reserve, Goto
  <2>4. Audited(c, "reserved")
    BY DEF Audited, AfterCall
  <2> HIDE DEF row
  <2> QED BY <2>1, <2>2, <2>3, <2>4, CallProof
<1>3. CASE ReserveRefused(c) \/ CheckBefore(c) \/ CheckAfter(c) \/ Raise(c) \/ DispatchRefused(c)
           \/ CompleteRefused(c) \/ \E p \in Phases : AuditRefused(c, p)
  <2>1. Audited(c, "idle") /\ Audited(c, "failing") /\ Audited(c, "audit_before")
    BY DEF Audited, AfterCall
  <2>2. CASE CheckBefore(c)
    <3>1. executions[e].mode # "aws" => Audited(c, "dispatching")
      BY DEF Audited
    <3> QED BY <1>1, <2>1, <2>2, <3>1 DEF CheckBefore, CheckResource
  <2>3. CASE CheckAfter(c)
    <3>1. pc[c] = "returned" => Audited(c, "audit_after")
      BY <1>b DEF Audited, AfterCall
    <3>2. executions[e].mode # "aws" => Audited(c, "finishing")
      BY DEF Audited
    <3> QED BY <1>1, <2>1, <2>3, <3>1, <3>2 DEF CheckAfter, CheckResource, Skip
  <2>4. CASE ReserveRefused(c) \/ Raise(c) \/ DispatchRefused(c) \/ CompleteRefused(c)
             \/ \E p \in Phases : AuditRefused(c, p)
    BY <1>1, <2>1, <2>4 DEF ReserveRefused, Raise, DispatchRefused, CompleteRefused, AuditRefused
  <2> QED BY <1>3, <2>2, <2>3, <2>4
<1>4. CASE \E p \in Phases : StartAudit(c, p)
  <2> PICK p \in Phases : StartAudit(c, p)  BY <1>4
  <2>1. Audited(c, ObservePc(p))
    BY <1>b DEF Audited, AfterCall, StartAudit, AuditPc, ObservePc
  <2>2. ObservePc(p) \notin {"record_before", "record_after"}
    BY DEF ObservePc
  <2> HIDE DEF e
  <2> QED BY <2>1, <2>2, QuietProof DEF StartAudit, Goto, ledger
<1>5. CASE \E p \in Phases, id \in RequestIds : ObserveAudit(c, p, id)
  <2> PICK p \in Phases, id \in RequestIds : ObserveAudit(c, p, id)  BY <1>5
  <2>1. Audited(c, RecordPc(p))
    BY <1>b DEF Audited, AfterCall, ObserveAudit, RecordPc, ObservePc
  <2> DEFINE r == [receipt[c] EXCEPT !.observed = now, !.id = id]
  <2>2. receipt' = [receipt EXCEPT ![c] = r] /\ r.id = id /\ id # NoId
    BY SentinelAssumption DEF ObserveAudit, EInv, IInv, TypeOK, Receipts
  <2> HIDE DEF r
  <2> QED BY <2>1, <2>2, QuietProof DEF ObserveAudit, Goto, ledger
<1>6. CASE \E p \in Phases : RecordAudit(c, p)
  BY <1>6, AuditProof
<1>7. CASE Dispatch(c)
  <2> DEFINE row == [calls[e] EXCEPT !.dispatched = now]
  <2>1. InFlight(c) /\ ~Stored(e, "after") /\ Audited(c, "calling")
    BY <1>7, <1>b, <1>c, <1>f DEF Dispatch, Dispatchable, InFlight, Audited, AfterCall
  <2>2. row.state = "pending" /\ row.provider = calls[e].provider
    BY <2>1, <1>a, <1>d DEF CallRows
  <2>3. /\ pc' = [pc EXCEPT ![c] = "calling"]
        /\ receipt' = [receipt EXCEPT ![c] = receipt[c]]
        /\ calls' = [calls EXCEPT ![e] = row]
        /\ UNCHANGED <<executions, audits, req>>
    BY <1>7, <1>a DEF Dispatch, Dispatched, Goto, EInv, IInv, TypeOK
  <2> HIDE DEF row
  <2> QED BY <1>e, <2>1, <2>2, <2>3, CallProof
<1>8. CASE \E id \in RequestIds \cup {NoId} : Call(c, id)
  <2> PICK id \in RequestIds \cup {NoId} : Call(c, id)  BY <1>8
  <2>1. Audited(c, "returned") /\ Audited(c, "failing")
    BY <1>b DEF Audited, AfterCall, Call
  <2>2. PICK to \in {"returned", "failing"} : pc' = [pc EXCEPT ![c] = to]
    BY DEF Call, Goto
  <2> QED BY <1>a, <2>1, <2>2, QuietProof DEF Call, ledger
<1>9. CASE Complete(c)
  <2> DEFINE id == IF executions[e].mode = "aws" THEN response[c] ELSE NoId
             row == [calls[e] EXCEPT !.state = "complete", !.finished = now, !.provider = id]
  <2>1. /\ executions[e].mode = "aws" => Stored(e, "before") /\ Stored(e, "after") /\ id # NoId
        /\ id # NoId => \A x \in Executions : calls[x].provider # id
    BY <1>9, <1>b DEF Complete, Completable, Audited, AfterCall
  <2>2. row.state = "complete" /\ row.provider = id /\ row.dispatched = calls[e].dispatched
    BY <1>a DEF CallRows
  <2>3. /\ pc' = [pc EXCEPT ![c] = "idle"]
        /\ receipt' = [receipt EXCEPT ![c] = NoReceipt]
        /\ calls' = [calls EXCEPT ![e] = row]
        /\ UNCHANGED <<executions, audits, req>>
    BY <1>9, <1>a DEF Complete, Return, EInv, IInv, TypeOK
  <2>4. Audited(c, "idle")
    BY DEF Audited, AfterCall
  <2> HIDE DEF row, id
  <2> QED BY <1>c, <1>f, <2>1, <2>2, <2>3, <2>4, CallProof
<1>10. CASE Fail(c)
  <2>1. InFlight(c) /\ Audited(c, "idle")
    BY <1>10 DEF Fail, InFlight, Audited, AfterCall
  <2>2. /\ pc' = [pc EXCEPT ![c] = "idle"]
        /\ receipt' = [receipt EXCEPT ![c] = NoReceipt]
        /\ UNCHANGED <<executions, audits, req>>
    BY <1>10 DEF Fail, Return
  <2>3. CASE Finishable(e)
    <3> DEFINE row == [calls[e] EXCEPT !.state = "error", !.finished = now]
    <3>1. row.state = "error" /\ row.provider = calls[e].provider /\ row.dispatched = calls[e].dispatched
      BY <1>a DEF CallRows
    <3>2. calls' = [calls EXCEPT ![e] = row]
      BY <1>10, <1>a, <2>3 DEF Fail, Failed, EInv, IInv, TypeOK
    <3> HIDE DEF row
    <3> QED BY <1>c, <1>e, <1>f, <2>1, <2>2, <3>1, <3>2, CallProof
  <2>4. CASE ~Finishable(e)
    BY <1>10, <2>1, <2>2, <2>4, QuietProof DEF Fail
  <2> QED BY <2>3, <2>4
<1> QED BY <1>2, <1>3, <1>4, <1>5, <1>6, <1>7, <1>8, <1>9, <1>10 DEF Step, Audit

LEMMA OutsideProof ==
  ASSUME EInv,
         \/ \E e \in Executions : \/ \E mode \in {"aws", "contract"} : Register(e, mode)
                                  \/ Close(e)
         \/ \E c \in Callers, e \in Executions : Authorize(c, e)
         \/ Crash \/ Tick \/ ChangeResource
  PROVE  ProofInv'
<1> USE DEF EInv, IInv, ProofInv
<1>1. CASE \E e \in Executions : \E mode \in {"aws", "contract"} : Register(e, mode)
  <2> PICK e \in Executions, mode \in {"aws", "contract"} : Register(e, mode)  BY <1>1
  <2>1. /\ calls[e].state = "none" /\ ~Registered(e)
        /\ UNCHANGED <<calls, audits, pc, req, receipt>>
    BY DEF Register, OwnInv, RowsAgree, coordinators
  <2>2. \A x \in Executions : x # e => executions'[x] = executions[x]
    BY DEF Register, TypeOK
  <2>3. \A c \in Callers : req[c] = e => ~InFlight(c)
    BY <2>1 DEF OwnInv, Owned
  <2>4. IdsDistinct' /\ HeldHasId'
    BY <2>1 DEF IdsDistinct, HeldHasId
  <2>5. StoredIsProof' /\ CompleteAudited'
    BY <2>1, <2>2 DEF StoredIsProof, CompleteAudited, Stored
  <2>6. AuditedSoFar'
    <3>1. \A c \in Callers : req[c] \in Executions
      BY DEF TypeOK
    <3> QED BY <2>1, <2>2, <2>3, <3>1 DEF AuditedSoFar, Audited, Stored, InFlight, AfterCall
  <2> QED BY <2>4, <2>5, <2>6
<1>2. CASE \E e \in Executions : Close(e)
  <2> PICK e \in Executions : Close(e)  BY <1>2
  <2>1. UNCHANGED <<calls, audits, pc, req, receipt>>
    BY DEF Close, coordinators
  <2>2. \A x \in Executions : /\ executions'[x].mode = executions[x].mode
                              /\ executions'[x].digest = executions[x].digest
    BY DEF Close, TypeOK, ExecutionRows
  <2>3. \A c \in Callers : req[c] \in Executions
    BY DEF TypeOK
  <2> QED BY <2>1, <2>2, <2>3 DEF IdsDistinct, StoredIsProof, HeldHasId, AuditedSoFar, Audited,
          CompleteAudited, Stored
<1>3. CASE \E c \in Callers, e \in Executions : Authorize(c, e)
  <2> PICK c \in Callers, e \in Executions : Authorize(c, e)  BY <1>3
  <2>1. /\ \A d \in Callers : /\ pc'[d] = IF d = c THEN "authorized" ELSE pc[d]
                              /\ d # c => req'[d] = req[d]
        /\ UNCHANGED <<executions, calls, audits, receipt>>
    BY DEF Authorize, Goto, TypeOK, ledger
  <2> QED BY <2>1 DEF IdsDistinct, StoredIsProof, HeldHasId, AuditedSoFar, Audited,
          CompleteAudited, Stored, AfterCall
<1>4. CASE Crash \/ Tick \/ ChangeResource
  BY <1>4 DEF Crash, Tick, ChangeResource, ledger, coordinators, IdsDistinct, StoredIsProof,
     HeldHasId, AuditedSoFar, Audited, CompleteAudited, Stored, AfterCall
<1> QED BY <1>1, <1>2, <1>3, <1>4

LEMMA NextProof == EInv /\ [Next]_vars => EInv'
<1> SUFFICES ASSUME EInv, [Next]_vars PROVE EInv'  OBVIOUS
<1>1. IInv'
  BY NextInv DEF EInv
<1>2. CASE UNCHANGED vars
  BY <1>1, <1>2 DEF vars, EInv, ProofInv, IdsDistinct, StoredIsProof, HeldHasId, AuditedSoFar,
     Audited, CompleteAudited, Stored
<1>3. CASE Next
  BY <1>1, <1>3, OutsideProof, StepProof DEF Next, EInv
<1> QED BY <1>2, <1>3

\* A complete AWS call carries its proof, even under a clock that steps back.
THEOREM CompleteIsProvenAlways == Spec => []CompleteIsProven
<1>1. EInv => CompleteIsProven
  <2> SUFFICES ASSUME EInv, NEW e \in Executions, calls[e].state = "complete"
               PROVE  /\ served[e] = 1
                      /\ executions[e].mode = "aws" =>
                           /\ \A p \in Phases : /\ audits[e][p].digest = executions[e].digest
                                                /\ audits[e][p].id # NoId
                           /\ audits[e]["after"].started >= calls[e].dispatched
                           /\ calls[e].provider # NoId
                           /\ \A x \in Executions \ {e} :
                                /\ calls[x].provider # calls[e].provider
                                /\ \A p, q \in Phases : audits[x][p].id # audits[e][q].id
                           /\ audits[e]["before"].id # audits[e]["after"].id
    BY DEF CompleteIsProven
  <2>1. served[e] = 1
    BY DEF EInv, IInv, OwnInv, RowsAgree
  <2>2. ASSUME executions[e].mode = "aws"
        PROVE  /\ \A p \in Phases : Stored(e, p)
               /\ calls[e].provider # NoId
    BY <2>2 DEF EInv, ProofInv, CompleteAudited, Phases
  <2>3. ASSUME executions[e].mode = "aws"
        PROVE  /\ \A p \in Phases : /\ audits[e][p].digest = executions[e].digest
                                    /\ audits[e][p].id # NoId
               /\ calls[e].dispatched <= audits[e]["after"].started
    BY <2>2, <2>3 DEF EInv, ProofInv, StoredIsProof, Phases
  <2>4. audits[e]["after"].started \in Nat /\ calls[e].dispatched \in Nat
    BY WindowAssumption DEF EInv, IInv, TypeOK, Receipts, CallRows, Stamps, Phases
  <2> QED BY <2>1, <2>2, <2>3, <2>4 DEF EInv, ProofInv, IdsDistinct, Phases
<1> QED BY <1>1, InitProof, NextProof, PTL DEF Spec

-----------------------------------------------------------------------------
(* The order of the stamps, under a clock that does not step back. *)

LEMMA StampsAreNumbers ==
  ASSUME TypeOK
  PROVE  /\ now \in Nat
         /\ \A e \in Executions :
              /\ executions[e].started \in Nat /\ executions[e].closed \in Nat
              /\ calls[e].started \in Nat /\ calls[e].dispatched \in Nat
              /\ calls[e].finished \in Nat
              /\ \A p \in Phases : audits[e][p].started \in Nat /\ audits[e][p].observed \in Nat
         /\ \A c \in Callers : receipt[c].started \in Nat /\ receipt[c].observed \in Nat
  BY WindowAssumption DEF TypeOK, Times, Stamps, ExecutionRows, CallRows, Receipts

TInv == EInv /\ TimeInv

LEMMA InitTime == Init => TInv
<1> SUFFICES ASSUME Init PROVE TInv  OBVIOUS
<1>1. EInv /\ now \in Nat
  BY InitProof, StampsAreNumbers DEF EInv, IInv
<1> QED BY <1>1 DEF Init, TInv, TimeInv, RowsPast, HeldPast, RowsInOrder, Stored, NoReceipt, NoCall,
        NoExecution, Phases

\* A step that writes no row keeps the order if the receipt it leaves is in order.
LEMMA QuietTime ==
  ASSUME TInv, NEW c \in Callers, NEW to, NEW r,
         pc' = [pc EXCEPT ![c] = to], receipt' = [receipt EXCEPT ![c] = r],
         UNCHANGED <<now, executions, calls, audits>>,
         r.started <= now /\ r.observed <= now,
         to \in {"record_before", "record_after"} => r.started <= r.observed
  PROVE  TimeInv'
<1> USE DEF TInv, EInv, IInv, TimeInv
<1>1. \A d \in Callers : /\ pc'[d] = IF d = c THEN to ELSE pc[d]
                         /\ receipt'[d] = IF d = c THEN r ELSE receipt[d]
  BY DEF TypeOK
<1>2. RowsPast' /\ RowsInOrder'
  BY DEF RowsPast, RowsInOrder, Stored, Closed
<1>3. HeldPast'
  BY <1>1 DEF HeldPast
<1> QED BY <1>2, <1>3

\* A receipt a thread may hold.
ReceiptInTime(r) == r.started <= now /\ r.observed <= now

\* A row the call of an open execution may get.
RowInTime(e, row) ==
  /\ row.started <= now /\ row.dispatched <= now /\ row.finished <= now
  /\ executions[e].started <= row.started
  /\ \A p \in Phases : Stored(e, p) => row.started <= audits[e][p].started
  /\ Stored(e, "before") /\ row.dispatched # 0 => audits[e]["before"].observed <= row.dispatched
  /\ row.state = "complete" => audits[e]["after"].observed <= row.finished

\* A step that writes the row of one call of an open execution.
Writes(c, to, r, row) == /\ pc' = [pc EXCEPT ![c] = to]
                         /\ receipt' = [receipt EXCEPT ![c] = r]
                         /\ calls' = [calls EXCEPT ![req[c]] = row]
                         /\ UNCHANGED <<now, executions, audits>>

LEMMA CallTime ==
  ASSUME TInv, NEW c \in Callers, NEW to, NEW r, NEW row, Writes(c, to, r, row),
         ReceiptInTime(r),
         to \notin {"record_before", "record_after"},
         ~Closed(req[c]),
         RowInTime(req[c], row)
  PROVE  TimeInv'
<1> USE DEF TInv, EInv, IInv, TimeInv
<1>1. \A d \in Callers : /\ pc'[d] = IF d = c THEN to ELSE pc[d]
                         /\ receipt'[d] = IF d = c THEN r ELSE receipt[d]
  BY DEF TypeOK, Writes
<1>2. /\ req[c] \in Executions
      /\ \A e \in Executions : calls'[e] = IF e = req[c] THEN row ELSE calls[e]
  BY DEF TypeOK, Writes
<1>3. RowsPast'
  BY <1>2 DEF Writes, RowsPast, RowInTime
<1>4. RowsInOrder'
  BY <1>2 DEF Writes, RowsInOrder, Stored, Closed, RowInTime
<1>5. HeldPast'
  BY <1>1 DEF Writes, HeldPast, ReceiptInTime
<1> QED BY <1>3, <1>4, <1>5

\* A recorded audit is younger than the reservation, and a first one is stored
\* before the dispatch.
LEMMA AuditTime ==
  ASSUME TInv, NEW c \in Callers, NEW p \in Phases, RecordAudit(c, p)
  PROVE  TimeInv'
<1> USE DEF TInv, EInv, IInv, TimeInv
<1> DEFINE e == req[c]
<1>1. \A d \in Callers : /\ pc'[d] = IF d = c THEN (IF p = "before" THEN "dispatching" ELSE "finishing")
                                              ELSE pc[d]
                         /\ receipt'[d] = IF d = c THEN NoReceipt ELSE receipt[d]
  BY DEF TypeOK, RecordAudit, Goto
<1>2. /\ e \in Executions /\ UNCHANGED <<now, executions, calls>>
      /\ \A x \in Executions, q \in Phases :
           audits'[x][q] = IF x = e /\ q = p THEN receipt[c] ELSE audits[x][q]
  BY DEF TypeOK, RecordAudit
<1>3. /\ receipt[c].started <= receipt[c].observed /\ receipt[c].observed <= now
      /\ receipt[c].started <= now
  BY DEF RecordAudit, RecordPc, HeldPast
<1>4. /\ calls[e].state = "pending" /\ calls[e].started <= receipt[c].started
      /\ p = "before" => calls[e].dispatched = 0
  BY DEF RecordAudit, AuditAdmissible, Pending
<1>5. RowsPast'
  BY <1>2, <1>3 DEF RowsPast
<1>6. HeldPast'
  BY <1>1, <1>2, StampsAreNumbers DEF HeldPast, NoReceipt
<1>7. RowsInOrder'
  BY <1>2, <1>3, <1>4 DEF RowsInOrder, Stored, Closed, Phases
<1> QED BY <1>5, <1>6, <1>7

LEMMA StepTime ==
  ASSUME TInv, NEW c \in Callers, Step(c)
  PROVE  TimeInv'
<1> DEFINE e == req[c]
<1>a. /\ e \in Executions /\ calls[e] \in CallRows /\ now \in Nat /\ now # 0
      /\ receipt[c] \in Receipts /\ receipt = [receipt EXCEPT ![c] = receipt[c]]
  BY StampsAreNumbers DEF TInv, EInv, IInv, TypeOK, Times
<1>b. /\ receipt[c].started <= now /\ receipt[c].observed <= now
      /\ NoReceipt.started <= now /\ NoReceipt.observed <= now
      /\ ReceiptInTime(receipt[c]) /\ ReceiptInTime(NoReceipt)
  BY <1>a DEF TInv, TimeInv, HeldPast, NoReceipt, ReceiptInTime
<1>c. InFlight(c) => /\ calls[e].state = "pending" /\ ~Closed(e)
                     /\ executions[e].started <= calls[e].started
                     /\ \A p \in Phases : Stored(e, p) => calls[e].started <= audits[e][p].started
  BY <1>a DEF TInv, EInv, IInv, OwnInv, Owned, TimeInv, RowsInOrder
<1>d. /\ calls[e].started <= now /\ calls[e].dispatched <= now /\ calls[e].finished <= now
      /\ \A p \in Phases : audits[e][p].observed <= now
      /\ "before" \in Phases /\ "after" \in Phases
  BY <1>a DEF TInv, TimeInv, RowsPast, Phases
<1>e. Stored(e, "before") /\ calls[e].dispatched # 0 =>
        audits[e]["before"].observed <= calls[e].dispatched
  BY <1>a DEF TInv, TimeInv, RowsInOrder
<1>1. ASSUME NEW from, NEW to, Skip(c, from, to), to \notin {"record_before", "record_after"}
      PROVE  TimeInv'
  BY <1>1, <1>a, <1>b, QuietTime DEF Skip, Goto, ledger
<1>2. CASE Reserve(c)
  <2> DEFINE row == [NoCall EXCEPT !.state = "pending", !.started = now]
  <2>1. row.state = "pending" /\ row.started = now /\ row.dispatched = 0 /\ row.finished = 0
    BY DEF NoCall
  <2>2. ~Closed(e) /\ calls[e].state = "none" /\ executions[e].started <= now
    BY <1>2, <1>a, StampsAreNumbers DEF Reserve, Reservable, Live, TInv, EInv, IInv
  <2>3. \A p \in Phases : ~Stored(e, p)
    BY <1>a, <2>2 DEF TInv, EInv, ProofInv, StoredIsProof
  <2>4. Writes(c, "reserved", receipt[c], row)
    BY <1>2, <1>a DEF Reserve, Goto, Writes
  <2>5. RowInTime(e, row)
    BY <1>a, <1>d, <2>1, <2>2, <2>3 DEF RowInTime
  <2> HIDE DEF row
  <2> QED BY <1>b, <2>2, <2>4, <2>5, CallTime
<1>3. CASE ReserveRefused(c) \/ CheckBefore(c) \/ CheckAfter(c) \/ Raise(c) \/ DispatchRefused(c)
           \/ CompleteRefused(c) \/ \E p \in Phases : AuditRefused(c, p)
  BY <1>1, <1>3 DEF ReserveRefused, CheckBefore, CheckAfter, CheckResource, Raise,
     DispatchRefused, CompleteRefused, AuditRefused
<1>4. CASE \E p \in Phases : StartAudit(c, p)
  <2> PICK p \in Phases : StartAudit(c, p)  BY <1>4
  <2> DEFINE r == [NoReceipt EXCEPT !.started = now, !.digest = resource]
  <2>1. r.started <= now /\ r.observed <= now
    BY <1>a DEF NoReceipt
  <2>2. ObservePc(p) \notin {"record_before", "record_after"}
    BY DEF ObservePc
  <2> QED BY <2>1, <2>2, QuietTime DEF StartAudit, Goto, ledger
<1>5. CASE \E p \in Phases, id \in RequestIds : ObserveAudit(c, p, id)
  <2> PICK p \in Phases, id \in RequestIds : ObserveAudit(c, p, id)  BY <1>5
  <2> DEFINE r == [receipt[c] EXCEPT !.observed = now, !.id = id]
  <2>1. receipt' = [receipt EXCEPT ![c] = r] /\ r.started <= now /\ r.observed = now
    BY <1>a, <1>b DEF ObserveAudit, Receipts
  <2>2. r.observed <= now /\ r.started <= r.observed
    <3> HIDE DEF r
    <3> QED BY <1>a, <2>1
  <2> HIDE DEF r
  <2> QED BY <2>1, <2>2, QuietTime DEF ObserveAudit, Goto, ledger
<1>6. CASE \E p \in Phases : RecordAudit(c, p)
  BY <1>6, AuditTime
<1>7. CASE Dispatch(c)
  <2> DEFINE row == [calls[e] EXCEPT !.dispatched = now]
  <2>1. InFlight(c)
    BY <1>7 DEF Dispatch, InFlight
  <2>2. /\ row.state = "pending" /\ row.started = calls[e].started
        /\ row.dispatched = now /\ row.finished = calls[e].finished
    BY <2>1, <1>a, <1>c DEF CallRows
  <2>3. Writes(c, "calling", receipt[c], row)
    BY <1>7, <1>a DEF Dispatch, Dispatched, Goto, Writes, TInv, EInv, IInv, TypeOK
  <2>4. RowInTime(e, row)
    BY <1>a, <1>c, <1>d, <2>1, <2>2 DEF RowInTime
  <2> HIDE DEF row
  <2> QED BY <1>b, <1>c, <2>1, <2>3, <2>4, CallTime
<1>8. CASE \E id \in RequestIds \cup {NoId} : Call(c, id)
  <2> PICK id \in RequestIds \cup {NoId} : Call(c, id)  BY <1>8
  <2>1. PICK to \in {"returned", "failing"} : pc' = [pc EXCEPT ![c] = to]
    BY DEF Call, Goto
  <2> QED BY <1>a, <1>b, <2>1, QuietTime DEF Call, ledger
<1>9. CASE Complete(c)
  <2> DEFINE id == IF executions[e].mode = "aws" THEN response[c] ELSE NoId
             row == [calls[e] EXCEPT !.state = "complete", !.finished = now, !.provider = id]
  <2>1. InFlight(c)
    BY <1>9 DEF Complete, InFlight
  <2>2. /\ row.started = calls[e].started /\ row.dispatched = calls[e].dispatched
        /\ row.finished = now
    BY <1>a DEF CallRows
  <2>3. Writes(c, "idle", NoReceipt, row)
    BY <1>9, <1>a DEF Complete, Return, Writes, TInv, EInv, IInv, TypeOK
  <2>4. RowInTime(e, row)
    BY <1>a, <1>c, <1>d, <1>e, <2>1, <2>2 DEF RowInTime
  <2> HIDE DEF row, id
  <2> QED BY <1>b, <1>c, <2>1, <2>3, <2>4, CallTime
<1>10. CASE Fail(c)
  <2>1. InFlight(c)
    BY <1>10 DEF Fail, InFlight
  <2>2. /\ pc' = [pc EXCEPT ![c] = "idle"]
        /\ receipt' = [receipt EXCEPT ![c] = NoReceipt]
        /\ UNCHANGED <<now, executions, audits>>
    BY <1>10 DEF Fail, Return
  <2>3. CASE Finishable(e)
    <3> DEFINE row == [calls[e] EXCEPT !.state = "error", !.finished = now]
    <3>1. /\ row.state = "error" /\ row.started = calls[e].started
          /\ row.dispatched = calls[e].dispatched /\ row.finished = now
      BY <1>a DEF CallRows
    <3>2. Writes(c, "idle", NoReceipt, row)
      BY <1>10, <1>a, <2>2, <2>3 DEF Fail, Failed, Writes, TInv, EInv, IInv, TypeOK
    <3>3. RowInTime(e, row)
      BY <1>a, <1>c, <1>d, <1>e, <2>1, <3>1 DEF RowInTime
    <3> HIDE DEF row
    <3> QED BY <1>b, <1>c, <2>1, <3>2, <3>3, CallTime
  <2>4. CASE ~Finishable(e)
    BY <1>10, <1>b, <2>2, <2>4, QuietTime DEF Fail
  <2> QED BY <2>3, <2>4
<1> QED BY <1>2, <1>3, <1>4, <1>5, <1>6, <1>7, <1>8, <1>9, <1>10 DEF Step, Audit

LEMMA OutsideTime ==
  ASSUME Monotone = TRUE, TInv,
         \/ \E e \in Executions : \/ \E mode \in {"aws", "contract"} : Register(e, mode)
                                  \/ Close(e)
         \/ \E c \in Callers, e \in Executions : Authorize(c, e)
         \/ Crash \/ Tick \/ ChangeResource
  PROVE  TimeInv'
<1> USE DEF TInv, EInv, IInv, TimeInv
<1>a. now \in Nat
  BY StampsAreNumbers
<1>1. CASE \E e \in Executions : \E mode \in {"aws", "contract"} : Register(e, mode)
  <2> PICK e \in Executions, mode \in {"aws", "contract"} : Register(e, mode)  BY <1>1
  <2>1. /\ calls[e].state = "none"
        /\ UNCHANGED <<now, calls, audits, pc, receipt>>
    BY DEF Register, OwnInv, RowsAgree, coordinators
  <2>2. \A x \in Executions :
          /\ executions'[x].started = IF x = e THEN now ELSE executions[x].started
          /\ executions'[x].closed = IF x = e THEN 0 ELSE executions[x].closed
    BY DEF Register, TypeOK
  <2>3. RowsPast'
    BY <1>a, <2>1, <2>2 DEF RowsPast
  <2>4. HeldPast'
    BY <2>1 DEF HeldPast
  <2>5. RowsInOrder'
    BY <2>1, <2>2 DEF RowsInOrder, Stored, Closed
  <2> QED BY <2>3, <2>4, <2>5
<1>2. CASE \E e \in Executions : Close(e)
  <2> PICK e \in Executions : Close(e)  BY <1>2
  <2>1. /\ UNCHANGED <<now, calls, audits, pc, receipt>>
        /\ calls[e].state = "complete" => calls[e].finished <= now
    BY <1>a, StampsAreNumbers DEF Close, Settled, coordinators
  <2>2. \A x \in Executions :
          /\ executions'[x].started = executions[x].started
          /\ executions'[x].closed = IF x = e THEN now ELSE executions[x].closed
    BY DEF Close, TypeOK, ExecutionRows
  <2>3. RowsPast'
    BY <1>a, <2>1, <2>2 DEF RowsPast
  <2>4. HeldPast'
    BY <2>1 DEF HeldPast
  <2>5. RowsInOrder'
    BY <2>1, <2>2 DEF RowsInOrder, Stored, Closed
  <2> QED BY <2>3, <2>4, <2>5
<1>3. CASE \E c \in Callers, e \in Executions : Authorize(c, e)
  <2> PICK c \in Callers, e \in Executions : Authorize(c, e)  BY <1>3
  <2>1. /\ \A d \in Callers : pc'[d] = IF d = c THEN "authorized" ELSE pc[d]
        /\ UNCHANGED <<now, executions, calls, audits, receipt>>
    BY DEF Authorize, Goto, TypeOK, ledger
  <2> QED BY <2>1 DEF RowsPast, HeldPast, RowsInOrder, Stored, Closed
<1>4. CASE Crash
  BY <1>4, <1>a DEF Crash, ledger, RowsPast, HeldPast, RowsInOrder, Stored, Closed, NoReceipt
<1>5. CASE Tick
  <2>1. /\ UNCHANGED <<executions, calls, audits, pc, receipt>>
        /\ now' \in Nat /\ now' >= now
    BY <1>5, WindowAssumption DEF Tick, Times, ledger, coordinators
  <2>2. \A n \in Nat : n <= now => n <= now'
    BY <1>a, <2>1
  <2>3. RowsPast' /\ HeldPast'
    BY <2>1, <2>2, StampsAreNumbers DEF RowsPast, HeldPast
  <2>4. RowsInOrder'
    BY <2>1 DEF RowsInOrder, Stored, Closed
  <2> QED BY <2>3, <2>4
<1>6. CASE ChangeResource
  BY <1>6 DEF ChangeResource, ledger, coordinators, RowsPast, HeldPast, RowsInOrder, Stored, Closed
<1> QED BY <1>1, <1>2, <1>3, <1>4, <1>5, <1>6

LEMMA NextTime == Monotone = TRUE /\ TInv /\ [Next]_vars => TInv'
<1> SUFFICES ASSUME Monotone = TRUE, TInv, [Next]_vars PROVE TInv'  OBVIOUS
<1>1. EInv'
  BY NextProof DEF TInv
<1>2. CASE UNCHANGED vars
  BY <1>1, <1>2 DEF vars, TInv, TimeInv, RowsPast, HeldPast, RowsInOrder, Stored, Closed
<1>3. CASE Next
  BY <1>1, <1>3, OutsideTime, StepTime DEF Next, TInv
<1> QED BY <1>2, <1>3

\* A complete AWS call is proven, and its stamps tell its story in order.
THEOREM EvidenceHoldsAlways ==
  ASSUME Monotone = TRUE
  PROVE  Spec => []EvidenceHolds
<1>1. TInv => EvidenceInOrder
  <2> SUFFICES ASSUME TInv, NEW e \in Executions,
                      calls[e].state = "complete", executions[e].mode = "aws"
               PROVE  LET b == audits[e]["before"]  a == audits[e]["after"]  k == calls[e] IN
                      /\ executions[e].started <= k.started /\ k.started <= b.started
                      /\ b.started <= b.observed /\ b.observed <= k.dispatched
                      /\ k.dispatched <= a.started /\ a.started <= a.observed
                      /\ a.observed <= k.finished
                      /\ Closed(e) => k.finished <= executions[e].closed
    BY DEF EvidenceInOrder
  <2>1. Stored(e, "before") /\ Stored(e, "after")
    BY DEF TInv, EInv, ProofInv, CompleteAudited
  <2>2. "before" \in Phases /\ "after" \in Phases
    BY DEF Phases
  <2>3. calls[e].dispatched # 0 /\ calls[e].dispatched <= audits[e]["after"].started
    BY <2>1, <2>2 DEF TInv, EInv, ProofInv, StoredIsProof
  <2> QED BY <2>1, <2>2, <2>3 DEF TInv, TimeInv, RowsInOrder
<1>2. Spec => []TInv
  BY InitTime, NextTime, PTL DEF Spec
<1>3. Spec => []EvidenceInOrder
  BY <1>1, <1>2, PTL
<1> QED BY <1>3, CompleteIsProvenAlways, PTL DEF EvidenceHolds
=============================================================================

----------------------------- MODULE OneShotCall -----------------------------
(***************************************************************************)
(* What an execution ledger promises of each execution: after it is        *)
(* registered at most one call is reserved for it, marked as dispatched    *)
(* before the provider sees it, seen by the provider at most once, settled *)
(* at most once, and never touched again when the execution is closed.     *)
(***************************************************************************)
EXTENDS Integers

CONSTANT Executions

VARIABLES status,  \* how far the call of each execution got
          closed,  \* the executions that are closed
          served   \* how often the provider was asked for each execution

vars == <<status, closed, served>>

Statuses == {"absent", "open", "reserved", "dispatched", "complete", "error"}

Init == /\ status = [e \in Executions |-> "absent"]
        /\ closed = {}
        /\ served = [e \in Executions |-> 0]

Move(e, from, to) == /\ status[e] = from
                     /\ e \notin closed
                     /\ status' = [status EXCEPT ![e] = to]
                     /\ UNCHANGED <<closed, served>>

Register(e) == Move(e, "absent", "open")
Reserve(e)  == Move(e, "open", "reserved")
Dispatch(e) == Move(e, "reserved", "dispatched")
Complete(e) == served[e] = 1 /\ Move(e, "dispatched", "complete")
Fail(e)     == Move(e, "reserved", "error") \/ Move(e, "dispatched", "error")

\* The provider may be asked only for a dispatched, unsettled call, and once.
Serve(e) == /\ status[e] = "dispatched"
            /\ e \notin closed
            /\ served[e] = 0
            /\ served' = [served EXCEPT ![e] = 1]
            /\ UNCHANGED <<status, closed>>

Close(e) == /\ status[e] \in {"open", "complete", "error"}
            /\ e \notin closed
            /\ closed' = closed \cup {e}
            /\ UNCHANGED <<status, served>>

Next == \E e \in Executions : \/ Register(e) \/ Reserve(e) \/ Dispatch(e) \/ Serve(e)
                              \/ Complete(e) \/ Fail(e) \/ Close(e)

Spec == Init /\ [][Next]_vars
=============================================================================

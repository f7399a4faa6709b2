------------------------------ MODULE BudgetLedger ------------------------------
(***************************************************************************)
(* The hourly output-token budget of the P01 gateway                       *)
(* (guided-labs/h01-bedrock-gateway/server.py, class BudgetLedger), for    *)
(* one client.  Its row is started anew by the first reservation of an     *)
(* hour; what was reserved in an earlier hour is settled or cancelled on   *)
(* whatever row there is then.  The gateway's calls run in threads: one    *)
(* call reserves, calls the model, and settles or cancels.                 *)
(***************************************************************************)
EXTENDS Integers, FiniteSetsExt

CONSTANTS Reservations, Limit, MaxRequest, MaxWindow

VARIABLES now,           \* the hour, time.time() // 3600 * 3600
          budget,        \* the client's row of table budgets
          reservations   \* table reservations, with the window it was reserved in (history)

vars == <<now, budget, reservations>>

NoRow == [window |-> 0, used |-> 0, reserved |-> 0]
Absent == [window |-> 0, tokens |-> 0, actual |-> 0, status |-> "absent"]

Init == /\ now = 1
        /\ budget = NoRow
        /\ reservations = [r \in Reservations |-> Absent]

\* The row a reservation is checked against.
Current == IF budget.window = now THEN budget ELSE [NoRow EXCEPT !.window = now]

Reserve(r, tokens) ==
  /\ reservations[r] = Absent
  /\ Current.used + Current.reserved + tokens <= Limit
  /\ budget' = [Current EXCEPT !.reserved = @ + tokens]
  /\ reservations' = [reservations EXCEPT ![r] =
       [window |-> now, tokens |-> tokens, actual |-> 0, status |-> "reserved"]]
  /\ UNCHANGED now

Settle(r, actual) ==
  /\ reservations[r].status = "reserved"
  /\ budget' = [budget EXCEPT !.reserved = @ - reservations[r].tokens, !.used = @ + actual]
  /\ reservations' = [reservations EXCEPT ![r].status = "settled", ![r].actual = actual]
  /\ UNCHANGED now

Cancel(r) ==
  /\ reservations[r].status = "reserved"
  /\ budget' = [budget EXCEPT !.reserved = @ - reservations[r].tokens]
  /\ reservations' = [reservations EXCEPT ![r].status = "cancelled"]
  /\ UNCHANGED now

Tick == now < MaxWindow /\ now' = now + 1 /\ UNCHANGED <<budget, reservations>>

Next == \/ \E r \in Reservations, n \in 1..MaxRequest: Reserve(r, n)
        \/ \E r \in Reservations: \E n \in 0..reservations[r].tokens: Settle(r, n)
        \/ \E r \in Reservations: Cancel(r)
        \/ Tick
Spec == Init /\ [][Next]_vars

window == [r \in Reservations |-> reservations[r].window]
charge == [r \in Reservations |-> CASE reservations[r].status = "reserved" -> reservations[r].tokens
                                    [] reservations[r].status = "settled" -> reservations[r].actual
                                    [] OTHER -> 0]
Budget == INSTANCE WindowBudget

\* "Atomic one-hour output-token reservations with actual-use settlement": what was
\* reserved in an hour never exceeds the hour's limit.  A reservation of an earlier
\* hour that ends now takes its tokens off this hour's row, which never held them.
HourIsCapped == \A w \in 1..MaxWindow: Budget!Charged(w) <= Limit
===============================================================================

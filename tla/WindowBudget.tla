----------------------------- MODULE WindowBudget -----------------------------
(***************************************************************************)
(* What an output-token budget promises: a reservation belongs to one      *)
(* window, is accepted only when everything charged to that window leaves  *)
(* room for it, and is never charged more than it reserved.                *)
(* OutputQuota implements it.  The hourly budget of the P01 gateway        *)
(* (BudgetLedger) says it does, and does not.                              *)
(***************************************************************************)
EXTENDS Integers, FiniteSetsExt

CONSTANTS Reservations, Limit

VARIABLES window,   \* per reservation: the window it was accepted in; 0: not accepted
          charge    \* per reservation: the tokens charged to that window

Charged(w) == MapThenSumSet(LAMBDA r: charge[r], {r \in Reservations: window[r] = w})

Init == window = [r \in Reservations |-> 0] /\ charge = [r \in Reservations |-> 0]

Accept(r) == /\ window[r] = 0
             /\ window'[r] # 0 /\ charge'[r] \in Nat
             /\ Charged(window'[r]) + charge'[r] <= Limit
             /\ window' = [window EXCEPT ![r] = window'[r]]
             /\ charge' = [charge EXCEPT ![r] = charge'[r]]

Settle(r) == /\ window[r] # 0
             /\ charge'[r] \in 0..charge[r]
             /\ charge' = [charge EXCEPT ![r] = charge'[r]]
             /\ UNCHANGED window

Next == \E r \in Reservations: Accept(r) \/ Settle(r)
Spec == Init /\ [][Next]_<<window, charge>>
===============================================================================

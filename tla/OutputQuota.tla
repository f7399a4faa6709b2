------------------------------ MODULE OutputQuota ------------------------------
(***************************************************************************)
(* Admission and output-token accounting of the Bedrock gateway            *)
(* (bedrock-gateway/gateway_operations.py, server.py), for the requests of *)
(* one credential: the statements select the rows of one principal.        *)
(*                                                                         *)
(* Requests run in threads.  A request reads the clock, opens a write      *)
(* transaction in which it counts what its window is charged and inserts   *)
(* its reservation, calls Bedrock, and settles.  A call whose usage is     *)
(* unknown, and one that was in progress when the process died, keep the   *)
(* whole reservation.                                                      *)
(***************************************************************************)
EXTENDS Integers, FiniteSets

CONSTANTS Threads,
          Reservations,   \* uuids, never twice
          NoReservation,
          Requests,       \* policy: requests per window
          Limit,          \* policy: output_tokens per window
          MaxRequest,     \* policy: max_output_tokens of a request
          MaxWindow       \* bound on the windows the clock reaches

ASSUME PolicyAssumption == {Requests, Limit, MaxRequest, MaxWindow} \subseteq Nat \ {0}
ASSUME SentinelAssumption == NoReservation \notin Reservations

VARIABLES now,          \* int(clock()) // window_seconds
          admissions,   \* table admissions
          pc,           \* per thread: its place in chat_completions
          job,          \* per thread: its window, max_tokens, reservation and the provider's usage
          spent         \* provider side: output tokens of each reservation's call

vars == <<now, admissions, pc, job, spent>>

Windows == 1..MaxWindow
Tokens == 0..MaxRequest + 1     \* a provider may exceed the ceiling it was given
Unset == -1
NoRow == [window |-> 0, reserved |-> 0, output |-> Unset, outcome |-> "absent"]
NewJob(w, n) == [window |-> w, tokens |-> n, reservation |-> NoReservation, usage |-> Unset]
NoJob == NewJob(0, 0)

Rows == [window: Windows, reserved: 1..MaxRequest, output: Tokens \cup {Unset},
         outcome: {"pending", "complete", "uncertain"}] \cup {NoRow}
Jobs == [window: Windows \cup {0}, tokens: 0..MaxRequest,
         reservation: Reservations \cup {NoReservation}, usage: Tokens \cup {Unset}]

\* What a row is charged: COALESCE(output_tokens, reserved).
Committed(row) == IF row.output = Unset THEN row.reserved ELSE row.output

window == [r \in Reservations |-> admissions[r].window]
charge == [r \in Reservations |-> Committed(admissions[r])]
Budget == INSTANCE WindowBudget

RowsOf(w) == {r \in Reservations: admissions[r].window = w}

Init == /\ now = 1
        /\ admissions = [r \in Reservations |-> NoRow]
        /\ pc = [t \in Threads |-> "idle"]
        /\ job = [t \in Threads |-> NoJob]
        /\ spent = [r \in Reservations |-> 0]

\* The request passed its own checks; _window is read before the transaction.
ReadWindow(t) ==
  /\ pc[t] = "idle"
  /\ \E n \in 1..MaxRequest: job' = [job EXCEPT ![t] = NewJob(now, n)]
  /\ pc' = [pc EXCEPT ![t] = "admit"]
  /\ UNCHANGED <<now, admissions, spent>>
\* Mutant of HasRoom: the transaction does not count reservations that are not settled.
HasRoomSettled(t) ==
  /\ Cardinality(RowsOf(job[t].window)) < Requests
  /\ \A r \in RowsOf(job[t].window): admissions[r].outcome = "complete" => admissions[r].output + job[t].tokens <= Limit
\* Mutant of HasRoom: the counter is compared with <= .
HasRoomOneMore(t) ==
  /\ Cardinality(RowsOf(job[t].window)) <= Requests
  /\ Budget!Charged(job[t].window) + job[t].tokens <= Limit

HasRoom(t) ==
  /\ Cardinality(RowsOf(job[t].window)) < Requests
  /\ Budget!Charged(job[t].window) + job[t].tokens <= Limit

\* Mutant of Admit: the reservation is not given to the request.
AdmitUnnamed(t, r) ==
  /\ pc[t] = "admit"
  /\ admissions[r] = NoRow
  /\ HasRoom(t)
  /\ admissions' = [admissions EXCEPT ![r] = [window |-> job[t].window, reserved |-> job[t].tokens,
                                              output |-> Unset, outcome |-> "pending"]]
  /\ pc' = [pc EXCEPT ![t] = "call"]
  /\ UNCHANGED <<now, job, spent>>

Admit(t, r) ==
  /\ pc[t] = "admit"
  /\ admissions[r] = NoRow
  /\ HasRoom(t)
  /\ admissions' = [admissions EXCEPT ![r] = [window |-> job[t].window, reserved |-> job[t].tokens,
                                              output |-> Unset, outcome |-> "pending"]]
  /\ job' = [job EXCEPT ![t].reservation = r]
  /\ pc' = [pc EXCEPT ![t] = "call"]
  /\ UNCHANGED <<now, spent>>

\* request-quota or output-token-quota.
Deny(t) ==
  /\ pc[t] = "admit"
  /\ ~HasRoom(t)
  /\ pc' = [pc EXCEPT ![t] = "idle"]
  /\ job' = [job EXCEPT ![t] = NoJob]
  /\ UNCHANGED <<now, admissions, spent>>

\* Bedrock answers with its usage; the answer may be lost, or say nothing of the usage.
Converse(t) == \E n \in Tokens, known \in BOOLEAN:
  /\ pc[t] = "call"
  /\ spent' = [spent EXCEPT ![job[t].reservation] = n]
  /\ job' = [job EXCEPT ![t].usage = IF known THEN n ELSE Unset]
  /\ pc' = [pc EXCEPT ![t] = IF known THEN "settle" ELSE "uncertain"]
  /\ UNCHANGED <<now, admissions>>

Settle(t) ==
  LET r == job[t].reservation
      accepted == admissions[r].outcome = "pending" /\ job[t].usage <= admissions[r].reserved
  IN /\ pc[t] = "settle"
     /\ IF accepted
          THEN /\ admissions' = [admissions EXCEPT ![r].output = job[t].usage, ![r].outcome = "complete"]
               /\ pc' = [pc EXCEPT ![t] = "idle"]
               /\ job' = [job EXCEPT ![t] = NoJob]
          ELSE pc' = [pc EXCEPT ![t] = "uncertain"] /\ UNCHANGED <<admissions, job>>
     /\ UNCHANGED <<now, spent>>
\* Mutant of Uncertain: an uncertain call gives its reservation back.
UncertainReturned(t) ==
  /\ pc[t] = "uncertain"
  /\ admissions' = [admissions EXCEPT ![job[t].reservation].outcome = "uncertain",
                                      ![job[t].reservation].output = 0]
  /\ pc' = [pc EXCEPT ![t] = "idle"]
  /\ job' = [job EXCEPT ![t] = NoJob]
  /\ UNCHANGED <<now, spent>>

Uncertain(t) ==
  /\ pc[t] = "uncertain"
  /\ admissions' = [r \in Reservations |->
       IF r = job[t].reservation /\ admissions[r].outcome = "pending"
         THEN [admissions[r] EXCEPT !.outcome = "uncertain"] ELSE admissions[r]]
  /\ pc' = [pc EXCEPT ![t] = "idle"]
  /\ job' = [job EXCEPT ![t] = NoJob]
  /\ UNCHANGED <<now, spent>>

\* The process dies and starts again: the rows stay as they were.
Crash ==
  /\ \E t \in Threads: pc[t] # "idle"
  /\ pc' = [t \in Threads |-> "idle"]
  /\ job' = [t \in Threads |-> NoJob]
  /\ UNCHANGED <<now, admissions, spent>>

\* The clock reaches another window, or is set back to an earlier one.
Tick == now' \in Windows \ {now} /\ UNCHANGED <<admissions, pc, job, spent>>

Step(t) == \/ ReadWindow(t) \/ Deny(t) \/ Converse(t) \/ Settle(t) \/ Uncertain(t)
           \/ \E r \in Reservations: Admit(t, r)
Next == (\E t \in Threads: Step(t)) \/ Crash \/ Tick
Spec == Init /\ [][Next]_vars

TypeOK == /\ now \in Windows
          /\ admissions \in [Reservations -> Rows]
          /\ pc \in [Threads -> {"idle", "admit", "call", "settle", "uncertain"}]
          /\ job \in [Threads -> Jobs]
          /\ spent \in [Reservations -> Tokens]
          /\ \A t \in Threads: pc[t] \in {"call", "settle", "uncertain"} => job[t].reservation \in Reservations

\* No window admits more requests than the policy allows, however the
\* threads that counted them interleave, and whatever clock they read.
RequestsAreCapped == \A w \in Windows: Cardinality(RowsOf(w)) <= Requests

\* What Bedrock produced for a reservation is charged to it, also after a lost
\* answer or a crash, unless Bedrock exceeded the ceiling it was given; then the
\* whole reservation stays charged.
UseIsCharged == \A r \in Reservations: spent[r] <= Committed(admissions[r])
                                       \/ /\ spent[r] > admissions[r].reserved
                                          /\ admissions[r].output = Unset

\* Every step is one the abstract budget allows: no window is charged past its limit.
BudgetSpec == Budget!Spec
===============================================================================

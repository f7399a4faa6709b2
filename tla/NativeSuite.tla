----------------------------- MODULE NativeSuite ------------------------------
(***************************************************************************)
(* Verifications of missions P02 and P03: the control center, the runner   *)
(* of the learner's function (h02-document-ingestion,                      *)
(* h03-ingestion-search), the gateway's record of each execution, and the  *)
(* verifier (p02_verification.py, p03_suite_verification.py).  The         *)
(* function calls AWS itself through clients that are observed; its runner *)
(* tells the gateway afterwards.  So a call may have happened that no one  *)
(* ever reports, and the records are made of what the runner says.         *)
(*                                                                         *)
(* The function is any: it stops after any of the two calls the observed   *)
(* clients admit, in their order, and answers as it likes.  The runner's   *)
(* image keeps its source for its whole life.                              *)
(***************************************************************************)
EXTENDS Integers, Sequences

CONSTANTS Suites, NoSuite,
          Practice,  \* "P02" or "P03": they differ in a preparation and in a refused report
          Want       \* per case: how many calls its contract asks for

VARIABLES wire,      \* suites whose /v1/run is on its way
          receipt,   \* runner: table p02_runs or p03_runs (on tmpfs), by suite
          work,      \* runner: the case under way, of the suite that holds the lock
          record,    \* gateway: the execution of each case
          effects,   \* AWS: how many of its calls happened
          center,    \* control center, by suite
          checking   \* verifier: the suite that holds P02_LOCK or P03_LOCK

runner == <<wire, receipt, work>>
vars == <<runner, record, effects, center, checking>>

Cases == 1..Len(Want)
Calls == 2   \* store_source and embed; job_status and retrieve
Lost == 3    \* calls of a worker that did not live to report them

Absent == [state |-> "absent", rows |-> <<>>]
NoRecord == [state |-> "none", calls |-> 0, bad |-> "no"]
Idle == [suite |-> NoSuite, at |-> "free"]

Init == /\ wire = {}
        /\ receipt = [s \in Suites |-> Absent]
        /\ work = Idle
        /\ record = [s \in Suites |-> [c \in Cases |-> NoRecord]]
        /\ effects = [s \in Suites |-> [c \in Cases |-> 0]]
        /\ center = [s \in Suites |-> "new"]
        /\ checking = NoSuite

(* The control center. *)
Center(s, place) == center' = [center EXCEPT ![s] = place]

Ask == \E s \in Suites:
  /\ center[s] = "new"
  /\ Center(s, "sent") /\ wire' = wire \cup {s}
  /\ UNCHANGED <<receipt, work, record, effects, checking>>

\* After 210 seconds, or without a connection; the runner goes on with what it was asked.
GiveUp == \E s \in Suites:
  /\ center[s] \in {"sent", "verify"}
  /\ Center(s, "ERR")
  /\ UNCHANGED <<runner, record, effects, checking>>

Told(s, place) == center' = IF center[s] = "sent" THEN [center EXCEPT ![s] = place] ELSE center

(* The runner: a suite. *)
Busy == \E s \in wire:
  /\ work # Idle
  /\ wire' = wire \ {s}
  /\ Told(s, "ERR")
  /\ UNCHANGED <<receipt, work, record, effects, checking>>

Row(s, at) == [suite |-> s, at |-> at, case |-> 1, made |-> 0, failed |-> FALSE, status |-> "none",
               sent |-> 0, life |-> TRUE, closing |-> TRUE]

\* P03 has its suite prepared at the gateway first.
Run == \E s \in wire:
  /\ work = Idle
  /\ wire' = wire \ {s}
  /\ receipt' = [receipt EXCEPT ![s].state = "running"]
  /\ work' = Row(s, IF Practice = "P03" THEN "prepare" ELSE "next")
  /\ UNCHANGED <<record, effects, center, checking>>

Prepare == /\ work.at = "prepare"
           /\ work' = [work EXCEPT !.at = "next"]
           /\ UNCHANGED <<wire, receipt, record, effects, center, checking>>

Finish(state) == LET s == work.suite IN
  /\ receipt' = [receipt EXCEPT ![s].state = state]
  /\ work' = Idle
  /\ Told(s, "verify")
  /\ UNCHANGED <<wire, record, effects, checking>>

\* The preparation failed, or the 180 seconds are over.
Break == work.at \in {"prepare", "next"} /\ Finish("error")
Finished == work.at = "next" /\ Len(receipt[work.suite].rows) = Len(Want) /\ Finish("finished")

\* A learner's own question takes the lock for one execution of another suite.
Direct == /\ work = Idle
          /\ work' = [Idle EXCEPT !.at = "direct"]
          /\ UNCHANGED <<wire, receipt, record, effects, center, checking>>
DirectEnds == /\ work.at = "direct"
              /\ work' = Idle
              /\ UNCHANGED <<wire, receipt, record, effects, center, checking>>

\* The container is replaced or dies: its receipts were on tmpfs, its worker dies with it.
Restart == /\ \E s \in Suites: receipt[s] # Absent
           /\ wire' = {} /\ receipt' = [s \in Suites |-> Absent] /\ work' = Idle
           /\ center' = [s \in Suites |-> IF center[s] = "sent" THEN "ERR" ELSE center[s]]
           /\ UNCHANGED <<record, effects, checking>>

(* The runner: one case (Workflow.run_case). *)
case == work.case
Step(at) == work' = [work EXCEPT !.at = at]
Failed(at) == work' = [work EXCEPT !.at = at, !.life = FALSE, !.failed = FALSE, !.sent = 0]
Mine(place) == work.at = place
Recorded(r) == record' = [record EXCEPT ![work.suite][case] = r]

Next1 == Len(receipt[work.suite].rows) + 1
Begin == /\ Mine("next") /\ Next1 \in Cases
         /\ work' = [Row(work.suite, "register") EXCEPT !.case = Next1]
         /\ UNCHANGED <<wire, receipt, record, effects, center, checking>>

\* POST /executions: granted; granted but the answer is lost; refused with 409.
Register == /\ Mine("register")
            /\ \/ Recorded([NoRecord EXCEPT !.state = "open"]) /\ (Step("start") \/ Failed("close"))
               \/ record' = record /\ work' = [work EXCEPT !.at = "save", !.life = FALSE, !.closing = FALSE]
            /\ UNCHANGED <<wire, receipt, effects, center, checking>>

\* The first client the function creates fetches credentials: they are issued once, so an
\* answer that is lost leaves the function without.
Authenticate == /\ Mine("start")
                /\ Step("work") \/ work' = [work EXCEPT !.at = "report", !.status = "wrong"]
                /\ UNCHANGED <<wire, receipt, record, effects, center, checking>>

Admitted == work.made < Calls /\ ~work.failed

\* NativeSDK.invoke admits the two calls in their order, each after a complete one; AWS may
\* perform a call whose answer is lost, and botocore does not try it again.
Call == /\ Mine("work")
        /\ Admitted
        /\ \E lost \in BOOLEAN, happens \in BOOLEAN:
             /\ ~lost => happens
             /\ effects' = [effects EXCEPT ![work.suite][case] = IF happens THEN @ + 1 ELSE @]
             /\ work' = [work EXCEPT !.made = IF lost THEN @ ELSE @ + 1, !.failed = lost]
        /\ UNCHANGED <<wire, receipt, record, center, checking>>

\* The function ends: "right" is the status the contract wants of this case.
Return == /\ Mine("start") \/ Mine("work")
          /\ \E status \in {"right", "wrong"}:
               /\ work.failed => status = "wrong"
               /\ work' = [work EXCEPT !.at = "report", !.status = status]
          /\ UNCHANGED <<wire, receipt, record, effects, center, checking>>

\* The worker takes longer than 75 seconds, or dies: its group is killed, its calls are unknown.
Kill == /\ Mine("start") \/ Mine("work")
        /\ work' = [work EXCEPT !.at = "close", !.made = Lost, !.failed = FALSE, !.status = "wrong"]
        /\ UNCHANGED <<wire, receipt, record, effects, center, checking>>

\* native-record, call by call.
ToReport == work.made + (IF work.failed THEN 1 ELSE 0) - work.sent
Outcome(r) == IF work.sent < work.made THEN [r EXCEPT !.calls = @ + 1] ELSE [r EXCEPT !.bad = "error"]
Here == record[work.suite][case]

Report == /\ Mine("report") /\ ToReport > 0
          /\ Recorded(Outcome(Here))
          /\ \/ work' = [work EXCEPT !.sent = @ + 1]
             \/ Failed("close")                           \* the answer is lost
          /\ UNCHANGED <<wire, receipt, effects, center, checking>>

\* The record is refused, or the gateway dies in it.  P03 settles the call as an error.
ReportRefused == /\ Mine("report") /\ ToReport > 0
                 /\ \/ record' = record
                    \/ Recorded([Here EXCEPT !.bad = IF Practice = "P03" THEN "error" ELSE "pending"])
                 /\ Failed("close")
                 /\ UNCHANGED <<wire, receipt, effects, center, checking>>

Reported == Mine("report") /\ ToReport = 0
EndReport == /\ Reported
             /\ work' = [work EXCEPT !.at = "close", !.failed = FALSE, !.sent = 0]
             /\ UNCHANGED <<wire, receipt, record, effects, center, checking>>

\* close: not with a call pending; its answer may be lost, or it may not arrive.
Close == /\ Mine("close")
         /\ \/ /\ Here.state = "open" /\ Here.bad # "pending"
               /\ Recorded([Here EXCEPT !.state = "closed"])
               /\ Step("save") \/ work' = [work EXCEPT !.at = "save", !.life = FALSE, !.closing = FALSE]
            \/ /\ record' = record
               /\ work' = [work EXCEPT !.at = "save", !.life = FALSE, !.closing = FALSE]
         /\ UNCHANGED <<wire, receipt, effects, center, checking>>

Save == /\ Mine("save")
        /\ receipt' = [receipt EXCEPT ![work.suite].rows =
             Append(@, [right |-> work.status = "right", made |-> work.made,
                        finished |-> work.life /\ work.closing])]
        /\ work' = Row(work.suite, "next")
        /\ UNCHANGED <<wire, record, effects, center, checking>>

(* The verifier. *)
VerifyBusy == \E s \in Suites:
  /\ center[s] = "verify" /\ checking # NoSuite
  /\ Center(s, "ERR")
  /\ UNCHANGED <<runner, record, effects, checking>>

\* Mutant of Complete: what the gateway recorded is not counted.
CompleteUncounted(s) ==
  /\ receipt[s].state = "finished"
  /\ \A c \in Cases: receipt[s].rows[c].right /\ record[s][c].state = "closed"

\* verify_case: the worker's calls are those of the closed record, and of the contract.
RowComplete(row, r, want) == /\ row.finished /\ row.right
                             /\ r.state = "closed" /\ r.bad = "no"
                             /\ row.made = want /\ r.calls = want

Complete(s) == /\ receipt[s].state = "finished"
               /\ \A c \in Cases: RowComplete(receipt[s].rows[c], record[s][c], Want[c])

Collect == \E s \in Suites:
  /\ center[s] = "verify" /\ checking = NoSuite
  /\ IF Complete(s) THEN Center(s, "collected") /\ checking' = s
                    ELSE Center(s, "ERR") /\ checking' = checking
  /\ UNCHANGED <<runner, record, effects>>

\* The receipt and the build are read once more; the answer may miss the control center.
Confirm == \E s \in Suites:
  /\ checking = s
  /\ checking' = NoSuite
  /\ \E lost \in BOOLEAN: Center(s, IF receipt[s].state = "finished" /\ ~lost THEN "PASS" ELSE "ERR")
  /\ UNCHANGED <<runner, record, effects>>

Next == \/ Ask \/ GiveUp \/ Busy \/ Run \/ Prepare \/ Break \/ Finished \/ Direct \/ DirectEnds \/ Restart
        \/ Begin \/ Register \/ Authenticate \/ Call \/ Return \/ Kill \/ Report \/ ReportRefused
        \/ EndReport \/ Close \/ Save \/ VerifyBusy \/ Collect \/ Confirm

Spec == Init /\ [][Next]_vars

-----------------------------------------------------------------------------
Places == {"new", "sent", "verify", "collected", "PASS", "ERR"}
TypeOK == /\ wire \subseteq Suites
          /\ \A s \in Suites: /\ receipt[s].state \in {"absent", "running", "finished", "error"}
                              /\ Len(receipt[s].rows) <= Len(Want)
          /\ work.suite \in Suites \cup {NoSuite}
          /\ record \in [Suites -> [Cases -> [state: {"none", "open", "closed"}, calls: 0..Calls,
                                              bad: {"no", "error", "pending"}]]]
          /\ effects \in [Suites -> [Cases -> 0..Calls]]
          /\ center \in [Suites -> Places]
          /\ checking \in Suites \cup {NoSuite}

\* A mission passes when each case's closed record and AWS agree on exactly the calls its
\* contract wants: none was made, lost or repeated behind the record (verify_case).
VerdictIsTrue == \A s \in Suites: center[s] = "PASS" =>
  \A c \in Cases: record[s][c].state = "closed" /\ effects[s][c] = Want[c]

\* What a function that ended by itself did at AWS is in the record its runner closes, unless a
\* call or a report failed, which the record or the row says (run_case).
EffectsAreReported == \A s \in Suites: \A c \in 1..Len(receipt[s].rows):
  receipt[s].rows[c].finished /\ receipt[s].rows[c].made # Lost /\ record[s][c].bad = "no"
    => record[s][c].calls = effects[s][c]
=============================================================================

------------------------------ MODULE StepSuite -------------------------------
(***************************************************************************)
(* Verifications of mission P04: the control center drives the runner      *)
(* (h04-bedrock-guardrail) case by case and has each case verified before  *)
(* the next one (verify_p04_guardrail_app); at the end the verifier reads  *)
(* the whole suite (p04_suite_verification.py).  Between two requests the  *)
(* runner's lock is free: the receipt alone says that a suite is under     *)
(* way.  A request that is given up goes on in the runner.                 *)
(*                                                                         *)
(* An execution comes out "bad" when its calls are not those of the        *)
(* contract, "plain" when they are but the guardrail's effect does not     *)
(* show in the answer, else "good".  A row of the receipt is "ok" when the *)
(* runner saw the execution end and be closed.  Age stands for the 180     *)
(* seconds after the start of a suite.                                     *)
(***************************************************************************)
EXTENDS Integers, Sequences

CONSTANTS Suites, NoSuite,
          Count      \* cases of the contract (27)

VARIABLES receipt,   \* runner: table p04_runs (on tmpfs), by suite
          old,       \* suites started 180 seconds ago
          lock,      \* runner: what holds the lock
          registered, \* gateway: suites that are prepared
          record,    \* gateway: the execution of each case: "none", "open" or its outcome
          center,    \* control center, by suite: its place, and the case it is at
          checking   \* verifier: the suite that holds P04_LOCK

runner == <<receipt, old, lock>>
gateway == <<registered, record>>
vars == <<runner, gateway, center, checking>>

Cases == 1..Count
Absent == [state |-> "absent", rows |-> <<>>]
Free == [suite |-> NoSuite, by |-> "none"]

Init == /\ receipt = [s \in Suites |-> Absent]
        /\ old = {}
        /\ lock = Free
        /\ registered = {}
        /\ record = [s \in Suites |-> [c \in Cases |-> "none"]]
        /\ center = [s \in Suites |-> [at |-> "new", case |-> 1]]
        /\ checking = NoSuite

(* The control center asks, and hears an answer only as long as it waits for it. *)
At(s, place) == center[s].at = place
Move(s, place) == center' = [center EXCEPT ![s].at = place]
Answered(s, place) == center' = IF center[s].at \in {"starting", "stepping"}
                                  THEN [center EXCEPT ![s].at = place] ELSE center

\* A time-out, or no connection: the suite is closed in the finally clause.
GiveUp == \E s \in Suites:
  /\ center[s].at \in {"starting", "stepping", "check", "finish", "verify"}
  /\ Move(s, "stop")
  /\ UNCHANGED <<runner, gateway, checking>>

(* The runner. *)
Running(s) == receipt[s].state = "running"
Hold(s, by) == lock' = [suite |-> s, by |-> by]

\* No suite is under way that was started less than 180 seconds ago.
Startable == \A s \in Suites: Running(s) => s \in old

Start == \E s \in Suites:
  /\ At(s, "new")
  /\ IF lock = Free /\ Startable
       THEN /\ receipt' = [receipt EXCEPT ![s].state = "running"]
            /\ Hold(s, "start") /\ Move(s, "starting")
       ELSE receipt' = receipt /\ lock' = lock /\ Move(s, "stop")
  /\ UNCHANGED <<old, gateway, checking>>

Started == LET s == lock.suite IN
  /\ lock.by = "start"
  /\ lock' = Free
  /\ \/ /\ registered' = registered \cup {s}
        /\ Answered(s, "step") /\ receipt' = receipt
     \/ /\ registered' \in {registered, registered \cup {s}}
        /\ Answered(s, "stop") /\ receipt' = [receipt EXCEPT ![s].state = "error"]
  /\ UNCHANGED <<old, record, checking>>

\* The case is the first that has no execution; the runner's files cannot change.
Steppable(s) == Running(s) /\ s \notin old /\ center[s].case = Len(receipt[s].rows) + 1

\* The execution is granted by the gateway, or refused, or its grant is lost.
StepBegins == \E s \in Suites:
  /\ At(s, "step")
  /\ IF lock = Free /\ Steppable(s)
       THEN /\ Hold(s, "step") /\ Move(s, "stepping")
            /\ \E r \in {"open", "none"}: record' = [record EXCEPT ![s][center[s].case] = r]
       ELSE lock' = lock /\ record' = record /\ Move(s, "stop")
  /\ UNCHANGED <<receipt, old, registered, checking>>

Outcomes == {"good", "plain", "bad"}
RowOf(r, confirmed) == IF r # "bad" /\ confirmed THEN "ok" ELSE "bad"

\* The case, its closing, which may be refused or not confirmed, and its row.
StepEnds == LET s == lock.suite
                c == Len(receipt[s].rows) + 1
            IN
  /\ lock.by = "step"
  /\ lock' = Free
  /\ \/ \E r \in Outcomes, confirmed \in BOOLEAN:
          /\ record[s][c] = "open"
          /\ record' = [record EXCEPT ![s][c] = r]
          /\ receipt' = [receipt EXCEPT ![s].rows = Append(@, RowOf(r, confirmed))]
     \/ record' = record /\ receipt' = [receipt EXCEPT ![s].rows = Append(@, "bad")]
  /\ Answered(s, "check")
  /\ UNCHANGED <<old, registered, checking>>

\* A question of the learner's, in a suite of its own.
Chat == /\ lock = Free
        /\ Hold(NoSuite, "chat")
        /\ UNCHANGED <<receipt, old, gateway, center, checking>>
ChatEnds == /\ lock.by = "chat"
            /\ lock' = Free
            /\ UNCHANGED <<receipt, old, gateway, center, checking>>

Closed(s, stopped) ==
  [receipt EXCEPT ![s].state = IF Len(receipt[s].rows) = Count /\ ~stopped THEN "finished" ELSE "error"]

Finishes(s, stopped) == receipt' = IF lock = Free /\ Running(s) THEN Closed(s, stopped) ELSE receipt

Finish == \E s \in Suites:
  /\ At(s, "finish")
  /\ Finishes(s, FALSE)
  /\ Move(s, IF lock = Free /\ Running(s) THEN "verify" ELSE "stop")
  /\ UNCHANGED <<old, lock, gateway, checking>>

\* Refused while a step is running, or lost: no one asks again, and the suite stays "running".
Stop == \E s \in Suites:
  /\ At(s, "stop")
  /\ Finishes(s, TRUE) \/ receipt' = receipt
  /\ Move(s, "ERR")
  /\ UNCHANGED <<old, lock, gateway, checking>>

Age == \E s \in Suites \ old:
  /\ Running(s)
  /\ old' = old \cup {s}
  /\ UNCHANGED <<receipt, lock, gateway, center, checking>>

\* The container is replaced or dies: its receipts were on tmpfs.
Restart == /\ \E s \in Suites: receipt[s] # Absent
           /\ receipt' = [s \in Suites |-> Absent] /\ old' = {} /\ lock' = Free
           /\ center' = [s \in Suites |-> IF center[s].at \in {"starting", "stepping"}
                                            THEN [center[s] EXCEPT !.at = "stop"] ELSE center[s]]
           /\ UNCHANGED <<gateway, checking>>

(* The verifier. *)
\* verify_execution_binding, and verify_product_response.
Bound(s, c) == receipt[s].rows[c] = "ok" /\ record[s][c] \in {"good", "plain"}
Proven(s, c) == record[s][c] = "good"

\* collect_case: the suite is under way, exactly the cases up to this one are executed.
CasePasses(s, c) == /\ Running(s) /\ s \in registered
                    /\ Len(receipt[s].rows) = c
                    /\ Bound(s, c) /\ Proven(s, c)

Check == \E s \in Suites: LET c == center[s].case IN
  /\ At(s, "check")
  /\ center' = [center EXCEPT ![s] =
       IF ~CasePasses(s, c) THEN [@ EXCEPT !.at = "stop"]
       ELSE IF c = Count THEN [@ EXCEPT !.at = "finish"]
       ELSE [at |-> "step", case |-> c + 1]]
  /\ UNCHANGED <<runner, gateway, checking>>

Complete(s) == /\ receipt[s].state = "finished" /\ s \in registered
               /\ \A c \in Cases: Bound(s, c) /\ Proven(s, c)

Collect == \E s \in Suites:
  /\ At(s, "verify")
  /\ IF checking = NoSuite /\ Complete(s) THEN checking' = s /\ Move(s, "collected")
                                          ELSE checking' = checking /\ Move(s, "stop")
  /\ UNCHANGED <<runner, gateway>>

\* The runner's receipt, its build and the gateway's records are read once more; the answer may
\* not reach the control center.
Confirm == \E s \in Suites:
  /\ checking = s
  /\ checking' = NoSuite
  /\ \E lost \in BOOLEAN: Move(s, IF Complete(s) /\ ~lost THEN "PASS" ELSE "stop")
  /\ UNCHANGED <<runner, gateway>>

Next == \/ GiveUp \/ Start \/ Started \/ StepBegins \/ StepEnds \/ Chat \/ ChatEnds \/ Finish \/ Stop
        \/ Age \/ Restart \/ Check \/ Collect \/ Confirm

Spec == Init /\ [][Next]_vars

-----------------------------------------------------------------------------
Places == {"new", "starting", "step", "stepping", "check", "finish", "verify", "collected", "stop",
           "PASS", "ERR"}
TypeOK == /\ \A s \in Suites: /\ receipt[s].state \in {"absent", "running", "finished", "error"}
                              /\ receipt[s].rows \in UNION {[1..n -> {"ok", "bad"}] : n \in 0..Count}
          /\ old \subseteq Suites /\ registered \subseteq Suites
          /\ lock.suite \in Suites \cup {NoSuite} /\ lock.by \in {"none", "start", "step", "chat"}
          /\ record \in [Suites -> [Cases -> {"none", "open"} \cup Outcomes]]
          /\ center \in [Suites -> [at: Places, case: Cases]]
          /\ checking \in Suites \cup {NoSuite}

\* A mission passes only when each of its cases was executed and came out good at the gateway,
\* whatever was given up, refused or restarted on the way.
VerdictIsTrue == \A s \in Suites: At(s, "PASS") => \A c \in Cases: record[s][c] = "good"

\* "앞 케이스 실패로 중단": no case is executed after one that did not come out good.
FailureStops == \A s \in Suites, c \in Cases:
  record[s][c] # "none" => \A d \in 1..c - 1: record[s][d] = "good"

\* Of the suites begun in the last 180 seconds one at most is under way, though no request
\* holds the lock between two of its cases.
OneUnderWay == \A s, t \in Suites: Running(s) /\ Running(t) /\ {s, t} \cap old = {} => s = t
=============================================================================

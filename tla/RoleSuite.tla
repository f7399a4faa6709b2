------------------------------- MODULE RoleSuite -------------------------------
(***************************************************************************)
(* One verification of mission P07 or P08: the control center              *)
(* (verify_h07_content_safety, verify_h08_self_check_input) goes case by   *)
(* case through the gateway's one-use role grants (h07_backend.py,         *)
(* h08_backend.py) and the evidence verifier (check_h07_evidence,          *)
(* check_h08_evidence).  The two backends and the two handlers differ in   *)
(* names only, apart from what a model's answer is parsed to; the two      *)
(* verifiers differ in their verdicts.  The suite's rows are the only ones *)
(* its statements select, so one suite is modelled.                        *)
(*                                                                         *)
(* The learner's application holds all the grants from its first case on.  *)
(* It may use them in any order, in threads of its own, and after the      *)
(* control center has stopped waiting.  The verifier reads the ledger in   *)
(* two statements that no transaction holds together.                      *)
(***************************************************************************)
EXTENDS Integers, Sequences, SequencesExt, FiniteSets

CONSTANTS Cases,   \* how many: the first Normal ones are normal requests, the others risks
          Normal,
          Tries    \* of closing the suite: 3

Roles == {"guard", "main"}
Keys == (1..Cases) \X Roles

VARIABLES mission,   \* P07 or P08
          build,     \* P07: learner's configuration, fixed: roles of the rails
          caps,      \* h07_capabilities.status, per case and role
          calls,     \* h07_calls in the order of call_id
          closures,  \* h07_case_closures: per case, and for the suite (0), when it was closed
          late,      \* the grants' time is over
          threads,   \* the application's calls in the gateway
          reached,   \* provider side: the calls that may have reached the model
          receipt,   \* the application's receipt: per case, the roles it says it called
          run,       \* the control center: place, case, tries of closing, verdict
          note,      \* what the verifier has read
          used       \* used_evidence: the owner of each call, its number in the suite

suite == <<mission, build>>
gateway == <<caps, calls, closures, threads, reached>>
vars == <<mission, build, caps, calls, closures, late, threads, reached, receipt, run, note, used>>

NoNote == [k \in Keys |-> "none"]

Init == /\ mission \in {"P07", "P08"}
        /\ build \in IF mission = "P07" THEN {"starter", "fixed"} ELSE {"fixed"}
        /\ caps = [k \in Keys |-> "none"]
        /\ calls = <<>>
        /\ closures = [c \in 0..Cases |-> "open"]
        /\ late = FALSE
        /\ threads = {} /\ reached = {}
        /\ receipt = <<>>
        /\ run = [at |-> "new", case |-> 1, tries |-> 0, verdict |-> "none"]
        /\ note = NoNote
        /\ used = [k \in Keys |-> 0]

(* The gateway. *)
Prepare ==
  /\ run.at = "new"
  /\ caps' = [k \in Keys |-> "issued"]
  /\ run' = [run EXCEPT !.at = "run"]
  /\ UNCHANGED <<suite, calls, closures, late, threads, reached, receipt, note, used>>
\* Mutant of Reservable: a grant is refused only when its suite is closed.
ReservableAnyStatus(k) == closures[0] = "open" /\ caps[k] \in {"issued", "closed_unused"}

Reservable(k) == closures[0] = "open" /\ caps[k] = "issued"

Reserve(k) ==
  /\ Reservable(k)
  /\ IF late
       THEN caps' = [caps EXCEPT ![k] = "expired"] /\ UNCHANGED <<threads, reached>>
       ELSE /\ caps' = [caps EXCEPT ![k] = "reserved"]
            /\ threads' = threads \cup {k}
            /\ reached' = reached \cup {k}
  /\ UNCHANGED <<suite, calls, closures, late, receipt, run, note, used>>

\* A classification is safe (P08: No), unsafe (Yes), or none that the schema allows.
\* The main model of P08 may answer a risk with the marker it was asked for.
Marked(k) == mission = "P08" /\ k[1] > Normal
Results(k) == IF k[2] = "guard" THEN {"safe", "unsafe", "invalid"}
              ELSE {"reply"} \cup IF Marked(k) THEN {"marker"} ELSE {}

Complete(k) == \E result \in Results(k):
  /\ k \in threads
  /\ caps[k] = "reserved"
  /\ caps' = [caps EXCEPT ![k] = "completed"]
  /\ calls' = Append(calls, [key |-> k, result |-> result])
  /\ threads' = threads \ {k}
  /\ UNCHANGED <<suite, closures, late, reached, receipt, run, note, used>>

Fail(k) ==
  /\ k \in threads
  /\ caps' = [caps EXCEPT ![k] = IF @ = "reserved" THEN "failed" ELSE @]
  /\ threads' = threads \ {k}
  /\ UNCHANGED <<suite, calls, closures, late, reached, receipt, run, note, used>>

\* The gateway dies: its threads are gone, what they had reserved stays reserved.
Crash ==
  /\ threads # {}
  /\ threads' = {}
  /\ UNCHANGED <<suite, caps, calls, closures, late, reached, receipt, run, note, used>>

Expire ==
  /\ ~late
  /\ late' = TRUE
  /\ UNCHANGED <<suite, caps, calls, closures, threads, reached, receipt, run, note, used>>

KeysOf(c) == IF c = 0 THEN Keys ELSE {k \in Keys: k[1] = c}
InFlight(c) == \E k \in KeysOf(c): caps[k] = "reserved"
Unused(c) == [k \in Keys |-> IF k \in KeysOf(c) /\ caps[k] = "issued" THEN "closed_unused" ELSE caps[k]]

\* close_case, and close_suite as case 0.
Closable(c) == /\ c > 0 => closures[0] = "open" /\ \A d \in 1..c - 1: closures[d] # "open"
               /\ ~InFlight(c)
Close(c) == IF closures[c] # "open" THEN UNCHANGED <<caps, closures>>
            ELSE /\ caps' = Unused(c)
                 /\ closures' = [closures EXCEPT ![c] = IF late THEN "late" ELSE "in time"]

(* The control center. *)
\* The case has been run, and its receipt written;
RunCase ==
  /\ run.at = "run"
  /\ receipt' = Append(receipt, {r \in Roles: caps[<<run.case, r>>] = "completed"})
  /\ run' = [run EXCEPT !.at = "close case"]
  /\ UNCHANGED <<suite, gateway, late, note, used>>

Abort == [run EXCEPT !.at = "abort", !.verdict = "ERR", !.tries = 0]

\* or its result did not come: the case's calls may still go on.  Nor need any
\* answer of the gateway or the verifier come.
GiveUp ==
  /\ run.at \in {"run", "close case", "read", "calls", "final", "final calls"}
  /\ run' = IF run.at \in {"final", "final calls"} THEN [run EXCEPT !.at = "ended", !.verdict = "ERR"] ELSE Abort
  /\ note' = NoNote
  /\ UNCHANGED <<suite, gateway, late, receipt, used>>

CloseCase ==
  /\ run.at = "close case"
  /\ IF Closable(run.case)
       THEN Close(run.case) /\ run' = [run EXCEPT !.at = "read"]
       ELSE run' = Abort /\ UNCHANGED <<caps, closures>>
  /\ UNCHANGED <<suite, calls, late, threads, reached, receipt, note, used>>

\* close_h07_gateway_suite, before the last check or after a failure; an answer may
\* be lost.
CloseSuite == \E answered \in BOOLEAN:
  /\ run.at \in {"close", "abort"}
  /\ IF Closable(0)
       THEN /\ Close(0)
            /\ run' = IF run.at = "close" /\ answered THEN [run EXCEPT !.at = "final", !.tries = 0]
                      ELSE IF run.at = "close" THEN Abort
                      ELSE [run EXCEPT !.at = "ended", !.verdict = IF answered THEN @ ELSE "ERR", !.tries = 0]
       ELSE /\ run' = IF run.tries + 1 < Tries /\ answered THEN [run EXCEPT !.tries = @ + 1]
                      ELSE IF run.at = "close" THEN Abort
                      ELSE [run EXCEPT !.at = "ended", !.verdict = "ERR", !.tries = 0]
            /\ UNCHANGED <<caps, closures>>
  /\ UNCHANGED <<suite, calls, late, threads, reached, receipt, note, used>>

(* The verifier: check_h07_evidence for a case, and for the suite. *)
ReadCapabilities ==
  /\ run.at \in {"read", "final"}
  /\ note' = caps
  /\ run' = [run EXCEPT !.at = IF @ = "read" THEN "calls" ELSE "final calls"]
  /\ UNCHANGED <<suite, gateway, late, receipt, used>>

InScope == {n \in DOMAIN calls: calls[n].key[1] <= run.case}
\* Mutant of NoFutureCalls: the calls of later cases do not matter.
NoFutureCallsAlways == TRUE

NoFutureCalls == InScope = DOMAIN calls
ResultOf(k) == {call.result: call \in {x \in ToSet(calls): x.key = k}}
Called(k) == ResultOf(k) # {}
\* The receipt and the cases' closings are those of the cases so far;
Scoped == Len(receipt) = run.case /\ \A c \in 1..run.case: closures[c] = "in time"
\* each grant was used up or closed unused, as the calls say;
Settled(k) == note[k] \in {"completed", "closed_unused"} /\ (note[k] = "completed" <=> Called(k))
\* what the application says it called is what the ledger holds;
ReceiptAgrees(c) == receipt[c] = {r \in Roles: Called(<<c, r>>)}
\* and every classification could be parsed.
Readable(k) == "invalid" \notin ResultOf(k)

Considered == {k \in Keys: k[1] <= run.case}
\* Mutant of Consistent: the verifier looks at the calls only, not at what became of the grants.
ConsistentCalls ==
  Scoped /\ (\A c \in 1..run.case: ReceiptAgrees(c)) /\ \A k \in Considered: Readable(k)

Consistent ==
  Scoped /\ (\A c \in 1..run.case: ReceiptAgrees(c)) /\ \A k \in Considered: Settled(k) /\ Readable(k)

\* P07
NormalIsServed(c) == Called(<<c, "main">>) /\ (build = "fixed" => ResultOf(<<c, "guard">>) = {"safe"})
                                           /\ (build = "starter" => ~Called(<<c, "guard">>))
RiskIsStopped(c) == ~Called(<<c, "main">>) /\ ResultOf(<<c, "guard">>) = {"unsafe"}
RiskIsServed(c) == Called(<<c, "main">>) /\ ~Called(<<c, "guard">>)

SafetyVerdict ==
  LET normal == \A c \in 1..run.case: c <= Normal => NormalIsServed(c)
      risks == Normal + 1..run.case
  IN IF ~normal THEN "ERR"
     ELSE IF risks = {} THEN "PASS"
     ELSE IF build = "fixed" /\ (\A c \in risks: RiskIsStopped(c)) THEN "PASS"
     ELSE IF build = "starter" /\ (\A c \in risks: RiskIsServed(c)) THEN "HIT"
     ELSE "ERR"

\* P08: every case was classified first, in the order of the cases; the ledger says so.
InOrder ==
  /\ \A c \in 1..run.case: Called(<<c, "guard">>)
  /\ \A m, n \in InScope: m < n =>
       LET first == calls[m].key
           second == calls[n].key
       IN \/ first[1] < second[1]
          \/ first[1] = second[1] /\ first[2] = "guard" /\ second[2] = "main"
Cleared(c) == ResultOf(<<c, "guard">>) = {"safe"} /\ Called(<<c, "main">>)
Shown(c) == ResultOf(<<c, "guard">>) = {"safe"} /\ ResultOf(<<c, "main">>) = {"marker"}
Stopped(c) == ResultOf(<<c, "guard">>) = {"unsafe"} /\ note[<<c, "main">>] = "closed_unused"

\* A case's check looks at the current risk only, the suite's at all of them.
SelfCheckVerdict ==
  LET risks == IF run.at = "final calls" THEN Normal + 1..Cases ELSE {run.case} \ 1..Normal
  IN IF ~InOrder THEN "ERR"
     ELSE IF \E c \in 1..run.case: c <= Normal /\ ~Cleared(c) THEN "ERR"
     ELSE IF risks = {} THEN "PASS"
     ELSE IF \A c \in risks: Shown(c) THEN "HIT"
     ELSE IF \A c \in risks: Stopped(c) THEN "PASS"
     ELSE "ERR"

Verdict == IF ~Consistent THEN "ERR"
           ELSE IF mission = "P07" THEN SafetyVerdict
           ELSE SelfCheckVerdict

\* reserve_provider_evidence_batch: the calls in their order, all or none.  P08 names
\* the owner of a call by its case and role instead, which cannot differ.
Number(k) == LET call == CHOOSE n \in InScope: calls[n].key = k
             IN Cardinality({n \in InScope: n <= call})
Claims == {k \in Keys: mission = "P07" /\ k[1] <= run.case /\ Called(k)}
Reserves(verdict) ==
  IF verdict # "ERR" /\ \A k \in Claims: used[k] \in {0, Number(k)}
    THEN used' = [k \in Keys |-> IF k \in Claims THEN Number(k) ELSE used[k]]
    ELSE UNCHANGED used

CheckCase ==
  LET verdict == IF NoFutureCalls THEN Verdict ELSE "ERR"
  IN /\ run.at = "calls"
     /\ Reserves(verdict)
     /\ run' = IF verdict # "PASS" THEN [Abort EXCEPT !.verdict = verdict]
               ELSE IF run.case < Cases THEN [run EXCEPT !.at = "run", !.case = @ + 1]
               ELSE [run EXCEPT !.at = "close"]
     /\ note' = NoNote
     /\ UNCHANGED <<suite, gateway, late, receipt>>

FinalCheck ==
  /\ run.at = "final calls"
  /\ Reserves(Verdict)
  /\ run' = [run EXCEPT !.at = "ended", !.verdict =
       IF closures[0] = "in time" /\ \A k \in Claims: used[k] \in {0, Number(k)} THEN Verdict ELSE "ERR"]
  /\ note' = NoNote
  /\ UNCHANGED <<suite, gateway, late, receipt>>

Gateway == \/ Prepare \/ Crash \/ Expire
           \/ \E k \in Keys: Reserve(k) \/ Complete(k) \/ Fail(k)
Control == RunCase \/ GiveUp \/ CloseCase \/ CloseSuite
Verifier == ReadCapabilities \/ CheckCase \/ FinalCheck
Next == Gateway \/ Control \/ Verifier
Spec == Init /\ [][Next]_vars

Statuses == {"none", "issued", "reserved", "completed", "failed", "expired", "closed_unused"}

TypeOK == /\ mission \in {"P07", "P08"} /\ build \in {"starter", "fixed"}
          /\ caps \in [Keys -> Statuses] /\ note \in [Keys -> Statuses]
          /\ calls \in Seq([key: Keys, result: {"safe", "unsafe", "invalid", "reply", "marker"}])
          /\ closures \in [0..Cases -> {"open", "in time", "late"}]
          /\ late \in BOOLEAN /\ threads \subseteq Keys /\ reached \subseteq Keys
          /\ receipt \in Seq(SUBSET Roles)
          /\ run \in [at: {"new", "run", "close case", "read", "calls", "close", "final", "final calls",
                           "abort", "ended"},
                      case: 1..Cases, tries: 0..Tries, verdict: {"none", "PASS", "HIT", "ERR"}]
          /\ used \in [Keys -> 0..2 * Cases]

\* A verification passes only when no request for the main model of a risk case ever
\* reached it, and none can any more.
PassedIsTrue == run.verdict = "PASS" =>
  /\ \A c \in Normal + 1..Cases: <<c, "main">> \notin reached
  /\ threads = {} /\ \A k \in Keys: caps[k] \in {"completed", "closed_unused"}

\* What a closed case's evidence is judged by stays as it was closed.
CallsOf(c) == {<<n, calls[n]>>: n \in {m \in DOMAIN calls: calls[m].key[1] = c}}
ClosedIsFinalStep == \A c \in 1..Cases: closures[c] # "open" =>
  /\ \A r \in Roles: caps'[<<c, r>>] = caps[<<c, r>>]
  /\ CallsOf(c)' = CallsOf(c)
ClosedIsFinal == [][ClosedIsFinalStep]_vars

\* Evidence that was claimed when its case was checked has the same owner, its number
\* among the suite's calls, in the whole suite: the last check cannot take it for
\* evidence that was used before.
OwnersAreStable == \A k \in Keys: used[k] # 0 => calls[used[k]].key = k
===============================================================================

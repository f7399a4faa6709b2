----------------------------- MODULE IncidentSuite -----------------------------
(***************************************************************************)
(* Verifications of mission P19 from several sessions at a time: the       *)
(* control center (run_incident_checks), the service that handles the      *)
(* fixed requests, collects their logs and traces and has the learner's    *)
(* function analyse them in a process of its own (h19-incident-            *)
(* investigation) and the verifier (check_p19_incident,                    *)
(* p19_verification.py).                                                   *)
(*                                                                         *)
(* What is collected again is what was collected before: no record of a    *)
(* closed request changes.  Ledgers and receipts are on a volume, the      *)
(* learner's function in the image.                                        *)
(***************************************************************************)
EXTENDS Integers, Sequences

CONSTANTS Suites, Cases,  \* the inputs of the analysis, in order
          Damaged         \* those that it must refuse

Builds == {"starter",  \* not implemented
           "trusting", \* analyses a damaged bundle like a whole one
           "fixed"}
Analysed(build, case) == CASE build = "starter" -> "error"
                           [] build = "fixed" /\ case \in Damaged -> "invalid"
                           [] OTHER -> "value"
Expected(case) == IF case \in Damaged THEN "invalid" ELSE "value"

VARIABLES image,
          wire,     \* requests on their way: suite, and 0 to prepare or the case's number
          worker,   \* the request that holds the lock; none is <<>>
          ledger,   \* by suite: none, open or closed
          receipt,  \* by suite
          ran,      \* by suite, the inputs that were analysed, and the build that did (history)
          run       \* the control center, by suite

vars == <<image, wire, worker, ledger, receipt, ran, run>>

NoReceipt == [source |-> "none", error |-> FALSE, results |-> <<>>]
Init == /\ image \in Builds
        /\ wire = {} /\ worker = <<>>
        /\ ledger = [s \in Suites |-> "none"]
        /\ receipt = [s \in Suites |-> NoReceipt]
        /\ ran = [s \in Suites |-> <<>>]
        /\ run = [s \in Suites |-> [at |-> "new", done |-> 0, verdict |-> "none"]]

(* The control center. *)
Ended(s, verdict) == [run EXCEPT ![s].at = "ended", ![s].verdict = verdict]
Told(s, at) == IF run[s].at # "sent" THEN run ELSE [run EXCEPT ![s].at = at]
Failed(s) == IF run[s].at # "sent" THEN run ELSE Ended(s, "ERR")

Send == \E s \in Suites:
  /\ \/ run[s].at = "new" /\ wire' = wire \cup {<<s, 0>>}
     \/ /\ run[s].at = "run" /\ run[s].done < Len(Cases)
        /\ wire' = wire \cup {<<s, run[s].done + 1>>}
  /\ run' = [run EXCEPT ![s].at = "sent"]
  /\ UNCHANGED <<image, worker, ledger, receipt, ran>>

\* What it waits for fails or comes too late, records cannot be collected, or 180 s have passed.
GiveUp == \E s \in Suites:
  /\ run[s].at # "ended"
  /\ run' = Ended(s, "ERR")
  /\ UNCHANGED <<image, wire, worker, ledger, receipt, ran>>

(* The service. *)
Busy == worker # <<>>
InTurn(s, n) == /\ receipt[s].source = image /\ ~receipt[s].error
                /\ n = Len(receipt[s].results) + 1

\* open('x') refuses a suite that was prepared before.
Take == \E s \in Suites, n \in 0..Len(Cases):
  /\ <<s, n>> \in wire /\ ~Busy
  /\ IF n = 0 THEN ledger[s] = "none" /\ ledger' = [ledger EXCEPT ![s] = "open"]
     ELSE InTurn(s, n) /\ UNCHANGED ledger
  /\ wire' = wire \ {<<s, n>>}
  /\ worker' = <<s, n>>
  /\ UNCHANGED <<image, receipt, ran, run>>

Refuse == \E <<s, n>> \in wire:
  /\ Busy \/ (IF n = 0 THEN ledger[s] # "none" ELSE ~InTurn(s, n))
  /\ wire' = wire \ {<<s, n>>}
  /\ run' = Failed(s)
  /\ UNCHANGED <<image, worker, ledger, receipt, ran>>

\* prepare: the ledger is closed once all requests are handled; their records may not come in time.
Prepare == \E error \in BOOLEAN:
  /\ Busy /\ worker[2] = 0
  /\ LET s == worker[1] IN
       /\ ledger' = [ledger EXCEPT ![s] = "closed"]
       /\ receipt' = [receipt EXCEPT ![s] = [NoReceipt EXCEPT !.source = image, !.error = error]]
       /\ run' = Told(s, "run")
  /\ worker' = <<>>
  /\ UNCHANGED <<image, wire, ran>>

\* run_case: the learner's function, which may take too long.
RunCase == /\ Busy /\ worker[2] # 0
           /\ LET s == worker[1]
                  case == Cases[worker[2]]
              IN \E result \in {Analysed(image, case), "error"}:
                   /\ receipt' = [receipt EXCEPT ![s].results = Append(@, <<case, image, result>>)]
                   /\ ran' = [ran EXCEPT ![s] = Append(@, <<case, image>>)]
                   /\ run' = Told(s, "check")
           /\ worker' = <<>>
           /\ UNCHANGED <<image, wire, ledger>>

\* The service dies, or is built anew.
Rebuild == \E b \in Builds:
  /\ b # image \/ Busy
  /\ image' = b /\ worker' = <<>>
  /\ run' = IF Busy THEN Failed(worker[1]) ELSE run
  /\ UNCHANGED <<wire, ledger, receipt, ran>>

(* The verifier. *)
SameSource(s) == receipt[s].source = image
Sound(s, n) == /\ SameSource(s) /\ ~receipt[s].error /\ ledger[s] = "closed"
               /\ Len(receipt[s].results) = n
               /\ \A i \in 1..n: receipt[s].results[i] = <<Cases[i], image, Expected(Cases[i])>>

CheckCase == \E s \in Suites:
  /\ run[s].at = "check"
  /\ run' = IF Sound(s, run[s].done + 1) THEN [run EXCEPT ![s].at = "run", ![s].done = @ + 1]
            ELSE Ended(s, "ERR")
  /\ UNCHANGED <<image, wire, worker, ledger, receipt, ran>>

CheckSequence == \E s \in Suites:
  /\ run[s].at = "run" /\ run[s].done = Len(Cases)
  /\ run' = Ended(s, IF Sound(s, Len(Cases)) THEN "PASS" ELSE "ERR")
  /\ UNCHANGED <<image, wire, worker, ledger, receipt, ran>>

Next == Send \/ GiveUp \/ Take \/ Refuse \/ Prepare \/ RunCase \/ Rebuild \/ CheckCase \/ CheckSequence
Spec == Init /\ [][Next]_vars

CaseNames == {Cases[i]: i \in DOMAIN Cases}
TypeOK == /\ image \in Builds
          /\ wire \subseteq Suites \X (0..Len(Cases))
          /\ worker \in {<<>>} \cup (Suites \X (0..Len(Cases)))
          /\ ledger \in [Suites -> {"none", "open", "closed"}]
          /\ \A s \in Suites:
               /\ receipt[s].source \in Builds \cup {"none"} /\ receipt[s].error \in BOOLEAN
               /\ Len(receipt[s].results) <= Len(Cases)
               /\ \A i \in DOMAIN receipt[s].results:
                    receipt[s].results[i] \in CaseNames \X Builds \X {"value", "invalid", "error"}
               /\ Len(ran[s]) <= Len(Cases)
          /\ run \in [Suites -> [at: {"new", "run", "sent", "check", "ended"}, done: 0..Len(Cases),
                                 verdict: {"none", "PASS", "ERR"}]]

\* A verification passes only when each input was analysed once, in order, by one build that
\* refuses the damaged ones.
VerdictIsTrue == \A s \in Suites: run[s].verdict = "PASS" =>
                   ran[s] = [n \in DOMAIN Cases |-> <<Cases[n], "fixed">>]
================================================================================

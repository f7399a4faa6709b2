----------------------------- MODULE TelemetrySuite ----------------------------
(***************************************************************************)
(* Verifications of mission P17 from several sessions at a time: the       *)
(* control center (run_telemetry_checks), the service that runs the        *)
(* learner's instrumentation in a process of its own (h17-telemetry) and   *)
(* the verifier (check_p17_signals, p17_verification.py).                  *)
(*                                                                         *)
(* The counters go on from run to run in a file on a volume, which         *)
(* Prometheus scrapes.  The service waits for a scrape before and after a  *)
(* case, so what Prometheus tells of these moments is the file.  Logs and  *)
(* traces are left out: without them a case fails.                         *)
(***************************************************************************)
EXTENDS Integers, Sequences

CONSTANTS Suites, Cases   \* the fixed requests, in order

Builds == {"starter",  \* not implemented
           "forgets",  \* counts what is allowed, and not what is refused
           "fixed"}
Decision(case) == IF case = "normal-lookup" THEN "allow" ELSE "block"
Zero == [allow |-> 0, block |-> 0]
Plus(values, decision) == [values EXCEPT ![decision] = @ + 1]
Counted(build, case, values) ==
  IF build = "fixed" \/ (build = "forgets" /\ Decision(case) = "allow")
    THEN Plus(values, Decision(case)) ELSE values

VARIABLES image,
          metrics,   \* metrics.json
          wire,      \* requests on their way: suite and number of the case
          worker,    \* the request that holds the lock
          receipts,  \* by suite, those of its cases; each case is a suite of its own to the service
          ran,       \* by suite, cases that were run and the build that did (history)
          run        \* the control center, by suite

vars == <<image, metrics, wire, worker, receipts, ran, run>>

Idle == [at |-> "idle", of |-> <<>>, before |-> Zero, first |-> Zero, values |-> Zero]
NoReceipt == [source |-> "none", before |-> Zero, first |-> Zero, values |-> Zero, last |-> Zero]
Init == /\ image \in Builds
        /\ metrics = Zero /\ wire = {} /\ worker = Idle
        /\ receipts = [s \in Suites |-> [n \in DOMAIN Cases |-> NoReceipt]]
        /\ ran = [s \in Suites |-> <<>>]
        /\ run = [s \in Suites |-> [at |-> "run", done |-> 0, source |-> "none", verdict |-> "none"]]

(* The control center. *)
Ended(s, verdict) == [run EXCEPT ![s].at = "ended", ![s].verdict = verdict]
Told(s, at) == IF run[s].at # "sent" THEN run
               ELSE IF at = "ended" THEN Ended(s, "ERR") ELSE [run EXCEPT ![s].at = at]

Send == \E s \in Suites:
  /\ run[s].at = "run" /\ run[s].done < Len(Cases)
  /\ wire' = wire \cup {<<s, run[s].done + 1>>}
  /\ run' = [run EXCEPT ![s].at = "sent"]
  /\ UNCHANGED <<image, metrics, worker, receipts, ran>>

\* A request fails or is not waited for, signals are missing, or 180 s have passed.
GiveUp == \E s \in Suites:
  /\ run[s].at # "ended"
  /\ run' = Ended(s, "ERR")
  /\ UNCHANGED <<image, metrics, wire, worker, receipts, ran>>

(* The service: run_selected. *)
Take == \E w \in wire:
  /\ worker = Idle
  /\ wire' = wire \ {w}
  /\ worker' = [Idle EXCEPT !.at = "begin", !.of = w, !.before = metrics]
  /\ UNCHANGED <<image, metrics, receipts, ran, run>>

Refuse == \E w \in wire:
  /\ worker # Idle
  /\ wire' = wire \ {w}
  /\ run' = Told(w[1], "ended")
  /\ UNCHANGED <<image, metrics, worker, receipts, ran>>

Sample == /\ worker.at = "begin"
          /\ worker' = [worker EXCEPT !.at = "sampled", !.first = metrics]
          /\ UNCHANGED <<image, metrics, wire, receipts, ran, run>>

CaseOf(w) == Cases[w[2]]
Execute == /\ worker.at = "sampled"
           /\ worker' = [worker EXCEPT !.at = "executed", !.values = Counted(image, CaseOf(worker.of), @)]
           /\ ran' = [ran EXCEPT ![worker.of[1]] = Append(@, <<CaseOf(worker.of), image>>)]
           /\ UNCHANGED <<image, metrics, wire, receipts, run>>
Values == [allow |-> worker.before.allow + worker.values.allow,
           block |-> worker.before.block + worker.values.block]

SaveMetrics == /\ worker.at = "executed"
               /\ metrics' = Values
               /\ worker' = [worker EXCEPT !.at = "saved"]
               /\ UNCHANGED <<image, wire, receipts, ran, run>>

\* The second scrape, then the ledger and the receipt.
SaveReceipt == /\ worker.at = "saved"
               /\ receipts' = [receipts EXCEPT ![worker.of[1]][worker.of[2]] =
                    [source |-> image, before |-> worker.before, first |-> worker.first,
                     values |-> Values, last |-> metrics]]
               /\ worker' = Idle
               /\ run' = Told(worker.of[1], "check")
               /\ UNCHANGED <<image, metrics, wire, ran>>

\* No scrape in time, or a worker that fails: the receipt says so, and is not looked at further.
FailCase == /\ worker # Idle /\ worker' = Idle
            /\ run' = Told(worker.of[1], "check")
            /\ UNCHANGED <<image, metrics, wire, receipts, ran>>

Rebuild == \E b \in Builds:
  /\ b # image \/ worker # Idle
  /\ image' = b /\ worker' = Idle
  /\ run' = IF worker = Idle THEN run ELSE Told(worker.of[1], "ended")
  /\ UNCHANGED <<metrics, wire, receipts, ran>>

(* The verifier. *)
Sound(r, case) == /\ r.source = image /\ image # "starter"
                  /\ r.first = r.before /\ r.last = r.values
                  /\ r.last = Plus(r.first, Decision(case))
SameSource(s, source) == run[s].source \in {"none", source}

CheckCase == \E s \in Suites:
  /\ run[s].at = "check"
  /\ LET n == run[s].done + 1
         r == receipts[s][n]
     IN run' = IF Sound(r, Cases[n]) /\ SameSource(s, r.source)
                 THEN [run EXCEPT ![s].at = "run", ![s].done = n, ![s].source = r.source]
                 ELSE Ended(s, "ERR")
  /\ UNCHANGED <<image, metrics, wire, worker, receipts, ran>>

\* Each of the cases once more.
CheckSequence == \E s \in Suites:
  /\ run[s].at = "run" /\ run[s].done = Len(Cases)
  /\ run' = Ended(s, IF \A n \in DOMAIN Cases: Sound(receipts[s][n], Cases[n]) THEN "PASS" ELSE "ERR")
  /\ UNCHANGED <<image, metrics, wire, worker, receipts, ran>>

Service == Take \/ Refuse \/ Sample \/ Execute \/ SaveMetrics \/ SaveReceipt \/ FailCase \/ Rebuild
Next == Send \/ GiveUp \/ Service \/ CheckCase \/ CheckSequence
Spec == Init /\ [][Next]_vars

Counts == [allow: Nat, block: Nat]
Places == {"begin", "sampled", "executed", "saved"}
TypeOK == /\ image \in Builds /\ metrics \in Counts
          /\ wire \subseteq Suites \X DOMAIN Cases
          /\ \/ worker = Idle
             \/ worker \in [at: Places, of: Suites \X DOMAIN Cases, before: Counts, first: Counts, values: Counts]
          /\ receipts \in [Suites -> [DOMAIN Cases -> [source: Builds \cup {"none"}, before: Counts,
                                                       first: Counts, values: Counts, last: Counts]]]
          /\ \A s \in Suites: Len(ran[s]) <= Len(Cases)
          /\ run \in [Suites -> [at: {"run", "sent", "check", "ended"}, done: 0..Len(Cases),
                                 source: Builds \cup {"none"}, verdict: {"none", "PASS", "ERR"}]]

\* A verification passes only when each case was run once, in order, by one build that counts
\* what is refused too, whatever others ran in between.
VerdictIsTrue == \A s \in Suites: run[s].verdict = "PASS" =>
                   ran[s] = [n \in DOMAIN Cases |-> <<Cases[n], "fixed">>]
================================================================================

------------------------------- MODULE QuerySuite ------------------------------
(***************************************************************************)
(* Verifications of mission P18 from several sessions at a time: the       *)
(* control center (run_query_checks), the service that handles the fixed   *)
(* requests and runs the learner's queries (observability/server.py,       *)
(* request_workflow.py, query_execution.py) and the verifier               *)
(* (check_p18_queries, p18_results.py).                                    *)
(*                                                                         *)
(* The counters are in the service's memory; Prometheus tells their value  *)
(* at its last scrape.  Ledgers and receipts are on a volume, the queries  *)
(* in the image.  Logs and traces name their request; without them a query *)
(* fails.                                                                  *)
(***************************************************************************)
EXTENDS Integers, Sequences

CONSTANT Suites

Builds == {"starter",     \* finds nothing
           "unfiltered",  \* finds the logs of any request
           "fixed"}
LastCase == 2  \* the query of the normal request, then that of the denied one
Zero == [allow |-> 0, block |-> 0]
Both(values) == [allow |-> values.allow + 1, block |-> values.block + 1]

VARIABLES image,
          counter,   \* COUNTER
          scraped,   \* what Prometheus knows of it
          wire,      \* requests on their way: suite, and 0 to prepare or the case
          worker,    \* the request that holds P18_LOCK, and how far it is; none is <<>>
          ledger,    \* by suite: none, open or closed
          receipt,   \* by suite
          ran,       \* by suite, the queries that were run, and from which build (history)
          run        \* the control center, by suite

vars == <<image, counter, scraped, wire, worker, ledger, receipt, ran, run>>

NoReceipt == [source |-> "none", start |-> Zero, error |-> FALSE, queries |-> 0]
Init == /\ image \in Builds
        /\ counter = Zero /\ scraped = Zero /\ wire = {} /\ worker = <<>>
        /\ ledger = [s \in Suites |-> "none"]
        /\ receipt = [s \in Suites |-> NoReceipt]
        /\ ran = [s \in Suites |-> <<>>]
        /\ run = [s \in Suites |-> [at |-> "new", done |-> 0, verdict |-> "none"]]

(* The control center. *)
Ended(s, verdict) == [run EXCEPT ![s].at = "ended", ![s].verdict = verdict]
Told(s, at) == IF run[s].at # "sent" THEN run ELSE [run EXCEPT ![s].at = at]
Failed(s) == IF run[s].at # "sent" THEN run ELSE Ended(s, "ERR")

Send == \E s \in Suites:
  /\ \/ run[s].at = "new" /\ wire' = wire \cup {<<s, 0>>}
     \/ /\ run[s].at = "run" /\ run[s].done < LastCase
        /\ wire' = wire \cup {<<s, run[s].done + 1>>}
  /\ run' = [run EXCEPT ![s].at = "sent"]
  /\ UNCHANGED <<image, counter, scraped, worker, ledger, receipt, ran>>

\* What it waits for fails or comes too late, the window of 60 s or the suite's 180 s are over.
GiveUp == \E s \in Suites:
  /\ run[s].at # "ended"
  /\ run' = Ended(s, "ERR")
  /\ UNCHANGED <<image, counter, scraped, wire, worker, ledger, receipt, ran>>

(* The service. *)
Busy == worker # <<>>
At(phase) == Busy /\ worker[3] = phase
Owner == worker[1]
Case == worker[2]

\* prepare_h18; open('x') refuses a suite that was prepared before.
Prepare == \E s \in Suites:
  /\ <<s, 0>> \in wire /\ ~Busy /\ ledger[s] = "none"
  /\ wire' = wire \ {<<s, 0>>}
  /\ worker' = <<s, 0, "scrape">>
  /\ ledger' = [ledger EXCEPT ![s] = "open"]
  /\ UNCHANGED <<image, counter, scraped, receipt, ran, run>>

\* run_case_h18: the next query of the queries that were prepared.
InTurn(s, case) == /\ receipt[s].source = image /\ ~receipt[s].error
                   /\ case = receipt[s].queries + 1
RunCase == \E s \in Suites, case \in 1..LastCase:
  /\ <<s, case>> \in wire /\ ~Busy /\ InTurn(s, case)
  /\ wire' = wire \ {<<s, case>>}
  /\ worker' = <<s, case, "query">>
  /\ UNCHANGED <<image, counter, scraped, ledger, receipt, ran, run>>

Refuse == \E <<s, case>> \in wire:
  /\ Busy \/ (IF case = 0 THEN ledger[s] # "none" ELSE ~InTurn(s, case))
  /\ wire' = wire \ {<<s, case>>}
  /\ run' = Failed(s)
  /\ UNCHANGED <<image, counter, scraped, worker, ledger, receipt, ran>>

\* run_suite: once the counters have been scraped, both requests are handled and recorded.
Handle == /\ At("scrape")
          /\ scraped' = counter
          /\ counter' = Both(counter)
          /\ worker' = [worker EXCEPT ![3] = "handled"]
          /\ ledger' = [ledger EXCEPT ![Owner] = "closed"]
          /\ UNCHANGED <<image, wire, receipt, ran, run>>

\* The counters' value before the requests is what Prometheus has at the window's start.
Prepared(error) == [NoReceipt EXCEPT !.source = image, !.error = error,
                                     !.start = [allow |-> counter.allow - 1, block |-> counter.block - 1]]
SavePrepared == /\ At("handled")
                /\ worker' = <<>>
                /\ \/ scraped' = counter /\ receipt' = [receipt EXCEPT ![Owner] = Prepared(FALSE)]
                   \/ receipt' = [receipt EXCEPT ![Owner] = Prepared(TRUE)] /\ UNCHANGED scraped
                /\ run' = Told(Owner, "run")
                /\ UNCHANGED <<image, counter, wire, ledger, ran>>

\* The query is run over and over until it finds something; an error is recorded for good.
SaveQuery == /\ At("query")
             /\ worker' = <<>>
             /\ \/ /\ image # "starter"
                   /\ receipt' = [receipt EXCEPT ![Owner].queries = Case]
                   /\ ran' = [ran EXCEPT ![Owner] = Append(@, image)]
                \/ receipt' = [receipt EXCEPT ![Owner].error = TRUE] /\ UNCHANGED ran
             /\ run' = Told(Owner, "check")
             /\ UNCHANGED <<image, counter, scraped, wire, ledger>>

\* No scrape in time before the requests, or an error that is not expected.
FailWork == /\ Busy /\ worker' = <<>>
            /\ run' = Failed(Owner)
            /\ UNCHANGED <<image, counter, scraped, wire, ledger, receipt, ran>>

Rebuild == \E b \in Builds:
  /\ b # image \/ Busy \/ counter # Zero
  /\ image' = b /\ counter' = Zero /\ worker' = <<>>
  /\ run' = IF Busy THEN Failed(Owner) ELSE run
  /\ UNCHANGED <<scraped, wire, ledger, receipt, ran>>

Scrape == /\ scraped # counter /\ scraped' = counter
          /\ UNCHANGED <<image, counter, wire, worker, ledger, receipt, ran, run>>

(* The verifier runs the queries again, in the same window up to now. *)
CountedOnce(s) == scraped = Both(receipt[s].start)
Sound(s, n) == /\ receipt[s].source = image /\ ~receipt[s].error
               /\ receipt[s].queries = n
               /\ ledger[s] = "closed"
               /\ image = "fixed" /\ CountedOnce(s)

CheckCase == \E s \in Suites:
  /\ run[s].at = "check"
  /\ run' = IF Sound(s, run[s].done + 1) THEN [run EXCEPT ![s].at = "run", ![s].done = @ + 1]
            ELSE Ended(s, "ERR")
  /\ UNCHANGED <<image, counter, scraped, wire, worker, ledger, receipt, ran>>

CheckSequence == \E s \in Suites:
  /\ run[s].at = "run" /\ run[s].done = LastCase
  /\ run' = Ended(s, IF Sound(s, LastCase) THEN "PASS" ELSE "ERR")
  /\ UNCHANGED <<image, counter, scraped, wire, worker, ledger, receipt, ran>>

Service == Prepare \/ RunCase \/ Refuse \/ Handle \/ SavePrepared \/ SaveQuery \/ FailWork
Next == Send \/ GiveUp \/ Service \/ Rebuild \/ Scrape \/ CheckCase \/ CheckSequence
Spec == Init /\ [][Next]_vars

Counts == [allow: Nat, block: Nat]
TypeOK == /\ image \in Builds /\ {counter, scraped} \subseteq Counts
          /\ wire \subseteq Suites \X (0..LastCase)
          /\ worker \in {<<>>} \cup (Suites \X (0..LastCase) \X {"scrape", "handled", "query"})
          /\ ledger \in [Suites -> {"none", "open", "closed"}]
          /\ receipt \in [Suites -> [source: Builds \cup {"none"}, start: Counts, error: BOOLEAN, queries: 0..LastCase]]
          /\ \A s \in Suites: Len(ran[s]) <= LastCase
          /\ run \in [Suites -> [at: {"new", "run", "sent", "check", "ended"}, done: 0..LastCase,
                                 verdict: {"none", "PASS", "ERR"}]]

\* A verification passes only when its two queries were run once each, from the build that finds
\* its own requests and nothing else.
VerdictIsTrue == \A s \in Suites: run[s].verdict = "PASS" => ran[s] = <<"fixed", "fixed">>
================================================================================

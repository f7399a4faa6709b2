------------------------------ MODULE CaseRunner ------------------------------
(***************************************************************************)
(* The application of missions P07 and P08 (guided-labs/h08-self-check-    *)
(* input and its twin h07-content-safety) under its clients: suites of the *)
(* control center, each a verification, which asks for one case after the  *)
(* other (/v1/run-case), or an exploration, which asks for all of them, or *)
(* for one of them, in one request (/v1/run).  They share the application, *)
(* which runs one request at a time, and the gateway, which sells each     *)
(* role of each case one call of a model (h08_backend.py).                 *)
(*                                                                         *)
(* A request outlives a client that has stopped waiting for it, but not    *)
(* the application's process: the configuration is part of the image, and  *)
(* a changed one is a build of its own.  The receipts outlive both in P08, *)
(* where they are on a volume; in P07 they are in the container's memory   *)
(* and end with it.                                                        *)
(***************************************************************************)
EXTENDS Integers, Sequences

CONSTANTS Suites, NoSuite,
          Cases,    \* how many: the last is a risk, the others are normal requests
          Builds    \* how many different ones the learner makes

Roles == {"guard", "main"}
Keys == Suites \X (1..Cases) \X Roles

VARIABLES plan,     \* per suite: a verification, or an exploration of one case, or of all (0)
          image,    \* the build that runs
          run,      \* the request that holds run_lock, if any
          receipt,  \* receipts: per suite, its source digest and its cases
          caps,     \* h08_capabilities.status
          threads,  \* the calls that the gateway's threads are making
          unsafe,   \* the case under way, when its rails were told that it is unsafe
          reached,  \* provider side: the calls that may have reached a model
          closed,   \* per suite: how many cases are closed; all is Cases + 1
          client,   \* the control center: place, case, the build the verifier saw, verdict
          wire      \* its request to the application: sent, or answered

gateway == <<caps, threads, unsafe, reached, closed>>
vars == <<plan, image, run, receipt, gateway, client, wire>>

Idle == [suite |-> NoSuite, case |-> 1, at |-> "guard", rows |-> <<>>]
NoReceipt == [build |-> 0, rows |-> <<>>]

Init == /\ plan \in [Suites -> [verify: {TRUE}, only: {0}] \cup [verify: {FALSE}, only: 0..Cases]]
        /\ image = 1
        /\ run = Idle
        /\ receipt = [s \in Suites |-> NoReceipt]
        /\ caps = [k \in Keys |-> "none"]
        /\ threads = {} /\ unsafe = {} /\ reached = {}
        /\ closed = [s \in Suites |-> 0]
        /\ client = [s \in Suites |-> [at |-> "new", case |-> 1, build |-> 0, verdict |-> "none"]]
        /\ wire = [s \in Suites |-> "none"]

(* The control center and the gateway's bookkeeping. *)
At(s, place) == client' = [client EXCEPT ![s].at = place]

\* The request for the first case, or for the next one.
Ask(s) == wire' = [wire EXCEPT ![s] = "request"]

\* The grants of all cases are issued in one transaction.
Prepare(s) ==
  /\ client[s].at = "new"
  /\ caps' = [k \in Keys |-> IF k[1] = s THEN "issued" ELSE caps[k]]
  /\ At(s, "wait") /\ Ask(s)
  /\ UNCHANGED <<plan, image, run, receipt, threads, unsafe, reached, closed>>

Told(s) ==
  /\ client[s].at = "wait" /\ wire[s] \in {"done", "failed"}
  /\ At(s, IF wire[s] = "failed" THEN "abort"
           ELSE IF plan[s].verify THEN "close case"
           ELSE "close")
  /\ wire' = [wire EXCEPT ![s] = "none"]
  /\ UNCHANGED <<plan, image, run, receipt, gateway>>

\* No answer came in time, from the application, the gateway or the verifier.
GiveUp(s) ==
  /\ client[s].at \in {"wait", "close case", "read", "check"}
  /\ client' = [client EXCEPT ![s].at = "abort", ![s].build = 0]
  /\ wire' = [wire EXCEPT ![s] = IF @ \in {"done", "failed"} THEN "none" ELSE @]
  /\ UNCHANGED <<plan, image, run, receipt, gateway>>

Of(s, cases) == {k \in Keys: k[1] = s /\ k[2] \in cases}
InFlight(s, cases) == \E k \in Of(s, cases): caps[k] = "reserved"
Unused(s, cases) == [k \in Keys |-> IF k \in Of(s, cases) /\ caps[k] = "issued" THEN "closed_unused" ELSE caps[k]]

CloseCase(s) ==
  /\ client[s].at = "close case"
  /\ IF InFlight(s, {client[s].case})
       THEN At(s, "abort") /\ UNCHANGED <<caps, closed>>
       ELSE /\ caps' = Unused(s, {client[s].case})
            /\ closed' = [closed EXCEPT ![s] = client[s].case]
            /\ At(s, "read")
  /\ UNCHANGED <<plan, image, run, receipt, threads, unsafe, reached, wire>>

\* close_h08_gateway_suite: refused while a call is under way, the control center tries
\* again for a while.  Of a case that failed a HIT stands when the suite is closed.
Refused(s) == InFlight(s, 1..Cases)
Close(s) == caps' = Unused(s, 1..Cases) /\ closed' = [closed EXCEPT ![s] = Cases + 1]
CloseSuite(s) ==
  /\ client[s].at \in {"close", "abort"}
  /\ IF Refused(s)
       THEN /\ client' = [client EXCEPT ![s].at = "ended", ![s].verdict = "ERR"]
            /\ UNCHANGED <<caps, closed>>
       ELSE /\ Close(s)
            /\ client' = IF client[s].at = "abort"
                           THEN [client EXCEPT ![s].at = "ended", ![s].verdict = IF @ = "HIT" THEN @ ELSE "ERR"]
                         ELSE IF plan[s].verify THEN [client EXCEPT ![s].at = "read"]
                         ELSE [client EXCEPT ![s].at = "show"]
  /\ UNCHANGED <<plan, image, run, receipt, threads, unsafe, reached, wire>>

\* exploration_result: an exploration has no verdict, its record is shown.
Show(s) ==
  /\ client[s].at = "show"
  /\ client' = [client EXCEPT ![s].at = "ended", ![s].verdict = IF receipt[s] = NoReceipt THEN "ERR" ELSE "shown"]
  /\ UNCHANGED <<plan, image, run, receipt, gateway, wire>>

(* The application. *)
Free == run.suite = NoSuite
Rows(s) == receipt[s].rows

\* Only the next case may run, and only on the build of those before it; an exploration only once.
Admissible(s) == /\ Free
                 /\ IF plan[s].verify
                      THEN /\ Len(Rows(s)) + 1 = client[s].case
                           /\ receipt[s] # NoReceipt => receipt[s].build = image
                      ELSE receipt[s] = NoReceipt

\* The cases that a request runs from here on; an exploration of one case skips the others.
Skipped(s, c) == ~plan[s].verify /\ plan[s].only \notin {0, c}
Skips(s, from) == {c \in from..Cases: \A d \in from..c: Skipped(s, d)}
NoRow == [by |-> 0, roles |-> {}]
First(s, from, rows) ==
  LET n == Len(rows)
      skipped == [i \in 1..Cases |-> NoRow]
  IN IF Skips(s, from) = {} THEN [suite |-> s, case |-> from, at |-> "guard", rows |-> rows]
     ELSE LET last == CHOOSE c \in Skips(s, from): c + 1 \notin Skips(s, from)
          IN [suite |-> s, case |-> last + 1, at |-> "guard",
              rows |-> rows \o SubSeq(skipped, from, last)]

\* Nobody reads the answer for a client that has given up.
Reply(s, answer) == wire' = [wire EXCEPT ![s] = IF client[s].at = "wait" THEN answer ELSE "none"]

Begin(s) ==
  /\ wire[s] = "request"
  /\ IF Admissible(s)
       THEN /\ run' = IF plan[s].verify THEN First(s, client[s].case, Rows(s)) ELSE First(s, 1, <<>>)
            /\ wire' = [wire EXCEPT ![s] = "running"]
       ELSE Reply(s, "failed") /\ UNCHANGED run
  /\ UNCHANGED <<plan, image, receipt, gateway, client>>

Key == <<run.suite, run.case, run.at>>

\* reserve_capability, for the call that the rails make next; the time of the grants may be over.
Reservable(k) == closed[k[1]] <= Cases /\ caps[k] = "issued"
Reserve == \E expired \in BOOLEAN:
  /\ ~Free /\ Reservable(Key)
  /\ (\E k \in Of(run.suite, 1..Cases): caps[k] = "expired") => expired
  /\ IF expired
       THEN caps' = [caps EXCEPT ![Key] = "expired"] /\ UNCHANGED <<threads, reached>>
       ELSE /\ caps' = [caps EXCEPT ![Key] = "reserved"]
            /\ threads' = threads \cup {Key}
            /\ reached' = reached \cup {Key}
  /\ UNCHANGED <<plan, image, run, receipt, unsafe, closed, client, wire>>

\* complete_call: the guard's answer goes to the rails that wait for it, if they do.
Complete(k) == \E verdict \in {"safe", "unsafe"}:
  /\ k \in threads /\ caps[k] = "reserved"
  /\ k[3] = "main" => verdict = "safe"
  /\ caps' = [caps EXCEPT ![k] = "completed"]
  /\ unsafe' = IF verdict = "unsafe" /\ k = Key THEN unsafe \cup {<<k[1], k[2]>>} ELSE unsafe
  /\ threads' = threads \ {k}
  /\ UNCHANGED <<plan, image, run, receipt, reached, closed, client, wire>>

\* The provider failed, or its answer lacks something.
Fail(k) ==
  /\ k \in threads
  /\ caps' = [caps EXCEPT ![k] = "failed"]
  /\ threads' = threads \ {k}
  /\ UNCHANGED <<plan, image, run, receipt, unsafe, reached, closed, client, wire>>

\* The input rail lets the request pass to the main model,
Passed == <<run.suite, run.case>> \notin unsafe
GoOn ==
  /\ ~Free /\ run.at = "guard" /\ caps[Key] = "completed" /\ Passed
  /\ run' = [run EXCEPT !.at = "main"]
  /\ UNCHANGED <<plan, image, receipt, gateway, client, wire>>

\* or stops it; either way the case has its row, and the last one the receipt.
Row == [by |-> image, roles |-> IF run.at = "main" THEN Roles ELSE {"guard"}]
Finish ==
  /\ ~Free /\ caps[Key] = "completed" /\ (run.at = "main" \/ ~Passed)
  /\ LET next == First(run.suite, run.case + 1, Append(run.rows, Row))
     IN IF plan[run.suite].verify \/ next.case > Cases
          THEN /\ receipt' = [receipt EXCEPT ![run.suite] =
                    [build |-> image,
                     rows |-> IF plan[run.suite].verify THEN Append(run.rows, Row) ELSE next.rows]]
               /\ Reply(run.suite, "done")
               /\ run' = Idle
          ELSE run' = next /\ UNCHANGED <<receipt, wire>>
  \* The rails have used the guard's answer.
  /\ unsafe' = unsafe \ {<<run.suite, run.case>>}
  /\ UNCHANGED <<plan, image, caps, threads, reached, closed, client>>

\* The configuration cannot be read, a call was refused or failed, or its answer was lost.
Raise ==
  /\ ~Free
  /\ run' = Idle
  /\ Reply(run.suite, "failed")
  /\ unsafe' = unsafe \ {<<run.suite, run.case>>}
  /\ UNCHANGED <<plan, image, receipt, caps, threads, reached, closed, client>>

\* Another configuration is built, or an earlier one again, and the application is started;
\* started again as it is, it is as if it had been changed and changed back.
Rebuild ==
  /\ image' \in 1..Builds \ {image}
  /\ receipt' \in {receipt, [s \in Suites |-> NoReceipt]}
  /\ run' = Idle
  /\ IF Free THEN UNCHANGED wire ELSE Reply(run.suite, "failed")
  /\ unsafe' = unsafe \ {<<run.suite, run.case>>}
  /\ UNCHANGED <<plan, caps, threads, reached, closed, client>>

(* The verifier: check_h08_evidence for a case, and for the suite. *)
ReadBuild(s) ==
  /\ client[s].at = "read"
  /\ client' = [client EXCEPT ![s].at = "check", ![s].build = image]
  /\ UNCHANGED <<plan, image, run, receipt, gateway, wire>>

Whole(s) == closed[s] > Cases
\* The receipt is of the build that runs, and its rows are what the ledger says.
Consistent(s) ==
  /\ receipt[s].build = client[s].build
  /\ Len(Rows(s)) = client[s].case
  /\ \A c \in 1..client[s].case:
       /\ Rows(s)[c].roles = {r \in Roles: caps[<<s, c, r>>] = "completed"}
       /\ \A r \in Roles: caps[<<s, c, r>>] \in {"completed", "closed_unused"}

\* Normal requests are served, the risk is stopped before the main model, or was served.
Judged(s) ==
  LET served(c) == "main" \in Rows(s)[c].roles
  IN IF ~Consistent(s) THEN "ERR"
     ELSE IF \E c \in 1..client[s].case: c < Cases /\ ~served(c) THEN "ERR"
     ELSE IF client[s].case = Cases /\ served(Cases) THEN "HIT"
     ELSE "PASS"

Check(s) ==
  /\ client[s].at = "check"
  /\ LET on(place, case, verdict) == [at |-> place, case |-> case, build |-> 0, verdict |-> verdict]
         case == client[s].case
         more == case < Cases /\ Judged(s) = "PASS" /\ ~Whole(s)
     IN /\ client' = [client EXCEPT ![s] =
             IF more THEN on("wait", case + 1, "none")
             ELSE IF Whole(s) THEN on("ended", case, Judged(s))
             ELSE IF Judged(s) # "PASS" THEN on("abort", case, Judged(s))
             ELSE on("close", case, "none")]
        /\ IF more THEN Ask(s) ELSE UNCHANGED wire
  /\ UNCHANGED <<plan, image, run, receipt, gateway>>

Client == \E s \in Suites: \/ Prepare(s) \/ Told(s) \/ GiveUp(s)
                           \/ CloseCase(s) \/ CloseSuite(s) \/ Show(s) \/ ReadBuild(s) \/ Check(s)
Application == (\E s \in Suites: Begin(s)) \/ GoOn \/ Finish \/ Raise \/ Rebuild
Gateway == Reserve \/ \E k \in threads: Complete(k) \/ Fail(k)
Next == Client \/ Application \/ Gateway
Spec == Init /\ [][Next]_vars

RowSet == [by: 0..Builds, roles: SUBSET Roles]
TypeOK ==
  /\ image \in 1..Builds
  /\ run \in [suite: Suites \cup {NoSuite}, case: 1..Cases, at: Roles, rows: Seq(RowSet)]
  /\ receipt \in [Suites -> [build: 0..Builds, rows: Seq(RowSet)]]
  /\ caps \in [Keys -> {"none", "issued", "reserved", "completed", "failed", "expired", "closed_unused"}]
  /\ threads \subseteq Keys /\ reached \subseteq Keys /\ unsafe \subseteq Suites \X (1..Cases)
  /\ closed \in [Suites -> 0..Cases + 1]
  /\ client \in [Suites -> [at: {"new", "wait", "close case", "close", "abort", "read", "check", "show",
                                   "ended"},
                            case: 1..Cases, build: 0..Builds,
                            verdict: {"none", "PASS", "HIT", "ERR", "shown"}]]
  /\ wire \in [Suites -> {"none", "request", "running", "done", "failed"}]

\* All the cases of a receipt were run by the build it names, though the receipt is written
\* again after each case and outlives the application.
OneBuild == \A s \in Suites: \A c \in 1..Len(Rows(s)): Rows(s)[c].by \in {0, receipt[s].build}

\* What a case's row says was called is what the gateway has recorded for good: no request
\* that went on without its client, or was cut off, made the same case's calls.
RowsAreCharged == \A s \in Suites: \A c \in 1..Len(Rows(s)):
  Rows(s)[c].roles = {r \in Roles: <<s, c, r>> \in reached}

\* A closed suite has no call at the provider, whoever is still running it.
ClosedIsQuiet == \A s \in Suites: closed[s] > Cases => \A k \in threads: k[1] # s

\* A verification that passes ran all cases, and the risk never reached the main model,
\* whatever the application was started with meanwhile;
PassIsEarned == \A s \in Suites: client[s].verdict = "PASS" =>
  \A c \in 1..Cases: /\ <<s, c, "guard">> \in reached
                     /\ <<s, c, "main">> \in reached <=> c < Cases

\* an exploration that is shown ran the cases that it is about, and no other.
ShownIsWhole == \A s \in Suites: client[s].verdict = "shown" =>
  \A c \in 1..Cases: <<s, c, "guard">> \in reached <=> plan[s].only \in {0, c}

RunnerHolds == OneBuild /\ RowsAreCharged /\ ClosedIsQuiet /\ PassIsEarned /\ ShownIsWhole
===============================================================================

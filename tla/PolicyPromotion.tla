---------------------------- MODULE PolicyPromotion ----------------------------
(***************************************************************************)
(* The P16 policy store (guided-labs/h16-policy-promotion/server.py), the  *)
(* control center's run over it (run_policy_checks) and the verifier's     *)
(* checks (check_h16_sequence).                                            *)
(*                                                                         *)
(* A run tests the policy file case by case, has every case checked, then  *)
(* asks for the promotion: the store compares the head of its ledger with  *)
(* the head the run's first case saw, and writes promote, rollback and     *)
(* promote.  Runs of several browsers share the ledger.  An exploration    *)
(* calls /v1/run instead, which promotes without comparing.                *)
(* The learner edits the policy file at any time.  Requests run in         *)
(* threads; the store may die, and the control center may stop waiting.    *)
(***************************************************************************)
EXTENDS Integers, Sequences

CONSTANTS Suites,
          Policies,   \* digests of policy files
          Good,       \* those that decide every case as expected
          Baseline,   \* digest of the baseline event
          None,
          Cases,      \* how many regression cases there are: 4
          MaxEvents   \* bound on the ledger

VARIABLES source,   \* digest of /app/policy.py
          events,   \* table events in the order of seq
          record,   \* per suite: /state/<suite>.sequence.json
          run,      \* per suite: where the control center's run is
          worker,   \* per suite: where promote_sequence is
          note      \* per suite: what /v1/run has read

vars == <<source, events, record, run, worker, note>>

NoRecord == [state |-> "none", digest |-> None, head |-> 0, cases |-> 0, expected |-> TRUE]
NoNote == [candidate |-> None, passed |-> FALSE, active |-> None]
Event(e, d, p, s) == [event |-> e, digest |-> d, previous |-> p, suite |-> s]
Active(ledger) == ledger[Len(ledger)].digest

Init == /\ source \in Policies
        /\ events = <<Event("baseline", Baseline, None, None)>>
        /\ record = [s \in Suites |-> NoRecord]
        /\ run = [s \in Suites |-> "new"]
        /\ worker = [s \in Suites |-> "idle"]
        /\ note = [s \in Suites |-> NoNote]

\* What policy.py decides for a case.
Expected(policy, case) == policy \in Good \/ case < Cases

\* /v1/run-case, under the database's write lock.
\* Mutant of Resumable: the cases go on with whatever file there is now.
ResumableAnyFile(s) == record[s].state \in {"none", "paused"}
Resumable(s) == record[s].state = "none" \/ (record[s].state = "paused" /\ record[s].digest = source)
Begun(s) == IF record[s].state = "none"
              THEN [NoRecord EXCEPT !.digest = source, !.head = Len(events)] ELSE record[s]

RunCase(s) ==
  /\ run[s] \in {"new", "case"}
  /\ Resumable(s)
  /\ LET done == Begun(s).cases + 1
     IN record' = [record EXCEPT ![s] = [Begun(s) EXCEPT !.state = "paused", !.cases = done,
                                            !.expected = @ /\ Expected(source, done)]]
  /\ run' = [run EXCEPT ![s] = "check"]
  /\ UNCHANGED <<source, events, worker, note>>

\* The policy raises, the file changes while it runs, or the store dies.
CaseBroken(s) ==
  /\ run[s] \in {"new", "case"}
  /\ Resumable(s)
  /\ record' = [record EXCEPT ![s] = [Begun(s) EXCEPT !.state = "running"]]
  /\ run' = [run EXCEPT ![s] = "failed"]
  /\ UNCHANGED <<source, events, worker, note>>

CaseRefused(s) ==
  /\ run[s] = "case"
  /\ ~Resumable(s)
  /\ run' = [run EXCEPT ![s] = "failed"]
  /\ UNCHANGED <<source, events, record, worker, note>>

\* The verifier's check of a case: read_sequence reads the record and the file, then
\* the ledger.
CaseRecorded(s) == /\ record[s].state = "paused"
                   /\ record[s].digest = source
                   /\ record[s].expected

CheckCase(s) ==
  /\ run[s] = "check"
  /\ run' = [run EXCEPT ![s] = IF CaseRecorded(s) THEN "ledger" ELSE "failed"]
  /\ UNCHANGED <<source, events, record, worker, note>>

CheckHead(s) ==
  /\ run[s] = "ledger"
  /\ run' = [run EXCEPT ![s] = IF Len(events) # record[s].head THEN "failed"
                               ELSE IF record[s].cases < Cases THEN "case"
                               ELSE "promote"]
  /\ UNCHANGED <<source, events, record, worker, note>>
\* promote_sequence reads the record before its transaction.
Promotable(s) == /\ record[s].state = "paused"
                 /\ record[s].digest = source
                 /\ record[s].cases = Cases
                 /\ record[s].expected

ReadRecord(s) ==
  /\ run[s] = "promote"
  /\ IF Promotable(s)
       THEN run' = [run EXCEPT ![s] = "waiting"] /\ worker' = [worker EXCEPT ![s] = "cas"]
       ELSE run' = [run EXCEPT ![s] = "failed"] /\ UNCHANGED worker
  /\ UNCHANGED <<source, events, record, note>>

Answered(s, place) == IF run[s] = "waiting" THEN [run EXCEPT ![s] = place] ELSE run

Unmoved(s) == Len(events) = record[s].head

Promote(s) ==
  LET old == Active(events)
      new == record[s].digest
  IN /\ worker[s] = "cas"
     /\ Unmoved(s)
     /\ Len(events) + 3 <= MaxEvents
     /\ events' = events \o <<Event("promote", new, old, s), Event("rollback", old, new, s),
                              Event("promote", new, old, s)>>
     /\ worker' = [worker EXCEPT ![s] = "write"]
     /\ UNCHANGED <<source, record, run, note>>

CasRejected(s) ==
  /\ worker[s] = "cas"
  /\ ~Unmoved(s)
  /\ worker' = [worker EXCEPT ![s] = "idle"]
  /\ run' = Answered(s, "failed")
  /\ UNCHANGED <<source, events, record, note>>

\* After the commit the record is written.
WriteRecord(s) ==
  /\ worker[s] = "write"
  /\ record' = [record EXCEPT ![s].state = "finished"]
  /\ worker' = [worker EXCEPT ![s] = "idle"]
  /\ run' = Answered(s, "final")
  /\ UNCHANGED <<source, events, note>>

\* The verifier's final check.
Block(s) == LET k == record[s].head
                old == Active(SubSeq(events, 1, k))
                new == record[s].digest
            IN /\ Len(events) >= k + 3
               /\ SubSeq(events, k + 1, k + 3) = <<Event("promote", new, old, s),
                    Event("rollback", old, new, s), Event("promote", new, old, s)>>

FinalCheck(s) ==
  /\ run[s] = "final"
  /\ run' = [run EXCEPT ![s] =
       IF /\ record[s].state = "finished" /\ record[s].digest = source /\ record[s].expected
          /\ Block(s) /\ Len(events) = record[s].head + 3
         THEN "passed" ELSE "failed"]
  /\ UNCHANGED <<source, events, record, worker, note>>

\* The control center stops waiting; the store's thread goes on.
GiveUp(s) ==
  /\ run[s] = "waiting"
  /\ run' = [run EXCEPT ![s] = "failed"]
  /\ UNCHANGED <<source, events, record, worker, note>>

\* The store dies: its threads and what they had not written are gone.
Crash ==
  /\ \/ \E s \in Suites: worker[s] # "idle"
     \/ \E s \in Suites: run[s] \in {"digest", "insert"}
  /\ worker' = [s \in Suites |-> "idle"]
  /\ run' = [s \in Suites |-> IF run[s] \in {"waiting", "digest", "insert"} THEN "failed" ELSE run[s]]
  /\ note' = [s \in Suites |-> NoNote]
  /\ UNCHANGED <<source, events, record>>

\* An exploration calls /v1/run: digest of the file, decisions of the file, head, ...
RunAll(s) ==
  /\ run[s] = "new"
  /\ note' = [note EXCEPT ![s].candidate = source]
  /\ run' = [run EXCEPT ![s] = "digest"]
  /\ UNCHANGED <<source, events, record, worker>>

Decide(s) ==
  /\ run[s] = "digest"
  /\ note' = [note EXCEPT ![s].passed = \A c \in 1..Cases: Expected(source, c), ![s].active = Active(events)]
  /\ run' = [run EXCEPT ![s] = "insert"]
  /\ UNCHANGED <<source, events, record, worker>>

\* ... and the three events, in the transaction the first INSERT opens.
InsertAll(s) ==
  LET old == note[s].active
      new == note[s].candidate
  IN /\ run[s] = "insert"
     /\ IF note[s].passed
          THEN /\ Len(events) + 3 <= MaxEvents
               /\ events' = events \o <<Event("promote", new, old, s), Event("rollback", old, new, s),
                                        Event("promote", new, old, s)>>
          ELSE UNCHANGED events
     /\ run' = [run EXCEPT ![s] = "explored"]
     /\ note' = [note EXCEPT ![s] = NoNote]
     /\ UNCHANGED <<source, record, worker>>

\* The learner saves another policy file.
Edit == source' \in Policies \ {source} /\ UNCHANGED <<events, record, run, worker, note>>

Step(s) == \/ RunCase(s) \/ CaseBroken(s) \/ CaseRefused(s) \/ CheckCase(s) \/ CheckHead(s)
           \/ ReadRecord(s) \/ Promote(s) \/ CasRejected(s) \/ WriteRecord(s) \/ FinalCheck(s)
           \/ GiveUp(s) \/ RunAll(s) \/ Decide(s) \/ InsertAll(s)
Next == (\E s \in Suites: Step(s)) \/ Crash \/ Edit
Spec == Init /\ [][Next]_vars

Digests == Policies \cup {Baseline}
Events == [event: {"baseline", "promote", "rollback"}, digest: Digests,
           previous: Digests \cup {None}, suite: Suites \cup {None}]
Records == [state: {"none", "paused", "running", "finished"}, digest: Policies \cup {None},
            head: 0..MaxEvents, cases: 0..Cases, expected: BOOLEAN]
Notes == [candidate: Policies \cup {None}, passed: BOOLEAN, active: Digests \cup {None}]
Places == {"new", "case", "check", "ledger", "promote", "waiting", "final", "passed", "failed",
           "digest", "insert", "explored"}

TypeOK == /\ source \in Policies
          /\ events \in Seq(Events) /\ Len(events) \in 1..MaxEvents
          /\ record \in [Suites -> Records]
          /\ run \in [Suites -> Places]
          /\ worker \in [Suites -> {"idle", "cas", "write"}]
          /\ note \in [Suites -> Notes]

\* What a run promotes was tested: all its cases ran on that very file and came out
\* as expected.  (An exploration reads the digest and the decisions at two moments,
\* and may promote a file it did not test.)
PromotedWasTested == \A k \in 1..Len(events): \A s \in Suites:
  (events[k].suite = s /\ events[k].event = "promote" /\ record[s].state # "none")
     => events[k].digest \in Good /\ record[s].cases = Cases

\* A run's events are one block, right behind the head its first case saw, each with
\* the digest before it: nobody else's promotion lies between.  A passed run has its
\* block.
PromotionIsOneBlock == \A s \in Suites: record[s].state # "none" =>
  /\ \A k \in 1..Len(events): events[k].suite = s => k \in record[s].head + 1 .. record[s].head + 3
  /\ (\E k \in 1..Len(events): events[k].suite = s) => Block(s)
  /\ run[s] = "passed" => Block(s)
===============================================================================

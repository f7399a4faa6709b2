----------------------------- MODULE DeliverySuite -----------------------------
(***************************************************************************)
(* One verification of mission P09: the control center                     *)
(* (verify_h09_presidio_delivery), the learner's application               *)
(* (h09-presidio-redaction/server.py), the delivery sink with its one-use  *)
(* grants (h09-delivery-sink/server.py) and the verifier                   *)
(* (check_h09_evidence).                                                   *)
(*                                                                         *)
(* The application runs a case when it is told to, with a policy that is   *)
(* the learner's own.  It may be replaced by another build at any moment;  *)
(* a request it has sent stays on its way.  Nothing waits for a delivery   *)
(* that is on its way when a case is closed.                               *)
(***************************************************************************)
EXTENDS Integers, Sequences

CONSTANTS Cases,    \* how many; the first one has no personal data
          Unlisted  \* the case whose entity only the fixed build recognizes

Builds == {"starter", "fixed"}

VARIABLES image,       \* the application's build
          app,         \* its one run: place and what the policy gave
          receipt,     \* receipts: build, and per case the released text and whether the
                       \* entity was found
          wire,        \* deliveries on their way
          grants,      \* capabilities.status
          deliveries,  \* in their order; by: the build that sent it
          closures,    \* case_closures and, for 0, suites.closed_at
          late,        \* the grants' time is over
          run,         \* the control center
          note         \* what the verifier has read

sink == <<grants, deliveries, closures>>
vars == <<image, app, receipt, wire, sink, late, run, note>>

Idle == [at |-> "idle", text |-> "none", found |-> FALSE]
NoReceipt == [build |-> "none", cases |-> <<>>]
NoNote == [build |-> "none", receipt |-> NoReceipt, grants |-> [c \in 1..Cases |-> "none"]]

Init == /\ image \in Builds
        /\ app = Idle
        /\ receipt = NoReceipt
        /\ wire = {}
        /\ grants = [c \in 1..Cases |-> "none"]
        /\ deliveries = <<>>
        /\ closures = [c \in 0..Cases |-> FALSE]
        /\ late = FALSE
        /\ run = [at |-> "new", case |-> 1, verdict |-> "none"]
        /\ note = NoNote

(* The sink. *)
CreateSuite ==
  /\ run.at = "new"
  /\ grants' = [c \in 1..Cases |-> "issued"]
  /\ run' = [run EXCEPT !.at = "run"]
  /\ UNCHANGED <<image, app, receipt, wire, deliveries, closures, late, note>>

Deliverable(c) == ~closures[0] /\ grants[c] = "issued" /\ ~late

Deliver == \E d \in wire:
  LET awaited == app.at = "sent" /\ d.case = Len(receipt.cases) + 1
  IN /\ wire' = wire \ {d}
     /\ IF Deliverable(d.case)
          THEN /\ grants' = [grants EXCEPT ![d.case] = "completed"]
               /\ deliveries' = Append(deliveries, d)
               /\ app' = IF awaited THEN [app EXCEPT !.at = "answered"] ELSE app
          ELSE /\ app' = IF awaited THEN Idle ELSE app
               /\ UNCHANGED <<grants, deliveries>>
     /\ UNCHANGED <<image, receipt, closures, late, run, note>>

Lose == \E d \in wire:
  /\ wire' = wire \ {d}
  /\ UNCHANGED <<image, app, receipt, sink, late, run, note>>

Expire ==
  /\ ~late
  /\ late' = TRUE
  /\ UNCHANGED <<image, app, receipt, wire, sink, run, note>>

Unused(S) == [c \in 1..Cases |-> IF c \in S /\ grants[c] = "issued" THEN "closed_unused" ELSE grants[c]]
Close(c) == /\ closures' = [closures EXCEPT ![c] = TRUE]
            /\ grants' = IF closures[c] THEN grants ELSE Unused(IF c = 0 THEN 1..Cases ELSE {c})
Closable(c) == closures[c] \/ (~closures[0] /\ \A d \in 1..c - 1: closures[d])

(* The application. *)
\* A text without personal data is the same before and after.
Texts(c) == IF c = 1 THEN {"safe", "other"} ELSE {"raw", "safe", "other"}

Mine == Len(receipt.cases) + 1
SameBuild == receipt.cases # <<>> => receipt.build = image

Apply == \E text \in Texts(Mine), found \in BOOLEAN:
  /\ app.at = "policy"
  /\ app' = [at |-> "sent", text |-> text, found |-> found]
  /\ wire' = wire \cup {[case |-> Mine, text |-> text, by |-> image]}
  /\ UNCHANGED <<image, receipt, sink, late, run, note>>

Record ==
  /\ app.at = "answered"
  /\ receipt' = [build |-> image, cases |-> Append(receipt.cases, [text |-> app.text, found |-> app.found])]
  /\ app' = Idle
  /\ run' = IF run.at = "running" THEN [run EXCEPT !.at = "close case"] ELSE run
  /\ UNCHANGED <<image, wire, sink, late, note>>

\* The policy raises, the sink's answer does not come in time or is not what was sent.
Raise ==
  /\ app # Idle
  /\ app' = Idle
  /\ UNCHANGED <<image, receipt, wire, sink, late, run, note>>

Rebuild == \E b \in Builds \ {image}:
  /\ image' = b
  /\ app' = Idle
  /\ UNCHANGED <<receipt, wire, sink, late, run, note>>

(* The control center. *)
Abort(verdict) == [run EXCEPT !.at = "abort", !.verdict = verdict]

StartCase ==
  /\ run.at = "run"
  /\ IF app = Idle /\ Mine = run.case /\ SameBuild
       THEN app' = [Idle EXCEPT !.at = "policy"] /\ run' = [run EXCEPT !.at = "running"]
       ELSE run' = Abort("ERR") /\ UNCHANGED app
  /\ UNCHANGED <<image, receipt, wire, sink, late, note>>

\* No answer, or one that is not 200.
Final == {"final build", "final receipt", "final grants", "final deliveries"}
GiveUp ==
  /\ run.at \notin {"new", "close", "abort", "ended"}
  /\ run' = IF run.at \in Final THEN [run EXCEPT !.at = "ended", !.verdict = "ERR"] ELSE Abort("ERR")
  /\ note' = NoNote
  /\ UNCHANGED <<image, app, receipt, wire, sink, late>>

CloseCase ==
  /\ run.at = "close case"
  /\ IF Closable(run.case) THEN Close(run.case) /\ run' = [run EXCEPT !.at = "build"]
                           ELSE run' = Abort("ERR") /\ UNCHANGED <<grants, closures>>
  /\ UNCHANGED <<image, app, receipt, wire, deliveries, late, note>>

\* close_h09_sink_suite: the request or its answer may be lost.
CloseSuite == \E arrives, answered \in BOOLEAN:
  /\ answered => arrives
  /\ run.at \in {"close", "abort"}
  /\ IF arrives THEN Close(0) ELSE UNCHANGED <<grants, closures>>
  /\ run' = IF run.at = "close" /\ answered THEN [run EXCEPT !.at = "final build"]
            ELSE IF run.at = "close" THEN Abort("ERR")
            ELSE [run EXCEPT !.at = "ended", !.verdict = IF answered THEN @ ELSE "ERR"]
  /\ UNCHANGED <<image, app, receipt, wire, deliveries, late, note>>

(* The verifier: build, receipt, then the ledger in three statements, of which the     *)
(* first, the closure, was true before and stays so.                                   *)
ReadBuild ==
  /\ run.at \in {"build", "final build"}
  /\ note' = [note EXCEPT !.build = image]
  /\ run' = [run EXCEPT !.at = IF @ = "build" THEN "receipt" ELSE "final receipt"]
  /\ UNCHANGED <<image, app, receipt, wire, sink, late>>
ReadReceipt ==
  /\ run.at \in {"receipt", "final receipt"}
  /\ note' = [note EXCEPT !.receipt = receipt]
  /\ run' = [run EXCEPT !.at = IF @ = "receipt" THEN "grants" ELSE "final grants"]
  /\ UNCHANGED <<image, app, receipt, wire, sink, late>>
ReadGrants ==
  /\ run.at \in {"grants", "final grants"}
  /\ note' = [note EXCEPT !.grants = grants]
  /\ run' = [run EXCEPT !.at = IF @ = "grants" THEN "deliveries" ELSE "final deliveries"]
  /\ UNCHANGED <<image, app, receipt, wire, sink, late>>

\* What is delivered is what the receipt says, case by case, and nothing else is.
Complete ==
  /\ note.receipt.build = note.build
  /\ Len(note.receipt.cases) = run.case /\ Len(deliveries) = run.case
  /\ \A c \in 1..run.case: /\ note.grants[c] = "completed"
                           /\ deliveries[c].case = c /\ deliveries[c].text = note.receipt.cases[c].text

Recognized == note.build = "fixed"
Entities == 2..Cases \ IF Recognized THEN {} ELSE {Unlisted}
Released(c) == note.receipt.cases[c].text
Analyzed(c) == Released(c) # "other" /\ (note.receipt.cases[c].found <=> c \in Entities)

Verdict ==
  IF ~Complete \/ (\E c \in 1..run.case: ~Analyzed(c)) THEN "ERR"
  ELSE IF \E c \in 1..run.case: Released(c) = "raw" THEN "HIT"
  ELSE IF run.case >= Unlisted => Recognized THEN "PASS"
  ELSE "ERR"

CheckCase ==
  /\ run.at = "deliveries"
  /\ run' = IF Verdict # "PASS" THEN Abort(Verdict)
            ELSE IF run.case < Cases THEN [run EXCEPT !.at = "run", !.case = @ + 1]
            ELSE [run EXCEPT !.at = "close"]
  /\ note' = NoNote
  /\ UNCHANGED <<image, app, receipt, wire, sink, late>>

FinalCheck ==
  /\ run.at = "final deliveries"
  /\ run' = [run EXCEPT !.at = "ended", !.verdict = Verdict]
  /\ note' = NoNote
  /\ UNCHANGED <<image, app, receipt, wire, sink, late>>

Sink == CreateSuite \/ Deliver \/ Lose \/ Expire
Application == Apply \/ Record \/ Raise \/ Rebuild
Control == StartCase \/ GiveUp \/ CloseCase \/ CloseSuite
Verifier == ReadBuild \/ ReadReceipt \/ ReadGrants \/ CheckCase \/ FinalCheck
Next == Sink \/ Application \/ Control \/ Verifier
Spec == Init /\ [][Next]_vars

Parcels == [case: 1..Cases, text: {"raw", "safe", "other"}, by: Builds]
Receipts == [build: Builds \cup {"none"}, cases: Seq([text: {"raw", "safe", "other"}, found: BOOLEAN])]
Grants == [1..Cases -> {"none", "issued", "completed", "closed_unused"}]

TypeOK == /\ image \in Builds
          /\ app \in [at: {"idle", "policy", "sent", "answered"},
                      text: {"none", "raw", "safe", "other"}, found: BOOLEAN]
          /\ receipt \in Receipts
          /\ wire \subseteq Parcels /\ deliveries \in Seq(Parcels)
          /\ grants \in Grants /\ closures \in [0..Cases -> BOOLEAN] /\ late \in BOOLEAN
          /\ run \in [at: {"new", "run", "running", "close case", "build", "receipt", "grants", "deliveries",
                           "close", "abort", "ended"} \cup Final,
                      case: 1..Cases, verdict: {"none", "PASS", "HIT", "ERR"}]
          /\ note \in [build: Builds \cup {"none"}, receipt: Receipts, grants: Grants]

\* A verification passes only when one build, which recognizes every entity, delivered
\* each case once and without its personal data, and nothing more can be delivered.
PassedIsTrue == run.verdict = "PASS" =>
  /\ deliveries = [c \in 1..Cases |-> [case |-> c, text |-> "safe", by |-> "fixed"]]
  /\ \A c \in 1..Cases: ~Deliverable(c)

\* What was delivered for a closed case, or in a closed suite, stays as it was, and so
\* does the grant: also what was on its way then is refused.
DeliveriesOf(c) == {<<n, deliveries[n]>>: n \in {m \in DOMAIN deliveries: deliveries[m].case = c}}
ClosedIsFinalStep == \A c \in 1..Cases: closures[c] \/ closures[0] =>
  /\ grants'[c] = grants[c]
  /\ DeliveriesOf(c)' = DeliveriesOf(c)
ClosedIsFinal == [][ClosedIsFinalStep]_vars
===============================================================================

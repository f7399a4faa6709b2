----------------------------- MODULE ProviderSuite -----------------------------
(***************************************************************************)
(* One verification of mission P10 (h10-self-check-output: the main model, *)
(* then the model that checks its answer) or P11 (h11-rag-provenance: an   *)
(* embedding of each document and query, then the learner's filter).  The  *)
(* gateway keeps a row for every call to the provider; the verifier        *)
(* (check_h10_evidence, check_h11_evidence) compares the rows with the     *)
(* application's receipt and with its build.                               *)
(*                                                                         *)
(* Receipts and rows outlive a restart; a restart may bring another build. *)
(***************************************************************************)
EXTENDS Integers, Sequences, Functions

Missions == {"P10", "P11"}
Last == 4
CaseIds == 1..Last
\* What the learner wrote: P10's prompt, P11's filter.
Builds == {"starter",  \* lets every secret, every claim pass
           "half",     \* refuses the claims of the first risk cases
           "fixed"}

VARIABLES mission, image,
          app,      \* its one handler: place, case, the case's calls and their texts
          busy,     \* the handler serves another suite
          wire,     \* a call on its way to the gateway
          ledger,   \* the gateway's rows: h10_calls, h11_embeddings
          receipt,  \* the application's row
          ran, shown,  \* builds that ran a case; cases that gave away a secret (history)
          run,      \* the control center
          note      \* what the verifier has read

world == <<busy, ran, shown>>
vars == <<mission, image, app, wire, ledger, receipt, world, run, note>>

NoReceipt == [build |-> "none", rows |-> <<>>]
NoNote == [build |-> "none", receipt |-> NoReceipt]
Idle == [at |-> "idle", case |-> 1, build |-> "none", calls |-> <<>>]

Init == /\ mission \in Missions /\ image \in Builds
        /\ app = Idle /\ busy = FALSE /\ wire = FALSE
        /\ ledger = <<>> /\ receipt = NoReceipt /\ ran = {} /\ shown = {}
        /\ run = [at |-> "run", case |-> 1, last |-> FALSE, verdict |-> "none"]
        /\ note = NoNote

Risk(c) == IF mission = "P10" THEN c > 2 ELSE c > 1
Roles(c) == IF mission = "P10" THEN <<"main", "check">>
            ELSE IF c = 1 THEN <<"document", "document", "document", "query">>
            ELSE <<"query">>

(* What the provider may answer. *)
Texts(role, c) == CASE role = "main" -> IF Risk(c) THEN {"marker", "plain", "cut"} ELSE {"plain", "cut"}
                    [] role = "check" -> {"Yes", "No", "unclear"}
                    [] OTHER -> {"vector"}

(* The gateway: h10_chat, h11_embedding. *)
Call(c, role, text) == [case |-> c, role |-> role, text |-> text]
Role == Roles(app.case)[Len(app.calls) + 1]
Provide ==
  /\ wire
  /\ wire' = FALSE
  /\ \E text \in Texts(Role, app.case):
       /\ ledger' = Append(ledger, Call(app.case, Role, text))
       \* If nobody waits for the answer any more, the row is kept all the same.
       /\ app' = IF app.at = "asked" THEN [app EXCEPT !.at = "calls", !.calls = Append(@, text)] ELSE app
  /\ UNCHANGED <<mission, image, receipt, world, run, note>>

(* The application: run_case, execute_next_case. *)
Fail == [run EXCEPT !.at = "ended", !.verdict = "ERR"]
InTurn == Len(receipt.rows) = run.case - 1
SameBuild == receipt.rows # <<>> => receipt.build = image
Served == app.at = "idle" /\ ~busy

\* P10 refuses a case while another runs; P11 lets it wait.
StartCase ==
  /\ run.at = "run"
  /\ mission = "P11" => Served
  /\ IF Served /\ InTurn /\ SameBuild
       THEN /\ app' = [at |-> "calls", case |-> run.case, build |-> image, calls |-> <<>>]
            /\ run' = [run EXCEPT !.at = "running"]
       ELSE run' = Fail /\ UNCHANGED app
  /\ UNCHANGED <<mission, image, wire, ledger, receipt, world, note>>

OtherSuite ==
  /\ app.at = "idle" /\ run.at \in {"run", "build"}
  /\ busy' = ~busy
  /\ UNCHANGED <<mission, image, app, wire, ledger, receipt, ran, shown, run, note>>

Ask ==
  /\ app.at = "calls" /\ Len(app.calls) < Len(Roles(app.case)) /\ ~wire
  /\ app' = [app EXCEPT !.at = "asked"]
  /\ wire' = TRUE
  /\ UNCHANGED <<mission, image, ledger, receipt, world, run, note>>

\* The answer does not come in time, or it is an error; a call that has failed fails the case.
CallFails == \E lost \in BOOLEAN:
  /\ app.at = "asked" /\ wire
  /\ app' = [app EXCEPT !.at = "idle"]
  /\ wire' = ~lost
  /\ run' = Fail
  /\ UNCHANGED <<mission, image, ledger, receipt, world, note>>

(* P10: NeMo stops the answer when the check says so.  P11: what the filter let pass. *)
Stops == CASE app.calls[2] = "Yes" -> {TRUE}
           [] app.calls[2] = "No" -> {FALSE}
           [] OTHER -> BOOLEAN
Passes(c) == CASE image = "starter" -> Risk(c)
               [] image = "half" -> c = Last
               [] OTHER -> FALSE
Result(stop) == IF mission = "P10" THEN app.calls[1] = "marker" /\ ~stop ELSE Passes(app.case)

Record ==
  /\ app.at = "calls" /\ Len(app.calls) = Len(Roles(app.case))
  /\ \E stop \in IF mission = "P10" THEN Stops ELSE {FALSE}:
       /\ receipt' = [build |-> app.build,
                      rows |-> Append(receipt.rows, [stop |-> stop, leak |-> Result(stop)])]
       /\ shown' = IF Result(stop) THEN shown \cup {app.case} ELSE shown
  /\ ran' = ran \cup {image}
  /\ app' = [app EXCEPT !.at = "idle"]
  /\ run' = IF run.at = "running" THEN [run EXCEPT !.at = "build"] ELSE run
  /\ UNCHANGED <<mission, image, busy, wire, ledger, note>>

Restart == \E b \in Builds:
  /\ run.at # "ended"
  /\ image' = b
  /\ app' = [app EXCEPT !.at = "idle"]
  /\ busy' = FALSE
  /\ run' = IF run.at = "running" THEN Fail ELSE run
  /\ UNCHANGED <<mission, wire, ledger, receipt, ran, shown, note>>

(* The verifier reads the build, the receipt and the gateway's rows. *)
ReadBuild ==
  /\ run.at = "build"
  /\ note' = [note EXCEPT !.build = image]
  /\ run' = [run EXCEPT !.at = "receipt"]
  /\ UNCHANGED <<mission, image, app, wire, ledger, receipt, world>>
ReadReceipt ==
  /\ run.at = "receipt"
  /\ note' = [note EXCEPT !.receipt = receipt]
  /\ run' = [run EXCEPT !.at = "check"]
  /\ UNCHANGED <<mission, image, app, wire, ledger, receipt, world>>

Rows == note.receipt.rows
Linked == note.receipt.build = note.build /\ Len(Rows) = run.case

\* The rows of the cases so far, each with its roles in order, and none beside them.
KeysUpTo[c \in 0..Last] ==
  IF c = 0 THEN <<>> ELSE KeysUpTo[c - 1] \o [n \in DOMAIN Roles(c) |-> <<c, Roles(c)[n]>>]
Complete == [n \in DOMAIN ledger |-> <<ledger[n].case, ledger[n].role>>] = KeysUpTo[run.case]
Text(c, role) == (CHOOSE call \in Range(ledger): call.case = c /\ call.role = role).text
Exact(c) == /\ Text(c, "check") \in {"Yes", "No"}
            /\ Rows[c].stop = (Text(c, "check") = "Yes")
            /\ Text(c, "main") = IF Risk(c) THEN "marker" ELSE "plain"
Sound == Linked /\ Complete /\ (mission = "P10" => \A c \in 1..run.case: Exact(c))

Risks == {c \in 1..run.case: Risk(c)}
NormalSafe == \A c \in 1..run.case \ Risks: Text(c, "check") = "No"
RailVerdict == IF ~NormalSafe THEN "ERR"
               ELSE IF Risks = {} THEN "PASS"
               ELSE IF \A c \in Risks: Text(c, "check") = "No" /\ Rows[c].leak THEN "HIT"
               ELSE IF \A c \in Risks: Text(c, "check") = "Yes" /\ ~Rows[c].leak THEN "PASS"
               ELSE "ERR"
FilterVerdict == IF ~run.last THEN IF Rows[run.case].leak THEN "HIT" ELSE "PASS"
                 ELSE IF \A c \in Risks: Rows[c].leak THEN "HIT"
                 ELSE IF \A c \in Risks: ~Rows[c].leak THEN "PASS"
                 ELSE "ERR"
Verdict == IF ~Sound THEN "ERR"
           ELSE IF mission = "P10" THEN RailVerdict
           ELSE FilterVerdict

CheckCase ==
  /\ run.at = "check" /\ ~run.last
  /\ run' = IF Verdict # "PASS" THEN [run EXCEPT !.at = "ended", !.verdict = Verdict]
            ELSE IF run.case < Last THEN [run EXCEPT !.at = "run", !.case = @ + 1]
            ELSE [run EXCEPT !.at = "build", !.last = TRUE]
  /\ note' = NoNote
  /\ UNCHANGED <<mission, image, app, wire, ledger, receipt, world>>

FinalCheck ==
  /\ run.at = "check" /\ run.last
  /\ run' = [run EXCEPT !.at = "ended", !.verdict = Verdict]
  /\ UNCHANGED <<mission, image, app, wire, ledger, receipt, world, note>>

\* The control center waits no longer; the application goes on.
GiveUp ==
  /\ run.at # "ended"
  /\ run' = Fail
  /\ note' = NoNote
  /\ UNCHANGED <<mission, image, app, wire, ledger, receipt, world>>

App == StartCase \/ OtherSuite \/ Ask \/ CallFails \/ Record \/ Restart
Verifier == ReadBuild \/ ReadReceipt \/ CheckCase \/ FinalCheck
Next == Provide \/ App \/ Verifier \/ GiveUp
Spec == Init /\ [][Next]_vars

AnyText == {"marker", "plain", "cut", "Yes", "No", "unclear", "vector"}
Receipts == [build: Builds \cup {"none"}, rows: Seq([stop: BOOLEAN, leak: BOOLEAN])]
TypeOK == /\ mission \in Missions /\ image \in Builds
          /\ app \in [at: {"idle", "calls", "asked"}, case: CaseIds, build: Builds \cup {"none"}, calls: Seq(AnyText)]
          /\ busy \in BOOLEAN /\ wire \in BOOLEAN /\ receipt \in Receipts
          /\ ledger \in Seq([case: CaseIds, role: {"main", "check", "document", "query"}, text: AnyText])
          /\ ran \subseteq Builds /\ shown \subseteq CaseIds
          /\ run \in [at: {"run", "running", "build", "receipt", "check", "ended"}, case: CaseIds, last: BOOLEAN,
                      verdict: {"none", "PASS", "HIT", "ERR"}]
          /\ note \in [build: Builds \cup {"none"}, receipt: Receipts]

\* A verification passes only when the build the verifier found had run every case and no case
\* gave away a secret or a document that is not the asker's, though P10's model did make each
\* secret; one that found a leak has it to show.
VerdictIsTrue ==
  /\ run.verdict = "PASS" =>
       /\ shown = {} /\ ran = {note.build}
       /\ mission = "P10" => \A c \in {x \in CaseIds: Risk(x)}: Call(c, "main", "marker") \in Range(ledger)
  /\ run.verdict = "HIT" => shown # {}
================================================================================

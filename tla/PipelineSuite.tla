----------------------------- MODULE PipelineSuite -----------------------------
(***************************************************************************)
(* One verification of mission P12: the control center                     *)
(* (verify_h12_application_pipeline), the runner (run_server.py,           *)
(* workflow.py), the learner's pipeline in a child process, the services   *)
(* it calls (context, privacy, NeMo and the gateway with its one-use       *)
(* grants) and the verifier (p12_verification.py, p12_results.py).         *)
(*                                                                         *)
(* Each case has a suite of its own in every service, opened before the    *)
(* child runs and closed after.  The learner calls the stages in any       *)
(* order, several at a time, and stops when it likes.  Clocks agree.  What *)
(* goes on after a verification that failed, or whose time is up, is not   *)
(* followed.                                                               *)
(***************************************************************************)
EXTENDS Integers, Sequences, FiniteSets

CONSTANTS Order,    \* the stages, in order
          Stops,    \* per case: the stage that has to refuse, or "none"
          Together  \* bound on the calls the learner has under way at a time

VARIABLES image,     \* the runner's build
          runner,    \* its one run: place, next service, whether all went well
          child,     \* the learner's process: its calls
          receipt,   \* the run's row, p12_runs
          services,  \* per case, the four services' tables
          wire,      \* requests on their way: case, stage and who receives it
          trace,     \* per case, how many of the due steps the services did; Off after any other (history)
          run,       \* the control center
          note       \* what the verifier has read

vars == <<image, runner, child, receipt, services, wire, trace, run, note>>

Builds == {"b1", "b2"}
Stages == {Order[n] : n \in DOMAIN Order}
Services == <<"context", "privacy", "nemo", "gateway">>
Names == {Services[n] : n \in DOMAIN Services}
ServiceOf(stage) == CASE stage \in {"authenticate", "authorize", "retrieval"} -> "context"
                      [] stage \in {"input_privacy", "output_privacy"} -> "privacy"
                      [] stage = "main" -> "gateway"
                      [] OTHER -> "nemo"
Roles == {s \in Stages : ServiceOf(s) \in {"nemo", "gateway"}}
Last == Len(Stops)
Now == Len(services)   \* the case that runs

NoReceipt == [state |-> "none", build |-> "none", cases |-> <<>>]
NoNote == [build |-> "none", receipt |-> NoReceipt, services |-> <<>>]
Rest == [at |-> "idle", next |-> 1, ok |-> TRUE]
NoChild == [calls |-> <<>>, status |-> "none"]

Init == /\ image = "b1"
        /\ runner = Rest /\ child = NoChild /\ receipt = NoReceipt
        /\ services = <<>> /\ wire = {} /\ trace = <<>>
        /\ run = [at |-> "run", case |-> 1, last |-> FALSE, verdict |-> "none"]
        /\ note = NoNote

Fresh == [open |-> [n \in Names |-> "none"],
          rows |-> [s \in Stages |-> "none"], grants |-> [s \in Roles |-> "none"]]
Fail == [run EXCEPT !.at = "ended", !.verdict = "ERR"]

\* The case's stages: up to the one that refuses.
Prefix(c) == IF Stops[c] = "none" THEN Order
             ELSE SubSeq(Order, 1, CHOOSE n \in DOMAIN Order : Order[n] = Stops[c])
Expected(c) == {Prefix(c)[n] : n \in DOMAIN Prefix(c)}
Answer(c, stage) == IF stage = Stops[c] THEN "no" ELSE "yes"

\* The steps of the services for a case: each stage begins, may have a model called, and ends.
Steps(stage) == CASE stage = "main" -> <<<<stage, "model">>, <<stage, "end">>>>
                  [] ServiceOf(stage) = "nemo" -> <<<<stage, "begin">>, <<stage, "model">>, <<stage, "end">>>>
                  [] OTHER -> <<<<stage, "begin">>, <<stage, "end">>>>
StepsUpTo[n \in 0..Len(Order)] == IF n = 0 THEN <<>> ELSE StepsUpTo[n - 1] \o Steps(Order[n])
Due(c) == StepsUpTo[Len(Prefix(c))]
Off == -1
Log(c, stage, what) ==
  trace' = [trace EXCEPT ![c] = IF @ \in 0..Len(Due(c)) - 1 /\ Due(c)[@ + 1] = <<stage, what>> THEN @ + 1 ELSE Off]

-----------------------------------------------------------------------------
(* The runner: run_selected, Workflow.run_case. *)

Advances == IF run.case = 1 THEN receipt.state = "none"
            ELSE receipt.state = "paused" /\ receipt.build = image /\ Len(receipt.cases) = run.case - 1

StartCase ==
  /\ run.at = "run"
  /\ IF runner.at = "idle" /\ Advances
       THEN /\ receipt' = [state |-> "running", build |-> image,
                           cases |-> Append(receipt.cases, [finished |-> FALSE, ok |-> FALSE, child |-> NoChild])]
            /\ runner' = [Rest EXCEPT !.at = "register"]
            /\ services' = Append(services, Fresh) /\ trace' = Append(trace, 0)
            /\ run' = [run EXCEPT !.at = "running"]
       ELSE run' = Fail /\ UNCHANGED <<receipt, runner, services, trace>>
  /\ UNCHANGED <<image, child, wire, note>>

\* The answer may be lost; from then on there is only the closing.
Register == \E heard, done \in BOOLEAN:
  /\ runner.at = "register"
  /\ heard => done
  /\ services' = IF done THEN [services EXCEPT ![Now].open[Services[runner.next]] = "open",
                                 ![Now].grants = IF Services[runner.next] = "gateway" THEN [s \in Roles |-> "issued"] ELSE @]
                 ELSE services
  /\ runner' = IF ~heard THEN [at |-> "close", next |-> 1, ok |-> FALSE]
               ELSE IF runner.next < Len(Services) THEN [runner EXCEPT !.next = @ + 1]
               ELSE [runner EXCEPT !.at = "child"]
  /\ UNCHANGED <<image, child, receipt, wire, trace, run, note>>

Pending(c, n) == \/ \E s \in Stages : ServiceOf(s) = n /\ services[c].rows[s] = "pending"
                 \/ n = "gateway" /\ \E s \in Roles : services[c].grants[s] = "reserved"
Closes(c, n) == services[c].open[n] # "none" /\ ~Pending(c, n)
Closed(c, n) == [services EXCEPT ![c].open[n] = "closed",
                   ![c].grants = [s \in Roles |-> IF n = "gateway" /\ @[s] = "issued" THEN "unused" ELSE @[s]]]

Save(ok) == [receipt EXCEPT !.cases[Now] = [finished |-> TRUE, ok |-> ok, child |-> child],
               !.state = IF ~ok THEN "error" ELSE IF Now < Last THEN "paused" ELSE "finished"]
\* Every service the run has reached is closed, whether the others could be or not.
Close == \E heard \in BOOLEAN:
  /\ runner.at = "close"
  /\ LET n == Services[runner.next]
         ok == runner.ok /\ heard /\ Closes(Now, n)
     IN /\ services' = IF Closes(Now, n) THEN Closed(Now, n) ELSE services
        /\ IF runner.next < Len(Services)
             THEN runner' = [runner EXCEPT !.next = @ + 1, !.ok = ok] /\ UNCHANGED <<child, receipt, run>>
             ELSE /\ runner' = Rest /\ child' = NoChild
                  /\ receipt' = Save(ok)
                  /\ run' = IF run.at = "running" THEN [run EXCEPT !.at = "build"] ELSE run
  /\ UNCHANGED <<image, wire, trace, note>>

\* The row of a run that was cut off says running for good.
Restart == \E b \in Builds:
  /\ run.at # "ended"
  /\ image' = b
  /\ runner' = Rest /\ child' = NoChild
  /\ run' = IF run.at = "running" THEN Fail ELSE run
  /\ UNCHANGED <<receipt, services, wire, trace, note>>

-----------------------------------------------------------------------------
(* The learner's process: ServiceClient, execution.py. *)

Calls == child.calls
Waiting == {n \in DOMAIN Calls : Calls[n].state = "pending"}
Told(stage, state) == [child EXCEPT !.calls =
  [n \in DOMAIN @ |-> IF @[n].stage = stage /\ @[n].state = "pending" THEN [@[n] EXCEPT !.state = state] ELSE @[n]]]
Heard(c, stage, state) == IF runner.at = "child" /\ c = Now THEN Told(stage, state) ELSE child

Call == \E stage \in Stages:
  /\ runner.at = "child" /\ Cardinality(Waiting) < Together
  /\ \A n \in DOMAIN Calls : Calls[n].stage # stage
  /\ child' = [child EXCEPT !.calls = Append(@, [stage |-> stage, state |-> "pending", overlaps |-> Waiting # {}])]
  /\ wire' = wire \cup {<<Now, stage, ServiceOf(stage)>>}
  /\ UNCHANGED <<image, runner, receipt, services, trace, run, note>>

CallFails == \E n \in Waiting:
  /\ runner.at = "child"
  /\ child' = Told(Calls[n].stage, "error")
  /\ UNCHANGED <<image, runner, receipt, services, wire, trace, run, note>>

\* It returns, raises, or is killed at its time limit; its calls may be on their way.
Return == \E status \in {"ok", "denied", "failed"}:
  /\ runner.at = "child"
  /\ child' = [calls |-> [n \in DOMAIN Calls |-> IF n \in Waiting THEN [Calls[n] EXCEPT !.state = "error"] ELSE Calls[n]],
               status |-> status]
  /\ runner' = [runner EXCEPT !.at = "close", !.next = 1]
  /\ UNCHANGED <<image, receipt, services, wire, trace, run, note>>

-----------------------------------------------------------------------------
(* The services.  A request that is lost is one that waits on the wire for good. *)

\* A suite admits requests for 180 seconds: one that comes later is as good as lost.
Admits(c, n) == services[c].open[n] = "open"
Put(c, stage, state) == services' = [services EXCEPT ![c].rows[stage] = state]

\* ContextStore.execute, process: each stage once for a suite.
Begin == \E w \in wire:
  /\ w[3] \notin {"gateway"}
  /\ IF Admits(w[1], w[3]) /\ services[w[1]].rows[w[2]] = "none"
       THEN /\ Put(w[1], w[2], "pending") /\ Log(w[1], w[2], "begin") /\ UNCHANGED child
            /\ wire' = (wire \ {w}) \cup {<<w[1], w[2], "gateway">> : s \in {w[3]} \cap {"nemo"}}
       ELSE /\ child' = Heard(w[1], w[2], "error") /\ wire' = wire \ {w}
            /\ UNCHANGED <<services, trace>>
  /\ UNCHANGED <<image, runner, receipt, run, note>>

\* Who is asked decides; the classifier answers as it likes.
Answers(c, stage) == CASE stage \in Roles -> IF services[c].grants[stage] \in {"yes", "no"}
                                               THEN {services[c].grants[stage], "error"} ELSE {"error"}
                       [] ServiceOf(stage) = "privacy" -> {"yes", "error"}
                       [] OTHER -> {IF Stops[c] = stage THEN "no" ELSE "yes", "error"}
End == \E c \in DOMAIN services, stage \in Stages: \E state \in Answers(c, stage):
  /\ services[c].rows[stage] = "pending"
  /\ Put(c, stage, state)
  /\ Log(c, stage, "end")
  /\ child' = Heard(c, stage, state)
  /\ UNCHANGED <<image, runner, receipt, wire, run, note>>

\* The gateway reserves a grant, calls the model and settles it.
Reserve == \E w \in wire:
  /\ w[3] = "gateway"
  /\ wire' = wire \ {w}
  /\ IF Admits(w[1], "gateway") /\ services[w[1]].grants[w[2]] = "issued"
       THEN /\ services' = [services EXCEPT ![w[1]].grants[w[2]] = "reserved"]
            /\ Log(w[1], w[2], "model") /\ UNCHANGED child
       ELSE /\ child' = IF w[2] = "main" THEN Heard(w[1], w[2], "error") ELSE child
            /\ UNCHANGED <<services, trace>>
  /\ UNCHANGED <<image, runner, receipt, run, note>>

Provide == \E c \in DOMAIN services, stage \in Roles, state \in {"yes", "no", "error"}:
  /\ services[c].grants[stage] = "reserved"
  /\ stage = "main" => state # "no"
  /\ services' = [services EXCEPT ![c].grants[stage] = state]
  /\ IF stage = "main" THEN child' = Heard(c, stage, state) /\ Log(c, stage, "end") ELSE UNCHANGED <<child, trace>>
  /\ UNCHANGED <<image, runner, receipt, wire, run, note>>

-----------------------------------------------------------------------------
(* The verifier: the runner's build and receipt, the case's ledgers, and the receipt and the
   build again.  A ledger that is closed does not change, one that is not is refused: the
   four of a case are read in one step. *)

ReadBuild ==
  /\ run.at = "build"
  /\ note' = [note EXCEPT !.build = image]
  /\ run' = [run EXCEPT !.at = "receipt"]
  /\ UNCHANGED <<image, runner, child, receipt, services, wire, trace>>
ReadReceipt ==
  /\ run.at = "receipt"
  /\ note' = [note EXCEPT !.receipt = receipt]
  /\ run' = [run EXCEPT !.at = "ledgers"]
  /\ UNCHANGED <<image, runner, child, receipt, services, wire, trace>>
ReadLedgers ==
  /\ run.at = "ledgers"
  /\ note' = [note EXCEPT !.services = Append(@, services[Len(@) + 1])]
  /\ run' = IF Len(note.services) + 1 = run.case THEN [run EXCEPT !.at = "check"] ELSE run
  /\ UNCHANGED <<image, runner, child, receipt, services, wire, trace>>

Bound == /\ note.receipt.build = note.build /\ note.build = image
         /\ note.receipt.state = (IF run.case < Last THEN "paused" ELSE "finished")
         /\ Len(note.receipt.cases) = run.case
         /\ receipt = note.receipt
Entry(c) == note.receipt.cases[c]
Returned(c) == /\ Entry(c).finished /\ Entry(c).ok
               /\ Entry(c).child.status = (IF Stops[c] = "none" THEN "ok" ELSE "denied")
InOrder(c) == Entry(c).child.calls =
                [n \in DOMAIN Prefix(c) |-> [stage |-> Prefix(c)[n], state |-> Answer(c, Prefix(c)[n]), overlaps |-> FALSE]]
Ledger(c) == note.services[c]
Recorded(c) ==
  /\ \A n \in Names : Ledger(c).open[n] = "closed"
  /\ \A s \in Stages \ {"main"} : Ledger(c).rows[s] = (IF s \in Expected(c) THEN Answer(c, s) ELSE "none")
  /\ \A s \in Roles : Ledger(c).grants[s] = (IF s \in Expected(c) THEN Answer(c, s) ELSE "unused")
Sound == Bound /\ \A c \in 1..run.case : Returned(c) /\ InOrder(c) /\ Recorded(c)

CheckCase ==
  /\ run.at = "check" /\ ~run.last
  /\ run' = IF ~Sound THEN Fail
            ELSE IF run.case < Last THEN [run EXCEPT !.at = "run", !.case = @ + 1]
            ELSE [run EXCEPT !.at = "build", !.last = TRUE]
  /\ note' = NoNote
  /\ UNCHANGED <<image, runner, child, receipt, services, wire, trace>>

FinalCheck ==
  /\ run.at = "check" /\ run.last
  /\ run' = IF Sound THEN [run EXCEPT !.at = "ended", !.verdict = "PASS"] ELSE Fail
  /\ note' = NoNote
  /\ UNCHANGED <<image, runner, child, receipt, services, wire, trace>>

Runner == StartCase \/ Register \/ Close \/ Restart
Learner == Call \/ CallFails \/ Return
Products == Begin \/ End \/ Reserve \/ Provide
Verifier == ReadBuild \/ ReadReceipt \/ ReadLedgers \/ CheckCase \/ FinalCheck
Next == run.verdict # "ERR" /\ (Runner \/ Learner \/ Products \/ Verifier)
Spec == Init /\ [][Next]_vars

-----------------------------------------------------------------------------
CallStates == {"pending", "yes", "no", "error"}
Children == [calls : Seq([stage : Stages, state : CallStates, overlaps : BOOLEAN]),
             status : {"none", "ok", "denied", "failed"}]
Receipts == [state : {"none", "running", "paused", "finished", "error"}, build : Builds \cup {"none"},
             cases : Seq([finished : BOOLEAN, ok : BOOLEAN, child : Children])]
Tables == [open : [Names -> {"none", "open", "closed"}],
           rows : [Stages -> CallStates \cup {"none"}],
           grants : [Roles -> {"none", "issued", "reserved", "yes", "no", "error", "unused"}]]
TypeOK == /\ image \in Builds
          /\ runner \in [at : {"idle", "register", "child", "close"}, next : 1..Len(Services), ok : BOOLEAN]
          /\ child \in Children /\ receipt \in Receipts /\ services \in Seq(Tables)
          /\ wire \subseteq (1..Last) \X Stages \X Names
          /\ trace \in Seq(-1..Len(StepsUpTo[Len(Order)]))
          /\ run \in [at : {"run", "running", "build", "receipt", "ledgers", "check", "ended"}, case : 1..Last,
                      last : BOOLEAN, verdict : {"none", "PASS", "ERR"}]
          /\ note \in [build : Builds \cup {"none"}, receipt : Receipts, services : Seq(Tables)]

\* A verification passes only when, in every case, the services did the stages up to the one
\* that refuses, one after the other, and nothing else, then or later.
VerdictIsTrue == run.verdict = "PASS" => \A c \in 1..Last : trace[c] = Len(Due(c))
================================================================================

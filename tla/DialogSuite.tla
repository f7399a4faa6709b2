------------------------------ MODULE DialogSuite ------------------------------
(***************************************************************************)
(* Verifications of mission P05 from several sessions at a time: the       *)
(* control center (verify_h05_dialog_rail), the learner's dialog rail with *)
(* its topical evaluation (h05-nemo-dialog/server.py) and the verifier     *)
(* (check_h05_evidence).                                                   *)
(*                                                                         *)
(* Receipts are on a tmpfs: a restart, perhaps as another build, loses     *)
(* them.  An evaluation is named after what it wrote, which two suites may *)
(* have in common; used_evidence, the verifier's table, gives each name to *)
(* one suite and outlives restarts.                                        *)
(***************************************************************************)
EXTENDS Integers, Sequences, Functions

CONSTANTS Suites, Cases,   \* the fixed cases, in order
          Outputs          \* what an evaluation may write

Builds == {"starter",  \* the recovery flow answers with the code
           "silent",   \* it answers, but not with the refusing intent
           "fixed"}

VARIABLES image,
          wire,      \* requests on their way: suite and case, or suite and "evaluate"
          receipts,  \* kind "case": suite, case and build
          evals,     \* kind "evaluation": name, suite and build
          used,      \* the verifier's used_evidence, for evaluations
          ran,       \* builds that ran something for a suite (history)
          run        \* the control center, by suite

vars == <<image, wire, receipts, evals, used, ran, run>>

Steps == Range(Cases) \cup {"evaluate"}
Init == /\ image \in Builds
        /\ wire = {} /\ receipts = {} /\ evals = {} /\ ran = [s \in Suites |-> {}]
        /\ used = [o \in Outputs |-> "nobody"]
        /\ run = [s \in Suites |-> [at |-> "run", done |-> 0, verdict |-> "none", output |-> "none"]]

StepOf(s) == IF run[s].done < Len(Cases) THEN Cases[run[s].done + 1] ELSE "evaluate"
Ended(s, verdict) == [run EXCEPT ![s].at = "ended", ![s].verdict = verdict]

(* The control center. *)
Send == \E s \in Suites:
  /\ run[s].at = "run"
  /\ wire' = wire \cup {<<s, StepOf(s)>>}
  /\ run' = [run EXCEPT ![s].at = "sent"]
  /\ UNCHANGED <<image, receipts, evals, used, ran>>

\* A request fails, or is not waited for; it may be on its way.
GiveUp == \E s \in Suites:
  /\ run[s].at # "ended"
  /\ run' = Ended(s, "ERR")
  /\ UNCHANGED <<image, wire, receipts, evals, used, ran>>

Lose == \E w \in wire:
  /\ run[w[1]].at = "ended"
  /\ wire' = wire \ {w}
  /\ UNCHANGED <<image, receipts, evals, used, ran, run>>

Told(s, output) == IF run[s].at = "sent" THEN [run EXCEPT ![s].at = "check", ![s].output = output] ELSE run

(* The dialog rail: execute_case. *)
ExecuteCase == \E s \in Suites, c \in Range(Cases):
  /\ <<s, c>> \in wire
  /\ wire' = wire \ {<<s, c>>}
  /\ receipts' = receipts \cup {[suite |-> s, case |-> c, build |-> image]}
  /\ ran' = [ran EXCEPT ![s] = @ \cup {image}]
  /\ run' = Told(s, "none")
  /\ UNCHANGED <<image, evals, used>>

\* run_evaluation.  A name that is taken is refused.
Stored(output) == \E e \in evals: e.output = output
RunEvaluation == \E s \in Suites, output \in Outputs:
  /\ <<s, "evaluate">> \in wire
  /\ wire' = wire \ {<<s, "evaluate">>}
  /\ IF Stored(output)
       THEN /\ run' = IF run[s].at = "sent" THEN Ended(s, "ERR") ELSE run
            /\ UNCHANGED <<evals, ran>>
       ELSE /\ evals' = evals \cup {[output |-> output, suite |-> s, build |-> image]}
            /\ ran' = [ran EXCEPT ![s] = @ \cup {image}]
            /\ run' = Told(s, output)
  /\ UNCHANGED <<image, receipts, used>>

\* What is being run fails with the process.
Restart == \E b \in Builds:
  /\ image' = b
  /\ receipts' = {} /\ evals' = {}
  /\ UNCHANGED <<wire, used, ran, run>>

(* The verifier: build-info, then the receipts and the evaluation.  These are read in one
   step: a restart among the reads leaves nothing of this suite for the later ones. *)
ReadBuild == \E s \in Suites:
  /\ run[s].at = "check"
  /\ run' = [run EXCEPT ![s].at = image]
  /\ UNCHANGED <<image, wire, receipts, evals, used, ran>>

Held(s, c) == [suite |-> s, case |-> c, build |-> run[s].at] \in receipts
Recovery(c, b) == IF c # "recovery-risk" THEN "PASS"
                  ELSE IF b = "starter" THEN "HIT"
                  ELSE IF b = "fixed" THEN "PASS"
                  ELSE "ERR"
Reading(s) == run[s].at \in Builds

CheckCase == \E s \in Suites:
  /\ Reading(s) /\ StepOf(s) # "evaluate"
  /\ LET verdict == IF Held(s, StepOf(s)) THEN Recovery(StepOf(s), run[s].at) ELSE "ERR"
     IN run' = IF verdict = "PASS" THEN [run EXCEPT ![s].at = "run", ![s].done = @ + 1]
               ELSE Ended(s, verdict)
  /\ UNCHANGED <<image, wire, receipts, evals, used, ran>>

Evaluated(s) == [output |-> run[s].output, suite |-> s, build |-> run[s].at] \in evals
Mine(s) == used[run[s].output] \in {"nobody", s}
AllHeld(s) == \A c \in Range(Cases): Held(s, c)
FinalCheck == \E s \in Suites:
  /\ Reading(s) /\ StepOf(s) = "evaluate"
  /\ LET sound == AllHeld(s) /\ Evaluated(s) /\ Mine(s) IN
       /\ used' = IF sound THEN [used EXCEPT ![run[s].output] = s] ELSE used
       /\ run' = Ended(s, IF sound THEN Recovery("recovery-risk", run[s].at) ELSE "ERR")
  /\ UNCHANGED <<image, wire, receipts, evals, ran>>

Control == Send \/ GiveUp \/ Lose
Rail == ExecuteCase \/ RunEvaluation \/ Restart
Verifier == ReadBuild \/ CheckCase \/ FinalCheck
Next == Control \/ Rail \/ Verifier
Spec == Init /\ [][Next]_vars

TypeOK == /\ image \in Builds
          /\ wire \subseteq Suites \X Steps
          /\ receipts \subseteq [suite: Suites, case: Range(Cases), build: Builds]
          /\ evals \subseteq [output: Outputs, suite: Suites, build: Builds]
          /\ used \in [Outputs -> Suites \cup {"nobody"}]
          /\ ran \in [Suites -> SUBSET Builds]
          /\ run \in [Suites -> [at: {"run", "sent", "check", "ended"} \cup Builds, done: 0..Len(Cases),
                                 verdict: {"none", "PASS", "HIT", "ERR"}, output: Outputs \cup {"none"}]]

\* A verification passes only when all of it ran on one build, which refuses the code; one that
\* found the code saw it from the starter; and no evaluation passes two suites.
VerdictIsTrue ==
  /\ \A s \in Suites: /\ run[s].verdict = "PASS" => ran[s] = {"fixed"}
                      /\ run[s].verdict = "HIT" => "starter" \in ran[s]
  /\ \A s, t \in Suites: s # t /\ run[s].verdict = "PASS" /\ run[t].verdict = "PASS"
                           => run[s].output # run[t].output
================================================================================

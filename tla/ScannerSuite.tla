----------------------------- MODULE ScannerSuite ------------------------------
(***************************************************************************)
(* One verification of P14 (garak) or P15 (PyRIT): the control center      *)
(* (run_scanner_checks), the learner's scanner (h14-garak, h15-pyrit) and  *)
(* the verifier (check_scanner_preflight, verify_h14, verify_h15).  Two    *)
(* verifications share nothing.                                            *)
(*                                                                         *)
(* The configuration (P15: the attack module) is part of the scanner's     *)
(* image; preflight records and receipts are on a volume.                  *)
(***************************************************************************)
EXTENDS Naturals, FiniteSets

Builds == {"open",   \* limits missing, or out of bounds
           "low", "lowered", "high"}
Limits == [low |-> 1, lowered |-> 1, high |-> 3]
Bounded == DOMAIN Limits

VARIABLES image,
          preflight, receipt,  \* the builds they name
          wire,     \* "prepare" or "run" on its way to the scanner
          running,  \* the build whose scan runs
          run,      \* the control center
          ran       \* the builds whose scan has begun (history)

vars == <<image, preflight, receipt, wire, running, run, ran>>

Start == [at |-> "new", source |-> "none", verdict |-> "none"]
Init == /\ image \in Builds
        /\ preflight = "none" /\ receipt = "none" /\ wire = {} /\ running = "none"
        /\ run = Start /\ ran = {}

(* The control center. *)
Ended(verdict) == [run EXCEPT !.at = "ended", !.verdict = verdict]
Post(from, request, to) ==
  /\ run.at = from
  /\ run' = [run EXCEPT !.at = to]
  /\ wire' = wire \cup {request}
  /\ UNCHANGED <<image, preflight, receipt, running, ran>>
SendPrepare == Post("new", "prepare", "preparing")
SendRun == Post("ready", "run", "scanning")

\* What it waits for fails or comes too late; a request may be on its way, and is carried out.
GiveUp == /\ run.at # "ended"
          /\ run' = Ended("ERR")
          /\ UNCHANGED <<image, preflight, receipt, wire, running, ran>>
Told(at, to) == IF run.at = at THEN [run EXCEPT !.at = to] ELSE run
Failed == IF run.at \in {"preparing", "scanning"} THEN Ended("ERR") ELSE run

(* The scanner. *)
\* open('x'): a second record for a suite is refused.
Prepare == /\ "prepare" \in wire /\ wire' = wire \ {"prepare"}
           /\ preflight = "none" /\ preflight' = image
           /\ run' = Told("preparing", "preflight")
           /\ UNCHANGED <<image, receipt, running, ran>>

\* garak is refused without limits; PyRIT writes an artifact that says ERR.
StartScan == /\ "run" \in wire /\ wire' = wire \ {"run"}
             /\ IF image \in Bounded
                  THEN running' = image /\ ran' = ran \cup {image} /\ UNCHANGED run
                  ELSE run' = Failed /\ UNCHANGED <<running, ran>>
             /\ UNCHANGED <<image, preflight, receipt>>

EndScan == /\ running # "none" /\ running' = "none"
           /\ receipt' = image
           /\ run' = Told("scanning", "scanned")
           /\ UNCHANGED <<image, preflight, wire, ran>>

\* A tool that fails, or takes too long, leaves no report that counts.
FailScan == /\ running # "none" /\ running' = "none"
            /\ run' = Failed
            /\ UNCHANGED <<image, preflight, receipt, wire, ran>>

\* Another image, or the same one again.
Rebuild == \E b \in Builds:
  /\ image' = b /\ running' = "none"
  /\ run' = IF running # "none" THEN Failed ELSE run
  /\ UNCHANGED <<preflight, receipt, wire, ran>>

(* The verifier, with what the control center makes of its answer. *)
CheckPreflight ==
  /\ run.at = "preflight"
  /\ run' = IF preflight = image /\ preflight \in Bounded
              THEN [run EXCEPT !.at = "ready", !.source = preflight] ELSE Ended("ERR")
  /\ UNCHANGED <<image, preflight, receipt, wire, running, ran>>

SameSource == receipt = run.source
SameLimits == receipt \in Bounded /\ Limits[receipt] = Limits[run.source]
CheckReport ==
  /\ run.at = "scanned"
  /\ run' = Ended(IF SameSource /\ SameLimits THEN "PASS" ELSE "ERR")
  /\ UNCHANGED <<image, preflight, receipt, wire, running, ran>>

Next == SendPrepare \/ SendRun \/ GiveUp \/ Prepare \/ StartScan \/ EndScan \/ FailScan \/ Rebuild
        \/ CheckPreflight \/ CheckReport
Spec == Init /\ [][Next]_vars

TypeOK == /\ image \in Builds /\ running \in Bounded \cup {"none"}
          /\ {preflight, receipt} \subseteq Builds \cup {"none"}
          /\ wire \subseteq {"prepare", "run"} /\ ran \subseteq Bounded
          /\ run \in [at: {"new", "preparing", "preflight", "ready", "scanning", "scanned", "ended"},
                      source: Bounded \cup {"none"}, verdict: {"none", "PASS", "ERR"}]

\* A scan that passes was made by the build whose limits were checked before it, and no other ran.
VerdictIsTrue == run.verdict = "PASS" => ran = {run.source}
================================================================================

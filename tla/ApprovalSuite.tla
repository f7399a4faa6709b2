----------------------------- MODULE ApprovalSuite -----------------------------
(***************************************************************************)
(* One verification of mission P22: the control center                     *)
(* (run_approval_checks), the MCP host (h22-mcp-approval/host.py), the     *)
(* learner's MCP server (server.py) and the verifier (check_h22).          *)
(*                                                                         *)
(* Both containers keep their tables on a tmpfs: when the server starts    *)
(* again, or as another build, its ledger and its spent nonces are gone,   *)
(* between any two calls.  A request the host no longer waits for may      *)
(* still arrive.                                                           *)
(***************************************************************************)
EXTENDS Integers, Sequences

CaseOrder == <<"normal", "no-approval", "self-approval", "changed-args", "expired", "approved", "reuse">>
Last == Len(CaseOrder)
Builds == {"starter",  \* a nonce of its own for every call
           "unspent",  \* checks the approval, but keeps the nonce of its own
           "fixed"}    \* takes the nonce from the approval

VARIABLES image,    \* the MCP server's build
          effects,  \* its effects: the call's approval and notice
          made,     \* all effects there ever were (history)
          spent,    \* the approval's nonce is in consumed
          late,     \* the approval has expired
          wire,     \* publish_notice on its way, by case
          memory,   \* SEQUENCES of the host, for this suite
          host,     \* its one handler: place, case, result
          saved,    \* the row of receipts
          run,      \* the control center
          note      \* the server's build as the verifier read it

vars == <<image, effects, made, spent, late, wire, memory, host, saved, run, note>>

NoReceipt == [build |-> "none", errors |-> <<>>, counts |-> <<>>]
NoSequence == [receipt |-> NoReceipt, running |-> FALSE]
Idle == [at |-> "idle", case |-> 1, error |-> FALSE]

Init == /\ image \in Builds
        /\ effects = <<>> /\ made = <<>> /\ spent = FALSE /\ late = FALSE /\ wire = {}
        /\ memory = NoSequence /\ host = Idle /\ saved = NoReceipt
        /\ run = [at |-> "run", case |-> 1, last |-> FALSE, verdict |-> "none"]
        /\ note = "none"

server == <<image, effects, made, spent, late>>
Named(c) == CaseOrder[c]
Publishes(c) == Named(c) \notin {"normal", "self-approval"}
Approved(c) == Named(c) \in {"approved", "reuse"}

(* The MCP server. *)
Accepts(c) == \/ image = "starter"
              \/ /\ Approved(c) /\ ~late
                 /\ image = "fixed" => ~spent

Effect(c) == [approved |-> Approved(c), changed |-> Named(c) = "changed-args"]
Publish == \E c \in wire:
  /\ wire' = wire \ {c}
  /\ IF Accepts(c)
       THEN /\ effects' = Append(effects, Effect(c)) /\ made' = Append(made, Effect(c))
            /\ spent' = (spent \/ image = "fixed")
       ELSE UNCHANGED <<effects, made, spent>>
  /\ host' = IF host.at = "asked" /\ host.case = c
               THEN [host EXCEPT !.at = "told", !.error = ~Accepts(c)] ELSE host
  /\ UNCHANGED <<image, late, memory, saved, run, note>>

Lose == \E c \in wire:
  /\ wire' = wire \ {c}
  /\ UNCHANGED <<server, memory, host, saved, run, note>>

RestartServer == \E b \in Builds:
  /\ image' = b
  /\ effects' = <<>> /\ spent' = FALSE /\ wire' = {}
  /\ UNCHANGED <<made, late, memory, host, saved, run, note>>

\* The token of changed-args is the one for approved and reuse.
Expire ==
  /\ ~late
  /\ Len(memory.receipt.errors) >= 4 \/ host.case = 4
  /\ late' = TRUE
  /\ UNCHANGED <<image, effects, made, spent, wire, memory, host, saved, run, note>>

(* The host: one case at a time, and running is not taken back when one fails. *)
InTurn(c) == Len(memory.receipt.errors) = c - 1 /\ ~memory.running
Fail == [run EXCEPT !.at = "ended", !.verdict = "ERR"]

StartCase ==
  /\ run.at = "run"
  /\ IF host.at = "idle" /\ InTurn(run.case)
       THEN /\ memory' = [memory EXCEPT !.running = TRUE]
            /\ host' = [at |-> "build", case |-> run.case, error |-> FALSE]
            /\ run' = [run EXCEPT !.at = "running"]
       ELSE run' = Fail /\ UNCHANGED <<memory, host>>
  /\ UNCHANGED <<server, wire, saved, note>>

SameBuild == host.case > 1 => memory.receipt.build = image
ReadSource ==
  /\ host.at = "build"
  /\ IF SameBuild
       THEN /\ host' = IF Publishes(host.case) THEN [host EXCEPT !.at = "asked"]
                       ELSE [host EXCEPT !.at = "told", !.error = Named(host.case) = "self-approval"]
            /\ wire' = IF Publishes(host.case) THEN wire \cup {host.case} ELSE wire
            /\ memory' = IF host.case = 1 THEN [memory EXCEPT !.receipt.build = image] ELSE memory
            /\ run' = run
       ELSE host' = Idle /\ run' = Fail /\ UNCHANGED <<wire, memory>>
  /\ UNCHANGED <<server, saved, note>>

\* A call that fails leaves the sequence running.
CallFails ==
  /\ host.at # "idle"
  /\ host' = Idle
  /\ run' = Fail
  /\ UNCHANGED <<server, wire, memory, saved, note>>

\* After the call its result, the effects there are now and the case's name; then the row.
Record ==
  /\ host.at = "told"
  /\ LET old == memory.receipt
         new == [old EXCEPT !.errors = Append(@, host.error),
                            !.counts = IF Publishes(host.case) THEN Append(@, Len(effects)) ELSE @]
     IN memory' = [receipt |-> new, running |-> FALSE] /\ saved' = new
  /\ host' = Idle
  /\ run' = IF run.at = "running" THEN [run EXCEPT !.at = "build"] ELSE run
  /\ UNCHANGED <<server, wire, note>>

RestartHost ==
  /\ memory' = NoSequence /\ saved' = NoReceipt /\ host' = Idle
  /\ run' = IF run.at = "running" THEN Fail ELSE run
  /\ UNCHANGED <<server, wire, note>>

(* The verifier. *)
ReadBuild ==
  /\ run.at = "build"
  /\ note' = image
  /\ run' = [run EXCEPT !.at = "check"]
  /\ UNCHANGED <<server, wire, memory, host, saved>>

FieldsMatch == saved.build = note
ExpectedCount(c) == IF Approved(c) THEN 1 ELSE 0
Expected == [n \in 1..Len(saved.counts) |-> IF n >= 4 THEN 1 ELSE 0]
Over == (\E n \in DOMAIN Expected: saved.counts[n] > Expected[n]) \/ Len(effects) > ExpectedCount(run.case)
Denied(c) == saved.errors[c] = (Named(c) \notin {"normal", "approved"})
OneApproved(list) == list = <<[approved |-> TRUE, changed |-> FALSE]>>

CaseVerdict ==
  IF ~FieldsMatch \/ Len(saved.errors) # run.case THEN "ERR"
  ELSE IF Over THEN "HIT"
  ELSE IF /\ \A c \in 1..run.case: Denied(c)
          /\ saved.counts = Expected
          /\ IF Approved(run.case) THEN OneApproved(effects) ELSE effects = <<>>
       THEN "PASS" ELSE "ERR"

\* A call that should have been denied made an effect.
Bypassed(counts) == counts[1] > 0 \/ counts[2] > counts[1] \/ counts[3] > counts[2] \/ counts[5] > counts[4]
FinalVerdict ==
  IF ~FieldsMatch THEN "ERR"
  ELSE IF Len(saved.counts) = 5 /\ Bypassed(saved.counts) THEN "HIT"
  ELSE IF /\ Len(saved.errors) = Last
          /\ \A c \in 1..Last \ {2}: Denied(c)
          /\ saved.counts = <<0, 0, 0, 1, 1>> /\ OneApproved(effects)
       THEN "PASS" ELSE "ERR"

CheckCase ==
  /\ run.at = "check" /\ ~run.last
  /\ run' = IF CaseVerdict # "PASS" THEN [run EXCEPT !.at = "ended", !.verdict = CaseVerdict]
            ELSE IF run.case < Last THEN [run EXCEPT !.at = "run", !.case = @ + 1]
            ELSE [run EXCEPT !.at = "build", !.last = TRUE]
  /\ note' = "none"
  /\ UNCHANGED <<server, wire, memory, host, saved>>

FinalCheck ==
  /\ run.at = "check" /\ run.last
  /\ run' = [run EXCEPT !.at = "ended", !.verdict = FinalVerdict]
  /\ note' = "none"
  /\ UNCHANGED <<server, wire, memory, host, saved>>

\* The control center waits no longer; the host goes on.
GiveUp ==
  /\ run.at # "ended"
  /\ run' = Fail
  /\ note' = "none"
  /\ UNCHANGED <<server, wire, memory, host, saved>>

Server == Publish \/ Lose \/ RestartServer \/ Expire
Host == StartCase \/ ReadSource \/ CallFails \/ Record \/ RestartHost
Next == Server \/ Host \/ ReadBuild \/ CheckCase \/ FinalCheck \/ GiveUp
Spec == Init /\ [][Next]_vars

Receipts == [build: Builds \cup {"none"}, errors: Seq(BOOLEAN), counts: Seq(0..Last)]
TypeOK == /\ image \in Builds
          /\ \A list \in {effects, made}: list \in Seq([approved: BOOLEAN, changed: BOOLEAN])
          /\ spent \in BOOLEAN /\ late \in BOOLEAN /\ wire \subseteq 1..Last
          /\ memory \in [receipt: Receipts, running: BOOLEAN]
          /\ host \in [at: {"idle", "build", "asked", "told"}, case: 1..Last, error: BOOLEAN]
          /\ saved \in Receipts
          /\ run \in [at: {"run", "running", "build", "check", "ended"}, case: 1..Last, last: BOOLEAN,
                      verdict: {"none", "PASS", "HIT", "ERR"}]
          /\ note \in Builds \cup {"none"}

\* A verification passes only when, of all effects there ever were, the approved call's is the
\* only one, and no call is on its way.  One that found a bypass has an effect to show that
\* nobody approved, or one approval used twice.
VerdictIsTrue ==
  /\ run.verdict = "PASS" => OneApproved(made) /\ wire = {}
  /\ run.verdict = "HIT" => Len(made) > 1 \/ \E n \in DOMAIN made: ~made[n].approved
===============================================================================

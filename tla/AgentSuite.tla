------------------------------- MODULE AgentSuite -------------------------------
(***************************************************************************)
(* One verification of mission P21: the control center (run_agent_checks), *)
(* the agent host (h21-agent-policy/host.py) with the learner's policy     *)
(* (policy.py), the model provider and the two MCP servers, each with a    *)
(* list of its calls in memory, and the verifier (check_h21), which reads  *)
(* those lists and the host's receipt one after the other.                 *)
(*                                                                         *)
(* A tool call the host no longer waits for may still be done, and each    *)
(* process may be started again, which empties its list.                   *)
(***************************************************************************)
EXTENDS Integers, Sequences

CaseOrder == <<"normal", "forbidden-model", "untrusted-server", "forbidden-tool", "tool-loop",
               "oversized-result", "tool-timeout", "foreign-state", "wrong-audience">>
Last == Len(CaseOrder)
CaseIds == 1..Last
Named(c) == CaseOrder[c]
Builds == {"starter",  \* checks nothing and grants what is asked for
           "bounded",  \* checks model, server, tool and owner
           "fixed",    \* and grants the configured limits
           "strict"}   \* and refuses what asks for more than they are

VARIABLES image,    \* the host's policy
          host,     \* its one handler: place, case, calls made, result
          receipt,  \* RECEIPTS, for this suite
          wire,     \* tool calls on their way
          models,   \* the provider's list: case and stage
          tools,    \* the servers' lists: how many calls of a case
          forwarded, contacted,  \* all there ever was in models and tools (history)
          run,      \* the control center
          note      \* what the verifier has read

ledgers == <<models, tools, forwarded, contacted>>
vars == <<image, host, receipt, wire, ledgers, run, note>>

NoReceipt == [rows |-> <<>>, running |-> FALSE]
Idle == [at |-> "idle", case |-> 1, tries |-> 0, denied |-> FALSE]
NoNote == [receipt |-> NoReceipt, models |-> {}, trusted |-> {}]
NoTools == [c \in CaseIds |-> 0]

Init == /\ image \in Builds
        /\ host = Idle /\ receipt = NoReceipt /\ wire = {}
        /\ models = {} /\ tools = NoTools
        /\ forwarded = {} /\ contacted = NoTools
        /\ run = [at |-> "run", case |-> 1, last |-> FALSE, verdict |-> "none"]
        /\ note = NoNote

(* policy.py: authorize. *)
Foreign(c) == Named(c) \in {"forbidden-model", "untrusted-server", "forbidden-tool", "foreign-state"}
Admitted(c) == \/ image = "starter"
               \/ image # "strict" /\ ~Foreign(c)
Requested(c) == IF Named(c) = "tool-loop" THEN 3 ELSE 1
MaxToolCalls(c) == IF image = "fixed" THEN 2 ELSE Requested(c)
Least(m, n) == IF m < n THEN m ELSE n

(* The MCP servers. *)
ServerOf(c) == IF Named(c) = "untrusted-server" THEN "untrusted" ELSE "trusted"
Denies(c) == Named(c) \in {"foreign-state", "wrong-audience"}
Execute == \E c \in wire:
  /\ wire' = wire \ {c}
  /\ tools' = [tools EXCEPT ![c] = @ + 1]
  /\ contacted' = [contacted EXCEPT ![c] = @ + 1]
  /\ host' = IF host.at = "asked" /\ host.case = c
               THEN [host EXCEPT !.at = "told", !.tries = @ + 1, !.denied = Denies(c)] ELSE host
  /\ UNCHANGED <<image, receipt, models, forwarded, run, note>>

Lose == \E c \in wire:
  /\ wire' = wire \ {c}
  /\ UNCHANGED <<image, host, receipt, ledgers, run, note>>

RestartServer == \E s \in {"trusted", "untrusted"}:
  /\ tools' = [c \in CaseIds |-> IF ServerOf(c) = s THEN 0 ELSE tools[c]]
  /\ wire' = {c \in wire: ServerOf(c) # s}
  /\ UNCHANGED <<image, host, receipt, models, forwarded, contacted, run, note>>

RestartProvider ==
  /\ models # {}
  /\ models' = {}
  /\ UNCHANGED <<image, host, receipt, wire, tools, forwarded, contacted, run, note>>

(* The host: run_sequence_case. *)
Fail == [run EXCEPT !.at = "ended", !.verdict = "ERR"]
InTurn(c) == Len(receipt.rows) = c - 1 /\ ~receipt.running
StartCase ==
  /\ run.at = "run"
  /\ IF InTurn(run.case)
       THEN /\ receipt' = [receipt EXCEPT !.running = TRUE]
            /\ host' = [Idle EXCEPT !.at = "admit", !.case = run.case]
            /\ run' = [run EXCEPT !.at = "running"]
       ELSE run' = Fail /\ UNCHANGED <<receipt, host>>
  /\ UNCHANGED <<image, wire, ledgers, note>>

\* The case's row, and the answer to the control center.
Row(c, calls, tries) == [case |-> c, provider |-> calls, tools |-> tries]
Recorded(row) ==
  /\ receipt' = [rows |-> Append(receipt.rows, row), running |-> FALSE]
  /\ host' = Idle
  /\ run' = IF run.at = "running" THEN [run EXCEPT !.at = "receipt"] ELSE run

Block ==
  /\ host.at = "admit"
  /\ ~Admitted(host.case)
  /\ Recorded(Row(host.case, 0, 0))
  /\ UNCHANGED <<image, wire, ledgers, note>>

Generate(stage) == /\ models' = models \cup {<<host.case, stage>>}
                   /\ forwarded' = forwarded \cup {<<host.case, stage>>}
Propose ==
  /\ host.at = "admit"
  /\ Admitted(host.case)
  /\ Generate("proposal")
  /\ host' = [host EXCEPT !.at = "call"]
  /\ UNCHANGED <<image, receipt, wire, tools, contacted, run, note>>

CallTool ==
  /\ host.at = "call"
  /\ host' = [host EXCEPT !.at = "asked"]
  /\ wire' = wire \cup {host.case}
  /\ UNCHANGED <<image, receipt, ledgers, run, note>>

\* asyncio.wait_for ends the case; the call counts as made.
TimeoutError ==
  /\ host.at = "asked"
  /\ Recorded(Row(host.case, 1, host.tries + 1))
  /\ UNCHANGED <<image, wire, ledgers, note>>

\* The slow tool sleeps longer than the configured 250 ms, shorter than the requested 1000.
Slow == Named(host.case) = "tool-timeout" /\ image = "fixed"
More == ~host.denied /\ host.tries < Least(Requested(host.case), MaxToolCalls(host.case))
CallAgain ==
  /\ host.at = "told" /\ ~Slow /\ More
  /\ host' = [host EXCEPT !.at = "call"]
  /\ UNCHANGED <<image, receipt, wire, ledgers, run, note>>

SlowTimeout ==
  /\ host.at = "told" /\ Slow
  /\ Recorded(Row(host.case, 1, host.tries))
  /\ UNCHANGED <<image, wire, ledgers, note>>

OverLimit(c) == image = "fixed" /\ Named(c) \in {"tool-loop", "oversized-result"}
Stop ==
  /\ host.at = "told" /\ ~Slow /\ ~More
  /\ host.denied \/ OverLimit(host.case)
  /\ Recorded(Row(host.case, 1, host.tries))
  /\ UNCHANGED <<image, wire, ledgers, note>>

Finish ==
  /\ host.at = "told" /\ ~Slow /\ ~More
  /\ ~host.denied /\ ~OverLimit(host.case)
  /\ Generate("final")
  /\ Recorded(Row(host.case, 2, host.tries))
  /\ UNCHANGED <<image, wire, tools, contacted, note>>

\* A provider or a connection that fails: the receipt stays running.
CallFails ==
  /\ host.at # "idle"
  /\ host' = Idle
  /\ \/ UNCHANGED <<models, forwarded>>
     \/ host.at = "admit" /\ Admitted(host.case) /\ Generate("proposal")
     \/ host.at = "told" /\ ~Slow /\ ~More /\ ~host.denied /\ ~OverLimit(host.case) /\ Generate("final")
  /\ run' = Fail
  /\ UNCHANGED <<image, receipt, wire, tools, contacted, note>>

RestartHost == \E b \in Builds:
  /\ image' = b
  /\ receipt' = NoReceipt /\ host' = Idle
  /\ run' = IF run.at = "running" THEN Fail ELSE run
  /\ UNCHANGED <<wire, ledgers, note>>

(* The verifier. *)
ReadReceipt ==
  /\ run.at = "receipt"
  /\ note' = [note EXCEPT !.receipt = receipt]
  /\ run' = [run EXCEPT !.at = "models"]
  /\ UNCHANGED <<image, host, receipt, wire, ledgers>>
ReadModels ==
  /\ run.at = "models"
  /\ note' = [note EXCEPT !.models = models]
  /\ run' = [run EXCEPT !.at = "trusted"]
  /\ UNCHANGED <<image, host, receipt, wire, ledgers>>
CountsOf(s) == {<<c, tools[c]>>: c \in {x \in CaseIds: ServerOf(x) = s}}
ReadTrusted ==
  /\ run.at = "trusted"
  /\ note' = [note EXCEPT !.trusted = CountsOf("trusted")]
  /\ run' = [run EXCEPT !.at = "check"]
  /\ UNCHANGED <<image, host, receipt, wire, ledgers>>

Rows == note.receipt.rows
Calls(c) == {call \in note.models: call[1] = c}
Finals(c) == {call \in note.models: call = <<c, "final">>}
Tools(c) == CHOOSE n \in 0..3: <<c, n>> \in note.trusted \cup CountsOf("untrusted")
NumberOf(c) == IF Calls(c) = {} THEN 0 ELSE IF Finals(c) = {} THEN 1 ELSE 2

EvidenceMatches == Len(Rows) = run.case /\ ~note.receipt.running
CountsMatch == \A c \in 1..Len(Rows): Rows[c].provider = NumberOf(c) /\ Rows[c].tools = Tools(c)
InScope == \A c \in CaseIds: c > Len(Rows) => Calls(c) = {} /\ Tools(c) = 0

Impact(c) == CASE Named(c) = "forbidden-model" -> Calls(c) # {}
               [] Named(c) \in {"untrusted-server", "forbidden-tool", "foreign-state"} -> Tools(c) > 0
               [] Named(c) = "tool-loop" -> Tools(c) > 2
               [] Named(c) \in {"oversized-result", "tool-timeout"} -> Finals(c) # {}
               [] OTHER -> FALSE
Safe(c) == IF Foreign(c) THEN Calls(c) = {} /\ Tools(c) = 0
           ELSE /\ NumberOf(c) = IF Named(c) = "normal" THEN 2 ELSE 1
                /\ Tools(c) = IF Named(c) = "tool-loop" THEN 2 ELSE 1

Verdict == IF ~(EvidenceMatches /\ CountsMatch /\ InScope) THEN "ERR"
           ELSE IF \E c \in CaseIds: Impact(c) THEN "HIT"
           ELSE IF \A c \in 1..run.case: Safe(c) THEN "PASS"
           ELSE "ERR"

CheckCase ==
  /\ run.at = "check" /\ ~run.last
  /\ run' = IF Verdict # "PASS" THEN [run EXCEPT !.at = "ended", !.verdict = Verdict]
            ELSE IF run.case < Last THEN [run EXCEPT !.at = "run", !.case = @ + 1]
            ELSE [run EXCEPT !.at = "receipt", !.last = TRUE]
  /\ note' = NoNote
  /\ UNCHANGED <<image, host, receipt, wire, ledgers>>
FinalCheck ==
  /\ run.at = "check" /\ run.last
  /\ run' = [run EXCEPT !.at = "ended", !.verdict = Verdict]
  /\ note' = NoNote
  /\ UNCHANGED <<image, host, receipt, wire, ledgers>>

\* The control center waits no longer; the host goes on.
GiveUp ==
  /\ run.at # "ended"
  /\ run' = Fail
  /\ note' = NoNote
  /\ UNCHANGED <<image, host, receipt, wire, ledgers>>

Servers == Execute \/ Lose \/ RestartServer \/ RestartProvider
Host == \/ StartCase \/ Block \/ Propose \/ CallTool \/ TimeoutError \/ CallAgain \/ SlowTimeout \/ Stop
        \/ Finish \/ CallFails \/ RestartHost
Verifier == ReadReceipt \/ ReadModels \/ ReadTrusted \/ CheckCase \/ FinalCheck
Next == Servers \/ Host \/ Verifier \/ GiveUp
Spec == Init /\ [][Next]_vars

Receipts == [rows: Seq([case: CaseIds, provider: 0..2, tools: 0..3]), running: BOOLEAN]
ModelCalls == CaseIds \X {"proposal", "final"}
TypeOK == /\ image \in Builds
          /\ host \in [at: {"idle", "admit", "call", "asked", "told"}, case: CaseIds, tries: 0..3, denied: BOOLEAN]
          /\ receipt \in Receipts /\ wire \subseteq CaseIds
          /\ models \subseteq forwarded /\ forwarded \subseteq ModelCalls
          /\ {tools, contacted} \subseteq [CaseIds -> 0..3]
          /\ run \in [at: {"run", "running", "receipt", "models", "trusted", "check", "ended"}, case: CaseIds,
                      last: BOOLEAN, verdict: {"none", "PASS", "HIT", "ERR"}]
          /\ note \in [receipt: Receipts, models: SUBSET ModelCalls, trusted: SUBSET (CaseIds \X (0..3))]

\* A verification passes only when, whatever the servers have forgotten, no request beyond the
\* agent's boundary ever reached the provider or a tool, nothing beyond a limit was forwarded,
\* and no call is on its way.  One that found an impact has it to show.
Overstepped == \/ \E c \in CaseIds: Foreign(c) /\ (contacted[c] > 0 \/ <<c, "proposal">> \in forwarded)
               \/ \E c \in CaseIds: Named(c) \in {"oversized-result", "tool-timeout"} /\ <<c, "final">> \in forwarded
               \/ \E c \in CaseIds: Named(c) = "tool-loop" /\ contacted[c] > 2
VerdictIsTrue == /\ run.verdict = "PASS" => ~Overstepped /\ wire = {}
                 /\ run.verdict = "HIT" => Overstepped
===============================================================================

------------------------------ MODULE ActionSuite ------------------------------
(***************************************************************************)
(* One verification of mission P06: the control center                     *)
(* (verify_h06_python_action), the learner's application                   *)
(* (h06-nemo-action), the account provider with its one-use action         *)
(* capabilities (h06-action-provider/provider.py) and the verifier         *)
(* (check_h06_evidence).                                                   *)
(*                                                                         *)
(* Nothing is ever closed here: an action the application has asked for    *)
(* and no longer waits for may be done at any time, also while the         *)
(* verifier reads the provider's ledger in its four statements.            *)
(***************************************************************************)
EXTENDS Integers, Sequences, SequencesExt

CONSTANT Cases  \* how many: the first reads the balance, the last asks for no action, those
                \* between transfer

Builds == {"starter", "fixed"}
Transfers == 2..Cases - 1

VARIABLES image,    \* the application's build; the fixed one allows to read the balance only
          app,      \* its one run: place, kind of the action's result, call it got
          receipt,  \* receipts: build, and per case kind and call
          wire,     \* execute requests on their way
          used,     \* cases whose capability has a used_at
          calls,    \* calls in the order of sequence: case, balance before and after
          effects,  \* effects in the order of sequence: case and call
          balance,  \* suites.balance, in transfers made
          late,     \* the capabilities' time is over
          run,      \* the control center
          note      \* what the verifier has read

provider == <<used, calls, effects, balance>>
vars == <<image, app, receipt, wire, provider, late, run, note>>

Idle == [at |-> "idle", kind |-> "none", call |-> 0]
NoReceipt == [build |-> "none", cases |-> <<>>]
NoNote == [build |-> "none", receipt |-> NoReceipt, balance |-> 0, used |-> {}, calls |-> <<>>]

Init == /\ image \in Builds
        /\ app = Idle
        /\ receipt = NoReceipt
        /\ wire = {} /\ used = {}
        /\ calls = <<>> /\ effects = <<>> /\ balance = 0
        /\ late = FALSE
        /\ run = [at |-> "new", case |-> 1, last |-> FALSE, verdict |-> "none"]
        /\ note = NoNote

(* The application: dispatch_action, and the case around it. *)
Mine == Len(receipt.cases) + 1
AllowedBy(build, c) == c = 1 \/ (build = "starter" /\ c \in Transfers)
Allowed(c) == AllowedBy(image, c)

Dispatch ==
  /\ app.at = "action"
  /\ IF Allowed(Mine)
       THEN /\ app' = [app EXCEPT !.at = "asked"]
            /\ wire' = wire \cup {Mine}
       ELSE /\ app' = [app EXCEPT !.at = "answered", !.kind = IF Mine = Cases THEN "none" ELSE "denied"]
            /\ UNCHANGED wire
  /\ UNCHANGED <<image, receipt, provider, late, run, note>>

\* The provider refuses, or does not answer in time.
Unanswered ==
  /\ app.at = "asked"
  /\ app' = [app EXCEPT !.at = "answered", !.kind = "error"]
  /\ UNCHANGED <<image, receipt, wire, provider, late, run, note>>

Record ==
  /\ app.at = "answered"
  /\ receipt' = [build |-> image, cases |-> Append(receipt.cases, [kind |-> app.kind, call |-> app.call])]
  /\ app' = Idle
  /\ run' = IF run.at = "running" THEN [run EXCEPT !.at = "build"] ELSE run
  /\ UNCHANGED <<image, wire, provider, late, note>>

Rebuild == \E b \in Builds \ {image}:
  /\ image' = b
  /\ app' = Idle
  /\ UNCHANGED <<receipt, wire, provider, late, run, note>>

(* The provider. *)
Execute == \E c \in wire:
  LET call == [case |-> c, before |-> balance, after |-> IF c \in Transfers THEN balance + 1 ELSE balance]
  IN /\ wire' = wire \ {c}
     /\ IF late \/ c \in used
          THEN UNCHANGED <<app, provider>>
          ELSE /\ used' = used \cup {c}
               /\ calls' = Append(calls, call)
               /\ effects' = IF c \in Transfers THEN Append(effects, [case |-> c, call |-> Len(calls')]) ELSE effects
               /\ balance' = call.after
               /\ app' = IF app.at = "asked" /\ Mine = c
                           THEN [at |-> "answered", kind |-> "ok", call |-> Len(calls')] ELSE app
     /\ UNCHANGED <<image, receipt, late, run, note>>

Lose == \E c \in wire:
  /\ wire' = wire \ {c}
  /\ UNCHANGED <<image, app, receipt, provider, late, run, note>>

Expire ==
  /\ ~late
  /\ late' = TRUE
  /\ UNCHANGED <<image, app, receipt, wire, provider, run, note>>

(* The control center. *)
End(verdict) == [run EXCEPT !.at = "ended", !.verdict = verdict]

Prepare ==
  /\ run.at = "new"
  /\ run' = [run EXCEPT !.at = "run"]
  /\ UNCHANGED <<image, app, receipt, wire, provider, late, note>>

SameBuild == receipt.cases # <<>> => receipt.build = image
StartCase ==
  /\ run.at = "run"
  /\ IF app = Idle /\ Mine = run.case /\ SameBuild
       THEN app' = [Idle EXCEPT !.at = "action"] /\ run' = [run EXCEPT !.at = "running"]
       ELSE run' = End("ERR") /\ UNCHANGED app
  /\ UNCHANGED <<image, receipt, wire, provider, late, note>>

GiveUp ==
  /\ run.at \notin {"new", "ended"}
  /\ run' = End("ERR")
  /\ note' = NoNote
  /\ UNCHANGED <<image, app, receipt, wire, provider, late>>

(* The verifier. *)
Go(place) == [run EXCEPT !.at = place]
ReadBuild ==
  /\ run.at = "build"
  /\ note' = [note EXCEPT !.build = image]
  /\ run' = Go("receipt")
  /\ UNCHANGED <<image, app, receipt, wire, provider, late>>
ReadReceipt ==
  /\ run.at = "receipt"
  /\ note' = [note EXCEPT !.receipt = receipt]
  /\ run' = Go("balance")
  /\ UNCHANGED <<image, app, receipt, wire, provider, late>>
ReadBalance ==
  /\ run.at = "balance"
  /\ note' = [note EXCEPT !.balance = balance]
  /\ run' = Go("used")
  /\ UNCHANGED <<image, app, receipt, wire, provider, late>>
ReadUsed ==
  /\ run.at = "used"
  /\ note' = [note EXCEPT !.used = used]
  /\ run' = Go("calls")
  /\ UNCHANGED <<image, app, receipt, wire, provider, late>>
ReadCalls ==
  /\ run.at = "calls"
  /\ note' = [note EXCEPT !.calls = calls]
  /\ run' = Go("effects")
  /\ UNCHANGED <<image, app, receipt, wire, provider, late>>

\* Receipt, build and capabilities belong together.
Linked == /\ note.receipt.build = note.build
          /\ Len(note.receipt.cases) = run.case
          /\ \A c \in 1..run.case: c \in note.used <=> AllowedBy(note.build, c)

CallsOf(c) == {n \in 1..Len(note.calls): note.calls[n].case = c}
EffectsOf(c) == {n \in 1..Len(effects): effects[n].case = c}
InScope == /\ \A n \in 1..Len(note.calls): note.calls[n].case <= run.case
           /\ \A n \in 1..Len(effects): effects[n].case <= run.case /\ effects[n].call <= Len(note.calls)

\* What a case's action gave is what the ledger holds of it.
Said(c) == note.receipt.cases[c].kind
Told(c) == \/ Said(c) = "none"
           \/ Said(c) = "denied" /\ CallsOf(c) = {} /\ EffectsOf(c) = {}
           \/ /\ Said(c) = "ok" /\ CallsOf(c) = {note.receipt.cases[c].call}
              /\ IF c = 1 THEN EffectsOf(c) = {}
                          ELSE \E n \in EffectsOf(c): EffectsOf(c) = {n} /\ {effects[n].call} = CallsOf(c)

\* From case to case each balance goes on from the one before, to the current one.
Chained ==
  LET chain == SetToSortSeq(ToSet(note.calls), LAMBDA x, y: x.case < y.case)
      balances == <<0>> \o [n \in 1..Len(chain) |-> chain[n].after]
  IN /\ \A n \in 1..Len(chain): chain[n].before = balances[n]
     /\ note.balance = Last(balances)

Sound == Linked /\ InScope /\ (\A c \in 1..run.case: Told(c)) /\ Chained
Denied(c) == note.build = "fixed" /\ Said(c) = "denied" /\ CallsOf(c) = {} /\ EffectsOf(c) = {}

CaseVerdict ==
  LET c == run.case
  IN IF ~Sound THEN "ERR"
     ELSE IF c = 1 THEN IF Said(c) = "ok" THEN "PASS" ELSE "ERR"
     ELSE IF c = Cases THEN IF CallsOf(c) = {} /\ EffectsOf(c) = {} THEN "PASS" ELSE "ERR"
     ELSE IF EffectsOf(c) # {} THEN "HIT"
     ELSE IF Denied(c) THEN "PASS"
     ELSE "ERR"

FinalVerdict ==
  IF ~Sound \/ Said(1) # "ok" \/ CallsOf(Cases) # {} THEN "ERR"
  ELSE IF note.build = "starter" /\ (\A c \in Transfers: Said(c) = "ok") THEN "HIT"
  ELSE IF \A c \in Transfers: Denied(c) THEN IF effects = <<>> /\ note.balance = 0 THEN "PASS" ELSE "ERR"
  ELSE "ERR"

CheckCase ==
  /\ run.at = "effects"
  /\ ~run.last
  /\ run' = IF CaseVerdict # "PASS" THEN End(CaseVerdict)
            ELSE IF run.case < Cases THEN [run EXCEPT !.at = "run", !.case = @ + 1]
            ELSE [run EXCEPT !.at = "build", !.last = TRUE]
  /\ note' = NoNote
  /\ UNCHANGED <<image, app, receipt, wire, provider, late>>

FinalCheck ==
  /\ run.at = "effects" /\ run.last
  /\ run' = End(FinalVerdict)
  /\ note' = NoNote
  /\ UNCHANGED <<image, app, receipt, wire, provider, late>>

Application == Dispatch \/ Unanswered \/ Record \/ Rebuild
Provider == Execute \/ Lose \/ Expire
Control == Prepare \/ StartCase \/ GiveUp
Verifier == ReadBuild \/ ReadReceipt \/ ReadBalance \/ ReadUsed \/ ReadCalls \/ CheckCase \/ FinalCheck
Next == Application \/ Provider \/ Control \/ Verifier
Spec == Init /\ [][Next]_vars

Kinds == {"none", "denied", "error", "ok"}
Calls == Seq([case: 1..Cases, before: 0..Cases, after: 0..Cases])
Receipts == [build: Builds \cup {"none"}, cases: Seq([kind: Kinds, call: 0..Cases])]

TypeOK == /\ image \in Builds
          /\ app \in [at: {"idle", "action", "asked", "answered"}, kind: Kinds, call: 0..Cases]
          /\ receipt \in Receipts
          /\ wire \subseteq 1..Cases /\ used \subseteq 1..Cases
          /\ calls \in Calls /\ effects \in Seq([case: 1..Cases, call: 1..Cases]) /\ balance \in 0..Cases
          /\ late \in BOOLEAN
          /\ run \in [at: {"new", "run", "running", "build", "receipt", "balance", "used", "calls", "effects",
                           "ended"},
                      case: 1..Cases, last: BOOLEAN, verdict: {"none", "PASS", "HIT", "ERR"}]
          /\ note \in [build: Builds \cup {"none"}, receipt: Receipts, balance: 0..Cases,
                       used: SUBSET (1..Cases), calls: Calls]

\* A verification passes only when no transfer was made and none can be any more; one that
\* found a transfer shows what it is about: the account is short of as much as was recorded.
VerdictIsTrue == /\ run.verdict = "PASS" => effects = <<>> /\ balance = 0 /\ wire \cap Transfers = {}
                 /\ run.verdict = "HIT" => effects # <<>> /\ balance = Len(effects)
===============================================================================

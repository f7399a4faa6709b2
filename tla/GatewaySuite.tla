------------------------------ MODULE GatewaySuite ------------------------------
(***************************************************************************)
(* Mission P01 (guided-labs/h01-bedrock-gateway): one verification, one    *)
(* preflight of the provider, or one question of the learner.  The control *)
(* center (execute_suite, chat_with_learner_app) posts the cases of the    *)
(* contract one after another; the gateway opens an execution, runs the    *)
(* learner's handle_request on a RecordingClient, which reserves budget    *)
(* and calls the model, and closes the execution; the verifier (verify)    *)
(* reads executions and receipts one by one between two readings of the    *)
(* build.  The gateway's tables are on tmpfs: a restart empties them.      *)
(*                                                                         *)
(* Of the cases of guided-contracts/p01.json each kind is there once.      *)
(***************************************************************************)
EXTENDS Integers, Sequences

CONSTANT MaxRestarts  \* restarts in a behaviour; one already empties the gateway's tables

Contract == [hands_on  |-> <<"normal", "risk", "wrong", "first", "exhausted">>,
             preflight |-> <<"preflight">>,
             chat      |-> <<"chat">>]
Asked == [normal |-> 64, risk |-> 512, wrong |-> 64, first |-> 1, exhausted |-> 1, preflight |-> 2, chat |-> 512]
Wanted == [normal |-> 64, risk |-> 128, first |-> 1, exhausted |-> 1, preflight |-> 2]
Expected == [normal |-> 200, risk |-> 200, wrong |-> 422, first |-> 200, exhausted |-> 429, preflight |-> 200,
             chat |-> 200]

\* What the learner wrote, as the operations it performs on a case.
Builds == {"starter",    \* as handed out
           "open",       \* does not cap the tokens
           "low",        \* caps them at 64
           "unpaid",     \* calls without a reservation
           "late",       \* reserves after the call
           "unsettled",  \* never settles
           "hasty",      \* calls, then looks at the request
           "twice",      \* calls twice
           "invented",   \* answers without a call
           "fixed"}
Least(m, n) == IF m < n THEN m ELSE n
Cap(b) == CASE b = "open" -> 512 [] b = "low" -> 64 [] OTHER -> 128
Plan(b, c) ==
  IF b = "hasty" /\ c = "wrong" THEN <<"converse", "invalid">>
  ELSE IF c = "wrong" THEN <<"invalid">>
  ELSE IF b = "starter" THEN <<"incomplete">>
  ELSE IF b = "unpaid" THEN <<"converse", "return">>
  ELSE IF b = "late" THEN <<"converse", "reserve", "settle", "return">>
  ELSE IF b = "unsettled" THEN <<"reserve", "converse", "return">>
  ELSE IF b = "invented" THEN <<"return">>
  ELSE IF b = "twice" THEN <<"reserve", "converse", "converse", "return">>
  ELSE <<"reserve", "converse", "settle", "return">>

VARIABLES kind,        \* suite_kind, or a question
          image,       \* the build the container runs
          center,      \* the control center: place, case, verdict
          work,        \* the gateway's request with its RecordingClient
          execution, receipt,  \* the gateway's tables, by case
          budget,      \* the row of the client with one token: what it holds, whether it is of this hour
          note,        \* what the verifier knows
          restarts,
          ran, served  \* builds that ran a case, calls the provider got (history)

tables == <<execution, receipt, budget>>
history == <<restarts, ran, served>>
vars == <<kind, image, center, work, tables, note, history>>

NoWork == [at |-> "none", case |-> 1, step |-> 1, build |-> "none", events |-> <<>>, attempts |-> 0, provided |-> 0,
           results |-> 0, out |-> 0]
NoReceipt == [build |-> "none", effective |-> 0, out |-> 0, events |-> <<>>]
NoExecution == [closed |-> FALSE, build |-> "none", status |-> 0, attempts |-> 0, provided |-> 0, results |-> 0,
                events |-> <<>>]
NoNote == [build |-> "none", case |-> 1, risk |-> NoReceipt]
NoBudget == [tokens |-> 0, current |-> FALSE]

Cases == Contract[kind]
Empty(row) == [n \in DOMAIN Cases |-> row]

Init == /\ kind \in DOMAIN Contract /\ image \in Builds
        /\ center = [at |-> "send", case |-> 1, verdict |-> "none"]
        /\ work = NoWork /\ execution = Empty(NoExecution) /\ receipt = Empty(NoReceipt) /\ budget = NoBudget
        /\ note = NoNote /\ restarts = 0 /\ ran = {} /\ served = <<>>

case == Cases[center.case]
Ended(verdict) == [center EXCEPT !.at = "ended", !.verdict = verdict]

(* The control center. *)
Send ==
  /\ center.at = "send"
  /\ center' = [center EXCEPT !.at = "sent"]
  /\ work' = [NoWork EXCEPT !.at = "posted", !.case = center.case]
  /\ UNCHANGED <<kind, image, tables, note, history>>

\* The answer arrives: an unexpected status ends the suite, the last case leads to the verifier.
Question(status) == Ended(IF status = 200 THEN "shown" ELSE "ERR")
Answered(status) ==
  IF center.at # "sent" THEN center
  ELSE IF kind = "chat" THEN Question(status)
  ELSE IF status # Expected[case] THEN Ended("ERR")
  ELSE IF center.case < Len(Cases) THEN [center EXCEPT !.at = "send", !.case = @ + 1]
  ELSE [center EXCEPT !.at = "verify"]

\* A call of the control center fails or takes too long (httpx.RequestError); the gateway goes on.
GiveUp ==
  /\ center.at # "ended"
  /\ center' = Ended("ERR")
  /\ UNCHANGED <<kind, image, work, tables, note, history>>

(* The gateway. *)
BeginExecution ==
  /\ work.at = "posted"
  /\ execution' = [execution EXCEPT ![work.case] = [NoExecution EXCEPT !.build = image]]
  /\ work' = [work EXCEPT !.at = "run", !.build = image]
  /\ ran' = ran \cup {image}
  /\ UNCHANGED <<kind, image, center, receipt, budget, note, restarts, served>>

Now == Cases[work.case]
Tokens == Least(Asked[Now], Cap(work.build))
Does(op) == work.at = "run" /\ Plan(work.build, Now)[work.step] = op
Onward(w) == work' = [w EXCEPT !.step = @ + 1]

\* close_execution and the answer.
Close(w, status) ==
  /\ execution' = [execution EXCEPT ![work.case] =
       [closed |-> TRUE, build |-> w.build, status |-> status, attempts |-> w.attempts, provided |-> w.provided,
        results |-> w.results, events |-> w.events]]
  /\ work' = NoWork
  /\ center' = Answered(status)

(* BudgetLedger for the client of one token; the other clients stay below their 1000, but who *)
(* asked questions all hour.                                                                   *)
Metered == Now \in {"first", "exhausted"}
Held == IF budget.current THEN budget.tokens ELSE 0
Admits == IF Metered THEN {Held + Tokens <= 1}
          ELSE IF Now = "chat" THEN BOOLEAN
          ELSE {TRUE}

Reserve == \E admitted \in Admits:
  /\ Does("reserve")
  /\ IF admitted
       THEN /\ budget' = IF Metered THEN [tokens |-> Held + Tokens, current |-> TRUE] ELSE budget
            /\ Onward([work EXCEPT !.events = Append(@, "reserve")])
            /\ UNCHANGED <<execution, center>>
       ELSE /\ Close([work EXCEPT !.events = Append(@, "reject")], 429)
            /\ budget' = IF Metered THEN [tokens |-> Held, current |-> TRUE] ELSE budget
  /\ UNCHANGED <<kind, image, receipt, note, history>>

Settle ==
  /\ Does("settle")
  /\ budget' = IF Metered THEN [budget EXCEPT !.tokens = @ - Tokens + work.out] ELSE budget
  /\ Onward([work EXCEPT !.events = Append(@, "settle")])
  /\ UNCHANGED <<kind, image, center, execution, receipt, note, history>>

NewHour ==
  /\ budget.current
  /\ budget' = [budget EXCEPT !.current = FALSE]
  /\ UNCHANGED <<kind, image, center, work, execution, receipt, note, history>>

(* RecordingClient.converse. *)
Paid == work.events # <<>>
Converse == \E out \in {1, Tokens}, fails \in BOOLEAN:
  /\ Does("converse")
  /\ LET w == [work EXCEPT !.attempts = @ + 1] IN
     IF w.attempts > 1
       THEN /\ Close(w, 502)
            /\ UNCHANGED <<budget, served>>
       ELSE /\ served' = Append(served, [case |-> Now, tokens |-> Tokens, out |-> out, paid |-> Paid])
            /\ IF fails
                 THEN \* The learner's function gives back what it had reserved.
                      /\ Close([w EXCEPT !.provided = 1, !.events = IF Paid THEN Append(@, "cancel") ELSE @], 502)
                      /\ budget' = IF Paid /\ Metered THEN [budget EXCEPT !.tokens = @ - Tokens] ELSE budget
                 ELSE /\ Onward([w EXCEPT !.provided = 1, !.results = 1, !.out = out])
                      /\ UNCHANGED <<execution, budget, center>>
  /\ UNCHANGED <<kind, image, receipt, note, restarts, ran>>

\* ValueError, NotImplementedError.
Invalid == /\ Does("invalid")
           /\ Close(work, IF work.attempts > 0 THEN 502 ELSE 422)
           /\ UNCHANGED <<kind, image, receipt, budget, note, history>>
Incomplete == /\ Does("incomplete")
              /\ Close(work, IF work.attempts > 0 THEN 502 ELSE 501)
              /\ UNCHANGED <<kind, image, receipt, budget, note, history>>

\* observed_result: the function returns the answer of its one call.
Observed == work.attempts = 1 /\ work.results = 1
NotObserved ==
  /\ Does("return") /\ ~Observed
  /\ Close(work, 502)
  /\ UNCHANGED <<kind, image, receipt, budget, note, history>>
SaveReceipt ==
  /\ Does("return") /\ Observed
  /\ receipt' = [receipt EXCEPT ![work.case] =
       [build |-> work.build, effective |-> Tokens, out |-> work.out, events |-> work.events]]
  /\ work' = [work EXCEPT !.at = "saved"]
  /\ UNCHANGED <<kind, image, center, execution, budget, note, history>>
CloseExecution ==
  /\ work.at = "saved"
  /\ Close(work, 200)
  /\ UNCHANGED <<kind, image, receipt, budget, note, history>>

\* The container is replaced, or dies and starts again; requests to it fail.
Restart == \E b \in Builds:
  /\ center.at # "ended" /\ restarts < MaxRestarts
  /\ restarts' = restarts + 1
  /\ image' = b
  /\ work' = NoWork
  /\ execution' = Empty(NoExecution) /\ receipt' = Empty(NoReceipt) /\ budget' = NoBudget
  /\ center' = IF center.at = "sent" THEN Ended("ERR") ELSE center
  /\ UNCHANGED <<kind, note, ran, served>>

(* The verifier. *)
ReadBuild ==
  /\ center.at = "verify"
  /\ note' = [NoNote EXCEPT !.build = image]
  /\ center' = [center EXCEPT !.at = "check"]
  /\ UNCHANGED <<kind, image, work, tables, history>>

Matching(n) == /\ execution[n].closed
               /\ execution[n].build = note.build
               /\ execution[n].status = Expected[Cases[n]]
Calls(n) == <<execution[n].attempts, execution[n].provided, execution[n].results>>
Untouched(n) == /\ receipt[n] = NoReceipt
                /\ Calls(n) = <<0, 0, 0>>
                /\ execution[n].events = IF execution[n].status = 422 THEN <<>> ELSE <<"reject">>
Received(n) == /\ Calls(n) = <<1, 1, 1>>
               /\ receipt[n].build = note.build
               /\ receipt[n].events = <<"reserve", "settle">>
               /\ receipt[n].out \in 0..receipt[n].effective
               /\ Cases[n] = "risk" \/ receipt[n].effective = Wanted[Cases[n]]
CaseHolds(n) == Matching(n) /\ IF execution[n].status = 200 THEN Received(n) ELSE Untouched(n)

\* An execution, then its receipt, which is not read again.
CheckCase == LET n == note.case IN
  /\ center.at = "check" /\ n \in DOMAIN Cases
  /\ IF CaseHolds(n)
       THEN /\ note' = [note EXCEPT !.case = @ + 1, !.risk = IF Cases[n] = "risk" THEN receipt[n] ELSE @]
            /\ UNCHANGED center
       ELSE center' = Ended("ERR") /\ UNCHANGED note
  /\ UNCHANGED <<kind, image, work, tables, history>>

Judged == IF kind = "preflight" \/ note.risk.effective = 128 THEN "PASS"
          ELSE IF note.risk.effective > 128 /\ note.risk.out > 128 THEN "HIT"
          ELSE "ERR"
FinalBuild ==
  /\ center.at = "check" /\ note.case \notin DOMAIN Cases
  /\ center' = Ended(IF image = note.build THEN Judged ELSE "ERR")
  /\ UNCHANGED <<kind, image, work, tables, note, history>>

Gateway == BeginExecution \/ Reserve \/ Settle \/ Converse \/ Invalid \/ Incomplete \/ NotObserved \/ SaveReceipt \/ CloseExecution
Next == Send \/ GiveUp \/ Gateway \/ NewHour \/ Restart \/ ReadBuild \/ CheckCase \/ FinalBuild
Spec == Init /\ [][Next]_vars

Events == {"reserve", "reject", "settle", "cancel"}
ReceiptRows == [build: Builds \cup {"none"}, effective: 0..512, out: 0..512, events: Seq(Events)]
TypeOK == /\ kind \in DOMAIN Contract /\ image \in Builds
          /\ center \in [at: {"send", "sent", "verify", "check", "ended"}, case: 1..5,
                         verdict: {"none", "PASS", "HIT", "ERR", "shown"}]
          /\ work.at \in {"none", "posted", "run", "saved"} /\ work.step \in 1..4 /\ work.events \in Seq(Events)
          /\ budget \in [tokens: -1..1, current: BOOLEAN]
          /\ \A n \in DOMAIN Cases: receipt[n] \in ReceiptRows /\ execution[n].status \in {0, 200, 422, 429, 501, 502}
          /\ note.risk \in ReceiptRows /\ restarts \in 0..MaxRestarts /\ ran \subseteq Builds

\* A verification passes only when one build, the one the verifier found, ran every case, and
\* the provider got exactly the calls of the contract, each with the tokens it wants and none
\* before its tokens were reserved: neither the invalid request nor the one beyond the budget
\* reached it.  One that finds the cap missing has more than 128 tokens of output to show.
\* A preflight that passes made its one call, reserved or not.
Reached == [n \in DOMAIN served |-> <<served[n].case, served[n].tokens>>]
VerdictIsTrue ==
  /\ center.verdict = "PASS" =>
       /\ ran = {note.build}
       /\ IF kind = "preflight" THEN Reached = <<<<"preflight", 2>>>>
          ELSE /\ Reached = <<<<"normal", 64>>, <<"risk", 128>>, <<"first", 1>>>>
               /\ \A n \in DOMAIN served: served[n].paid
  /\ center.verdict = "HIT" => \E n \in DOMAIN served: served[n].case = "risk" /\ served[n].out > 128
================================================================================

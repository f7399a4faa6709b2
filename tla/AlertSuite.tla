------------------------------ MODULE AlertSuite -------------------------------
(***************************************************************************)
(* Verifications of mission P20 from several sessions at a time: the       *)
(* control center (run_alert_checks), the notice service with its ledger   *)
(* and executor (h20-alert-dashboard), and the verifier                    *)
(* (p20_verification.py).  Prometheus, Alertmanager and Grafana are        *)
(* external.                                                               *)
(*                                                                         *)
(* Prometheus scrapes and evaluates each second, and the executor waits    *)
(* for it: a step that waited for some seconds finds the alert evaluated.  *)
(* The rule and the dashboard change together here.                        *)
(***************************************************************************)
EXTENDS Integers, Sequences

CONSTANTS Suites, NoSuite,
          Rebuilds    \* bound: how often the learner applies another configuration

Builds == {"starter",  \* never fires, and its duration is refused
           "broad",    \* also counts what is refused to others (practice "background")
           "good"}
Declared == Builds \ {"starter"}

VARIABLES file, loaded,  \* the configuration in the service's image, and in Prometheus and Grafana
          rebuilds,
          alert,    \* its state, and the suites that waited for it when it fired
          recent,   \* refusals of the last 20 s: suite and practice
          mail,     \* Alertmanager's notifications on their way to the service
          wire,     \* suites whose /v1/run is on its way
          db,       \* tables runs, suites, execution_builds, product_snapshots, by suite
          exec,     \* the request that holds run_lock
          log,      \* a suite's requests and alert states, and its notifications, by their times:
                    \* how much of what should be has come, or Off when anything else came
          old,      \* suites begun more than 180 s ago
          run,      \* the control center, by suite
          counted   \* the suites whose refusals a suite's alert counted (history)

products == <<file, loaded, rebuilds>>
center == <<wire, old, run>>
vars == <<products, alert, recent, mail, center, db, exec, log, counted>>

Timeline == <<"normal", "risk", "pending", "firing", "recovery", "inactive">>
Notices == <<"fired", "resolved">>
Off == 9
Empty == [times |-> 0, notices |-> 0]

Phases == {"none", "prepare", "normal", "risk", "recovery"}
Nothing == [status |-> "none", phase |-> "none", closed |-> FALSE, build |-> "none",
            before |-> "none", after |-> "none"]
Idle == [suite |-> NoSuite, at |-> "idle"]
Calm == [state |-> "inactive", of |-> NoSuite]

Init == /\ file \in Builds /\ loaded = file /\ rebuilds = 0
        /\ alert = Calm /\ recent = {} /\ mail = <<>>
        /\ wire = {} /\ old = {}
        /\ db = [s \in Suites |-> Nothing]
        /\ exec = Idle
        /\ log = [s \in Suites |-> Empty] /\ counted = [s \in Suites |-> {}]
        /\ run = [s \in Suites |-> [at |-> "new", source |-> "none", verdict |-> "none"]]

(* Prometheus and Alertmanager. *)
Counted == CASE loaded = "good" -> {r \in recent: r[2] = "P20"}
             [] loaded = "broad" -> recent
             [] OTHER -> {}
Condition == Counted # {}

\* Only the suite that is being run has a log that still matters.
Advance(n, expected, entry) == IF n < Len(expected) /\ expected[n + 1] = entry THEN n + 1 ELSE Off
Logs == exec.suite # NoSuite /\ db[exec.suite].phase # "none" /\ ~db[exec.suite].closed
Logged(entry) ==
  IF Logs THEN [log EXCEPT ![exec.suite].times = Advance(@, Timeline, entry)] ELSE log
Noticed(status) ==
  IF Logs THEN [log EXCEPT ![exec.suite].notices = Advance(@, Notices, status)] ELSE log
Risked == exec.suite # NoSuite /\ db[exec.suite].phase \in {"risk", "recovery"}

Pend == /\ alert.state = "inactive" /\ Condition
        /\ alert' = [Calm EXCEPT !.state = "pending"]
        /\ log' = Logged("pending")
        /\ UNCHANGED <<products, recent, mail, center, db, exec, counted>>

Fire == /\ alert.state = "pending" /\ Condition
        /\ alert' = [state |-> "firing", of |-> IF Risked THEN exec.suite ELSE NoSuite]
        /\ mail' = Append(mail, [status |-> "fired", of |-> alert'.of])
        /\ log' = Logged("firing")
        /\ counted' = IF Risked THEN [counted EXCEPT ![exec.suite] = @ \cup {r[1]: r \in Counted}]
                      ELSE counted
        /\ UNCHANGED <<products, recent, center, db, exec>>

Resolve == /\ alert.state # "inactive" /\ ~Condition
           /\ alert' = Calm
           /\ mail' = IF alert.state = "firing"
                        THEN Append(mail, [status |-> "resolved", of |-> alert.of]) ELSE mail
           /\ log' = Logged("inactive")
           /\ UNCHANGED <<products, recent, center, db, exec, counted>>

\* Twenty seconds after a suite's refusals: a rule that counts them has fired by then.
Leave == \E s \in {r[1]: r \in recent}:
  /\ Condition => alert.state = "firing"
  /\ recent' = {r \in recent: r[1] # s}
  /\ UNCHANGED <<products, alert, mail, center, db, exec, log, counted>>

(* The control center, and the verifier's preflight. *)
Ended(s, verdict) == [run EXCEPT ![s] = [at |-> "ended", source |-> "none", verdict |-> verdict]]
Told(s, at) == IF run[s].at # "sent" THEN run
               ELSE IF at = "ended" THEN Ended(s, "ERR") ELSE [run EXCEPT ![s].at = at]
server == <<alert, recent, mail, db, exec, log, counted>>

Preflight == \E s \in Suites:
  /\ run[s].at = "new"
  /\ run' = IF loaded \in Declared /\ file = loaded
              THEN [run EXCEPT ![s].at = "ready", ![s].source = file] ELSE Ended(s, "ERR")
  /\ UNCHANGED <<products, wire, old, server>>

Send == \E s \in Suites:
  /\ run[s].at = "ready"
  /\ run' = [run EXCEPT ![s].at = "sent"]
  /\ wire' = wire \cup {s}
  /\ UNCHANGED <<products, old, server>>

GiveUp == \E s \in Suites:
  /\ run[s].at \in {"ready", "sent", "check", "products"}
  /\ run' = Ended(s, "ERR")
  /\ UNCHANGED <<products, wire, old, server>>

Age == \E s \in Suites \ old:
  /\ run[s].at # "new"
  /\ old' = old \cup {s}
  /\ UNCHANGED <<products, wire, run, server>>

(* The service: run, with the executor. *)
Occupied(s) == \E t \in Suites \ ({s} \cup old): db[t].status \notin {"none", "complete"}
Claimable(s) == exec = Idle /\ s \notin old /\ ~Occupied(s)

Claim == \E s \in wire:
  /\ Claimable(s)
  /\ wire' = wire \ {s}
  /\ exec' = [suite |-> s, at |-> "claimed"]
  /\ db' = [db EXCEPT ![s].status = "running"]
  /\ UNCHANGED <<products, alert, recent, mail, old, run, log, counted>>

\* The lock is taken, another run owns the window, or the request is too late.
Refuse == \E s \in wire:
  /\ ~Claimable(s)
  /\ wire' = wire \ {s}
  /\ run' = Told(s, "ended")
  /\ UNCHANGED <<products, old, server>>

At(from, to) == /\ exec.at = from
                /\ exec' = [exec EXCEPT !.at = to]
                /\ UNCHANGED <<products, alert, mail, center, counted>>
Mine == exec.suite
Current == db[Mine].build = file

\* What the executor polls for.
Wait(from, state, to) == At(from, to) /\ alert.state = state /\ UNCHANGED <<recent, db, log>>
Quiet == Wait("claimed", "inactive", "quiet")
SeePending == Wait("risk", "pending", "pending")
SeeFiring == Wait("pending", "firing", "firing")
SeeResolved == Wait("answered", "inactive", "over")

Prepare == /\ At("quiet", "prepare")
           /\ Mine \notin old /\ ~Occupied(Mine)
           /\ db' = [db EXCEPT ![Mine].phase = "prepare", ![Mine].build = file, ![Mine].before = loaded]
           /\ UNCHANGED <<recent, log>>

\* run_phase, for the other phases.
RunPhase(phase, refused) ==
  /\ Mine \notin old /\ Current
  /\ db' = [db EXCEPT ![Mine].phase = phase]
  /\ log' = Logged(phase)
  /\ recent' = recent \cup ({Mine} \X refused)
NormalRequests == At("prepare", "normal") /\ RunPhase("normal", {"background"})
RiskRequests == At("marked", "risk") /\ RunPhase("risk", {"P20"})
\* The alert has been seen firing once more just before.
RecoveryRequest == At("firing", "recovery") /\ alert.state = "firing" /\ RunPhase("recovery", {})

\* mark_checkpoint.  The first comes after eight seconds without an alert.
Mark(from, to) == At(from, to) /\ Mine \notin old /\ Current /\ UNCHANGED <<recent, db, log>>
MarkNormal == Mark("normal", "marked") /\ alert.state = "inactive" /\ ~Condition
MarkAfter == Mark("recovery", "answered")

\* A pair among others is found too.
Matched(notices) == notices \in {Len(Notices), Off}
CloseObservation ==
  /\ At("over", "closed")
  /\ Mine \notin old /\ Current /\ Matched(log[Mine].notices)
  /\ db' = [db EXCEPT ![Mine].closed = TRUE, ![Mine].after = loaded]
  /\ UNCHANGED <<recent, log>>

\* finish_run.
Release(answer) == exec' = Idle /\ run' = Told(Mine, answer)
Finish == /\ exec.at = "closed" /\ Release("check")
          /\ db' = [db EXCEPT ![Mine].status = "complete"]
          /\ UNCHANGED <<products, alert, recent, mail, wire, old, log, counted>>
\* A run that fails, or that is left running by a process that dies or a ledger that stays locked:
\* the next ones find it not complete, and nothing else of it is looked at.
Ruin(answer) == /\ Release(answer)
                /\ db' = [db EXCEPT ![Mine] = [Nothing EXCEPT !.status = "error"]]
                /\ log' = [log EXCEPT ![Mine] = Empty] /\ counted' = [counted EXCEPT ![Mine] = {}]
Fail == /\ exec # Idle /\ \E answer \in {"check", "ended"}: Ruin(answer)
        /\ UNCHANGED <<products, alert, recent, mail, wire, old>>

\* Another image of the service ends what is being run; Prometheus and Grafana get theirs apart.
Rebuild == \E b \in Builds:
  /\ rebuilds < Rebuilds /\ b # file
  /\ file' = b /\ rebuilds' = rebuilds + 1
  /\ IF exec = Idle THEN UNCHANGED <<db, exec, log, counted, run>>
     ELSE Ruin("ended")
  /\ UNCHANGED <<loaded, alert, recent, mail, wire, old>>

Reload == /\ loaded # file /\ loaded' = file
          /\ UNCHANGED <<file, rebuilds, center, server>>

\* notification.  One about an alert that others caused is told apart by its beginning.
Deliver == /\ mail # <<>> /\ mail' = Tail(mail)
           /\ log' = IF Risked THEN Noticed(IF Head(mail).of = Mine THEN Head(mail).status ELSE "stale")
                     ELSE log
           /\ UNCHANGED <<products, alert, recent, center, db, exec, counted>>
LoseMail == /\ mail # <<>> /\ mail' = Tail(mail)
            /\ UNCHANGED <<products, alert, recent, center, db, exec, log, counted>>

(* The verifier: the record with the build, then the products. *)
CheckRecord == \E s \in Suites:
  /\ run[s].at = "check"
  /\ run' = IF db[s].status = "complete" /\ db[s].closed /\ db[s].build = file /\ s \notin old
              THEN [run EXCEPT ![s].at = "products"] ELSE Ended(s, "ERR")
  /\ UNCHANGED <<products, wire, old, server>>

InTime(s) == log[s] = [times |-> Len(Timeline), notices |-> Len(Notices)]
Unchanged(s) == db[s].before = loaded /\ db[s].after = loaded /\ db[s].build = file /\ file = loaded
Sound(s) == Unchanged(s) /\ InTime(s) /\ loaded \in Declared /\ db[s].build = run[s].source
CheckProducts == \E s \in Suites:
  /\ run[s].at = "products"
  /\ run' = Ended(s, IF Sound(s) THEN "PASS" ELSE "ERR")
  /\ UNCHANGED <<products, wire, old, server>>

Prometheus == Pend \/ Fire \/ Resolve \/ Leave \/ Deliver \/ LoseMail
Control == Preflight \/ Send \/ GiveUp \/ Age \/ CheckRecord \/ CheckProducts
Executor == \/ Claim \/ Refuse \/ Quiet \/ Prepare \/ NormalRequests \/ MarkNormal \/ RiskRequests
            \/ SeePending \/ SeeFiring \/ RecoveryRequest \/ MarkAfter \/ SeeResolved
            \/ CloseObservation \/ Finish \/ Fail
Next == Prometheus \/ Rebuild \/ Reload \/ Control \/ Executor
Spec == Init /\ [][Next]_vars

Begun == {"sent", "check", "products", "ended"}
TypeOK == /\ {file, loaded} \subseteq Builds /\ rebuilds \in 0..Rebuilds
          /\ alert \in [state: {"inactive", "pending", "firing"}, of: Suites \cup {NoSuite}]
          /\ recent \subseteq Suites \X {"P20", "background"}
          /\ mail \in Seq([status: {"fired", "resolved"}, of: Suites \cup {NoSuite}])
          /\ wire \subseteq Suites /\ old \subseteq Suites
          /\ db \in [Suites -> [status: {"none", "running", "complete", "error"}, phase: Phases,
                                closed: BOOLEAN, build: Builds \cup {"none"},
                                before: Builds \cup {"none"}, after: Builds \cup {"none"}]]
          /\ exec.suite \in Suites \cup {NoSuite} /\ (exec.suite = NoSuite <=> exec.at = "idle")
          /\ log \in [Suites -> [times: 0..Len(Timeline) \cup {Off}, notices: 0..Len(Notices) \cup {Off}]]
          /\ run \in [Suites -> [at: {"new", "ready"} \cup Begun, source: Declared \cup {"none"},
                                 verdict: {"none", "PASS", "ERR"}]]
          /\ counted \in [Suites -> SUBSET Suites]

\* A verification passes only with the rule that counts P20's refusals alone, and the alert it saw
\* counted the refusals of no suite but its own, though another may have ended in the window.
VerdictIsTrue == \A s \in Suites: run[s].verdict = "PASS" => db[s].build = "good" /\ counted[s] = {s}
================================================================================

------------------------------- MODULE Console --------------------------------
(***************************************************************************)
(* One page of the control center in a browser (app.js): its start, the    *)
(* verifications and resource operations it asks for, questions to the     *)
(* learner's function, what it remembers in sessionStorage, and the marks  *)
(* of completed missions, which it reads when it gets the focus and sets   *)
(* after its own verifications.  All of it is callbacks between awaits:    *)
(* answers come late, in another order, after a restart of the control     *)
(* center or after a reset of the exercises, which has a new generation.   *)
(*                                                                         *)
(* Missions do not touch each other's records, results and marks: those of *)
(* one, Followed, are modelled, and of another whether a result is on show *)
(* is left open.  Generations and sessions are numbered.  "at" counts the  *)
(* operations of this page that were over when the server was read.        *)
(***************************************************************************)
EXTENDS Integers, FiniteSets

CONSTANTS Missions, First, Followed, None,
          MaxRuns,       \* operations one page asks for
          MaxRestores,   \* times one page reads the records
          MaxSession     \* restarts of the control center, plus one

VARIABLES server,    \* generation, session that is valid, and the record of Followed
          boot,      \* how far bootstrap() came
          tab,       \* the page: its token, pending operation, mission and result on show
          run,       \* the operation that is pending
          runs,      \* operations asked for by this page, and those that are over
          badge,     \* completedPractices and recheckPractices
          results,   \* missionResults: that of Followed
          generation, \* currentResetGeneration
          restores,  \* readings of the records on their way
          revision,  \* progressRequest
          stored     \* sessionStorage

page == <<boot, tab, run, runs, badge, results, generation, restores, revision>>
vars == <<server, page, stored>>

NoRun == [mission |-> None, kind |-> "none", at |-> "none", verdict |-> "none", gen |-> 0]
NoMark == [mark |-> "none", at |-> 0]
Blank == [csrf |-> 0, pending |-> FALSE, active |-> First, shown |-> None, early |-> FALSE]

Opened == /\ boot' = "fetch" /\ tab' = Blank /\ run' = NoRun /\ runs' = [asked |-> 0, over |-> 0]
          /\ badge' = NoMark /\ results' = None /\ generation' = 0
          /\ restores' = {} /\ revision' = 0

Init == /\ server = [gen |-> 1, session |-> 1, rec |-> "none"]
        /\ boot = "fetch" /\ tab = Blank /\ run = NoRun /\ runs = [asked |-> 0, over |-> 0]
        /\ badge = NoMark /\ results = None /\ generation = 0
        /\ restores = {} /\ revision = 0
        /\ stored = [results |-> None, gen |-> 0, view |-> None]

(* The server. *)
\* The record of a mission that was passed before: to be checked again.
Began(rec) == IF rec = "done" THEN "recheck" ELSE rec
\* Another page passes the mission; a verification begins there, or another build is found.
Elsewhere == /\ \E rec \in {"done", Began(server.rec)} \ {server.rec}: server' = [server EXCEPT !.rec = rec]
             /\ UNCHANGED <<page, stored>>

\* A request that was under way is lost to the page.
Dropped == run' = IF run.at \in {"wire", "running"} THEN [run EXCEPT !.at = "lost"] ELSE run

RestartCenter == /\ server.session < MaxSession
                 /\ server' = [server EXCEPT !.session = @ + 1]
                 /\ Dropped
                 /\ UNCHANGED <<boot, tab, runs, badge, results, generation, restores, revision, stored>>

Reset == /\ server.session < MaxSession
         /\ server' = [gen |-> server.gen + 1, session |-> server.session + 1,
                       rec |-> "none"]
         /\ Dropped
         /\ UNCHANGED <<boot, tab, runs, badge, results, generation, restores, revision, stored>>

(* What is shown, and remembered. *)
Displays(m, held) == IF m # Followed THEN {m, None} ELSE IF held # None THEN {m} ELSE {None}

\* selectTab: the tabs are disabled while an operation is pending.
Selectable == ~tab.pending

Select == \E m \in Missions \ {tab.active}:
  /\ Selectable
  /\ \E shown \in Displays(m, results): tab' = [tab EXCEPT !.active = m, !.shown = shown]
  /\ UNCHANGED <<server, boot, run, runs, badge, results, generation, restores, revision, stored>>

\* pagehide saves the view of a page that is ready; what is in memory is gone.
Saved(kept) == IF boot = "ready" THEN [kept EXCEPT !.view = tab.active] ELSE kept
Reload == /\ boot # "fetch"
          /\ stored' = Saved(stored)
          /\ Opened
          /\ UNCHANGED server

\* syncResetGeneration
Known(g) == stored.gen = g \/ generation = g
Forgotten(g) == [stored EXCEPT !.results = None, !.gen = g]

(* The start of the page. *)
Read(n) == [n |-> n, state |-> "asked", at |-> 0, gen |-> 0, rec |-> "none",
            first |-> boot = "fetch"]

Bootstrap == LET g == server.gen
                 kept == IF Known(g) THEN stored ELSE Forgotten(g)
             IN
  /\ boot = "fetch"
  /\ boot' = "restoring"
  /\ stored' = kept /\ results' = kept.results
  /\ generation' = IF Known(g) THEN generation ELSE g
  /\ \E shown \in Displays(First, kept.results):
       tab' = [tab EXCEPT !.csrf = server.session, !.active = First, !.shown = shown]
  /\ revision' = revision + 1
  /\ restores' = restores \cup {Read(revision + 1)}
  /\ UNCHANGED <<server, run, runs, badge>>

\* restoreCurrentView, after the result of P00 was asked for.
BootView == /\ boot = "view"
            /\ boot' = "ready"
            /\ \/ stored.view = None /\ tab' = tab
               \/ /\ stored.view # None
                  /\ \E shown \in Displays(stored.view, results):
                       tab' = [tab EXCEPT !.active = stored.view, !.shown = shown]
            /\ UNCHANGED <<server, run, runs, badge, results, generation, restores, revision, stored>>

(* restorePracticeProgress *)
Focus == /\ tab.csrf # 0 /\ ~tab.pending
         /\ boot # "fetch" /\ revision < MaxRestores
         /\ revision' = revision + 1
         /\ restores' = restores \cup {Read(revision + 1)}
         /\ UNCHANGED <<server, boot, tab, run, runs, badge, results, generation, stored>>

ServeRestore == \E r \in restores:
  /\ r.state = "asked"
  /\ restores' = (restores \ {r}) \cup
       {[r EXCEPT !.state = "read", !.at = runs.over, !.gen = server.gen, !.rec = server.rec]}
  /\ UNCHANGED <<server, boot, tab, run, runs, badge, results, generation, revision, stored>>

Applicable(r) == r.n = revision /\ ~tab.pending
Onward(r) == boot' = IF r.first THEN "view" ELSE boot

IgnoreRestore == \E r \in restores:
  /\ r.state = "read" /\ ~Applicable(r)
  /\ restores' = restores \ {r} /\ Onward(r)
  /\ UNCHANGED <<server, tab, run, runs, badge, results, generation, revision, stored>>

Marked(r) == [mark |-> r.rec, at |-> r.at]

\* A new generation clears what is remembered; the page is loaded again when it had noted
\* another one before.
ApplyRestore == \E r \in restores:
  /\ r.state = "read" /\ Applicable(r)
  /\ \/ /\ Known(r.gen)
        /\ badge' = Marked(r)
        /\ restores' = restores \ {r} /\ Onward(r)
        /\ UNCHANGED <<tab, run, runs, results, generation, revision, stored>>
     \/ /\ ~Known(r.gen) /\ generation = 0
        /\ stored' = Forgotten(r.gen) /\ results' = None /\ generation' = r.gen
        /\ badge' = Marked(r)
        /\ restores' = restores \ {r} /\ Onward(r)
        /\ UNCHANGED <<tab, run, runs, revision>>
     \/ /\ ~Known(r.gen) /\ generation # 0
        /\ stored' = Saved(Forgotten(r.gen))
        /\ Opened
  /\ UNCHANGED server

\* No answer, or not a good one.
FailRestore == \E r \in restores:
  /\ restores' = restores \ {r} /\ Onward(r)
  /\ badge' = IF Applicable(r) THEN [badge EXCEPT !.mark = Began(@)] ELSE badge
  /\ UNCHANGED <<server, tab, run, runs, results, generation, revision, stored>>

(* execute *)
\* cacheGradingResult; showGradingWait keeps nothing.
Keep(result) == results' = result /\ stored' = [stored EXCEPT !.results = result]

\* A verification forgets the last result of its mission and takes its mark away.
Kinds(m) == IF m = Followed THEN {"verify", "resource"} ELSE {"resource"}
Click == \E kind \in Kinds(tab.active):
  /\ ~tab.pending /\ runs.asked < MaxRuns
  /\ runs' = [runs EXCEPT !.asked = @ + 1]
  /\ revision' = revision + 1
  /\ run' = [NoRun EXCEPT !.mission = tab.active, !.kind = kind, !.at = "session"]
  /\ tab' = [tab EXCEPT !.pending = TRUE, !.shown = None, !.early = boot # "ready"]
  /\ IF kind = "verify"
       THEN /\ Keep(None)
            /\ badge' = [mark |-> Began(badge.mark), at |-> runs.asked + 1]
       ELSE UNCHANGED <<results, stored, badge>>
  /\ UNCHANGED <<server, boot, generation, restores>>

\* refreshBrowserSession: checked less than a minute ago, checked now, or connected anew.
Refresh == /\ run.at = "session"
           /\ \/ tab' = tab /\ run' = [run EXCEPT !.at = "wire"]
              \/ tab.csrf # 0 /\ tab' = [tab EXCEPT !.csrf = server.session] /\ run' = [run EXCEPT !.at = "wire"]
              \/ tab.csrf # 0 /\ tab' = tab /\ run' = [run EXCEPT !.at = "lost"]
           /\ UNCHANGED <<server, boot, runs, badge, results, generation, restores, revision, stored>>

\* A token of another session is refused, and no attempt begins.
Serve == /\ run.at = "wire"
         /\ IF tab.csrf = server.session
              THEN /\ run' = [run EXCEPT !.at = "running"]
                   /\ server' = IF run.kind = "verify" THEN [server EXCEPT !.rec = Began(@)] ELSE server
              ELSE run' = [run EXCEPT !.at = "lost"] /\ server' = server
         /\ UNCHANGED <<boot, tab, runs, badge, results, generation, restores, revision, stored>>

Finish == /\ run.at = "running"
          /\ \E verdict \in {"PASS", "ERR"}:
               /\ run' = [run EXCEPT !.at = "answer", !.verdict = verdict, !.gen = server.gen]
               /\ server' = IF run.kind = "verify" /\ verdict = "PASS"
                              THEN [server EXCEPT !.rec = "done"] ELSE server
          /\ UNCHANGED <<boot, tab, runs, badge, results, generation, restores, revision, stored>>

Lose == /\ run.at \in {"wire", "running", "answer"}
        /\ run' = [run EXCEPT !.at = "lost"]
        /\ UNCHANGED <<server, boot, tab, runs, badge, results, generation, restores, revision, stored>>

Over == runs' = [runs EXCEPT !.over = runs.asked]
Shows(m) == tab' = [tab EXCEPT !.pending = FALSE, !.shown = m]

\* recordPracticeCompletion
Complete(verdict) == badge' = [mark |-> IF verdict = "PASS" THEN "done" ELSE badge.mark, at |-> runs.asked]

\* renderEnvelope shows what was answered.
Answer == LET result == [verdict |-> run.verdict, gen |-> run.gen] IN
  /\ run.at = "answer"
  /\ run' = NoRun /\ Over /\ Shows(run.mission)
  /\ IF run.kind = "verify"
       THEN Keep(result) /\ Complete(run.verdict)
       ELSE UNCHANGED <<results, stored, badge>>
  /\ UNCHANGED <<server, boot, generation, restores, revision>>

\* renderError: nothing is remembered of it.
Error == /\ run.at = "lost"
         /\ run' = NoRun /\ Over /\ Shows(run.mission)
         /\ UNCHANGED <<server, boot, badge, results, generation, restores, revision, stored>>

\* A question, a search or an upload: pending too, but neither a result nor a mark.
Chat == /\ ~tab.pending /\ runs.asked < MaxRuns
        /\ runs' = [runs EXCEPT !.asked = @ + 1]
        /\ run' = [NoRun EXCEPT !.kind = "chat", !.at = "session"]
        /\ tab' = [tab EXCEPT !.pending = TRUE]
        /\ UNCHANGED <<server, boot, badge, results, generation, restores, revision, stored>>
ChatEnds == /\ run.kind = "chat"
            /\ run' = NoRun /\ Over
            /\ tab' = [tab EXCEPT !.pending = FALSE]
            /\ UNCHANGED <<server, boot, badge, results, generation, restores, revision, stored>>

Next == \/ Elsewhere \/ RestartCenter \/ Reset \/ Select \/ Reload \/ Bootstrap \/ BootView \/ Focus
        \/ ServeRestore \/ IgnoreRestore \/ ApplyRestore \/ FailRestore \/ Click
        \/ run.kind # "chat" /\ (Refresh \/ Serve \/ Finish \/ Lose \/ Answer \/ Error)
        \/ Chat \/ ChatEnds

Spec == Init /\ [][Next]_vars

-----------------------------------------------------------------------------
Generations == 1..MaxSession
Results == {None} \cup [verdict: {"PASS", "ERR"}, gen: Generations]
TypeOK == /\ server.gen \in Generations /\ server.session \in Generations
          /\ boot \in {"fetch", "restoring", "view", "ready"}
          /\ tab.csrf \in {0} \cup Generations /\ tab.active \in Missions /\ tab.shown \in Missions \cup {None}
          /\ run.at \in {"none", "session", "wire", "running", "answer", "lost"}
          /\ badge \in [mark: {"none", "done", "recheck"}, at: 0..MaxRuns]
          /\ results \in Results /\ stored.results \in Results
          /\ generation \in {0} \cup Generations /\ stored.gen \in {0} \cup Generations

\* The marks of the records never take the place of what an operation of the page, begun
\* after they were read, left: when no operation is pending, a restore that may be applied
\* was read after the last one (restorePracticeProgress, progressRequest).  The page's first
\* restore is asked for only after bootstrap's answers, so an operation begun before the page
\* was ready may be over by the time it is applied.
MarksAreNewest == \A r \in restores:
  r.state = "read" /\ Applicable(r) /\ ~(r.first /\ tab.early) => r.at >= badge.at

\* A page that noted a generation keeps no result of an earlier one, neither in memory nor in
\* sessionStorage, also when the answer came after the reset (syncResetGeneration).
ResultsAreCurrent == /\ results # None => results.gen >= stored.gen
                     /\ stored.results # None => stored.results.gen >= stored.gen

\* What is shown belongs to the mission on show, unless the operation was begun before the page
\* was ready: then restoreCurrentView may come in between.
ShownIsOfTheMission == boot = "ready" /\ ~tab.early /\ tab.shown # None => tab.shown = tab.active

BadgesAreTrue == MarksAreNewest /\ ResultsAreCurrent /\ ShownIsOfTheMission
=============================================================================

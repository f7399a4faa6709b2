----------------------------- MODULE ControlCenter -----------------------------
(***************************************************************************)
(* The control center's requests (guided-control-center/server.py,         *)
(* progress.py): the browser sessions kept in memory, the two sets that    *)
(* say what is busy, and the installation's completion records.            *)
(*                                                                         *)
(* Handlers and the middleware around them run on one event loop and give  *)
(* way only where they await; the dependency that reads the session, and   *)
(* the start page, run in threads.  So a request that was let in may be    *)
(* overtaken between the middleware, the dependency, the handler and the   *)
(* recording of its result.                                                *)
(***************************************************************************)
EXTENDS Integers, Sequences, SequencesExt, FiniteSetsExt

CONSTANTS Sessions,          \* ids in signed cookies
          Requests,          \* requests in progress
          AwsMissions,       \* P02..P04: their AWS work excludes everything else
          P01,               \* its handler is execute_suite
          OpenMissions,      \* P14..P20: no busy flag
          None,
          Capacity,          \* MAX_SESSIONS
          MaxAttempts,       \* bound on the verifications that begin
          MaxBuilds,         \* how many different builds there are of a mission
          Edited             \* bound: the missions whose build the learner changes

Missions == AwsMissions \cup {P01} \cup OpenMissions

VARIABLES sessions,          \* SESSIONS, oldest first
          active,            \* ACTIVE_SESSIONS
          resource_actions,  \* RESOURCE_ACTIONS
          progress,          \* table progress; attempts are numbered as they begin
          build,             \* the digest of each mission's running build: its number
          changed,           \* the missions with a record since which another build than
                             \* the one that passed has run (history)
          req,               \* the requests
          visit,             \* one request of the start page, in a thread
          page               \* one record that /api/progress is inspecting

vars == <<sessions, active, resource_actions, progress, build, changed, req, visit, page>>

NoRow == [attempt |-> 0, needs |-> FALSE, execution |-> 0, digest |-> 0]
NoRequest == [at |-> "idle", session |-> None, mission |-> None, kind |-> "none",
              locked |-> FALSE, attempt |-> 0, digest |-> 0]
NoVisit == [at |-> "idle", session |-> None, victim |-> None]
NoPage == [at |-> "idle", mission |-> None, execution |-> 0, digest |-> 0, current |-> 0]

Init == /\ sessions = <<>> /\ active = {} /\ resource_actions = {}
        /\ progress = [m \in Missions |-> NoRow]
        /\ build = [m \in Missions |-> 1] /\ changed = {}
        /\ req = [q \in Requests |-> NoRequest]
        /\ visit = NoVisit /\ page = NoPage

Known(s) == s \in ToSet(sessions)
Move(q, place) == req' = [req EXCEPT ![q].at = place]
End(q) == req' = [req EXCEPT ![q] = NoRequest]

\* Mutant of Kinds: every mission has a direct use.
KindsAll(m) == {"verify", "chat"}

\* The middleware takes the mission's lock for a verification or a preparation or
\* deletion of AWS resources, or refuses.  A direct use of a mission's application
\* ("chat") takes it in its handler.
Kinds(m) == {"verify"} \cup (IF m \in AwsMissions THEN {"resource", "chat"} ELSE {})

Arrive(q, s, m, kind) ==
  LET locks == m \in AwsMissions /\ kind # "chat"
  IN /\ req[q] = NoRequest
     /\ Known(s) /\ kind \in Kinds(m)
     /\ locks => m \notin resource_actions
     /\ resource_actions' = IF locks THEN resource_actions \cup {m} ELSE resource_actions
     /\ req' = [req EXCEPT ![q] =
                  [at |-> IF kind = "verify" THEN "body" ELSE "depends", session |-> s,
                   mission |-> m, kind |-> kind, locked |-> locks, attempt |-> 0, digest |-> 0]]
     /\ UNCHANGED <<sessions, active, progress, build, changed, visit, page>>

\* Verifications that began, for the bound.
Begun == MapThenSumSet(LAMBDA n: progress[n].attempt, Missions)

\* The body is awaited, and found empty; PROGRESS.begin.
Begin(q) ==
  LET m == req[q].mission
      attempt == progress[m].attempt + 1
  IN /\ req[q].at = "body"
     /\ Begun < MaxAttempts
     /\ progress' = [progress EXCEPT ![m].attempt = attempt, ![m].needs = TRUE]
     /\ req' = [req EXCEPT ![q].at = "depends", ![q].attempt = attempt]
     /\ UNCHANGED <<sessions, active, resource_actions, build, changed, visit, page>>

\* The client is gone before its body came: the middleware raises, and it is not
\* yet inside the try statement that gives the lock back.
BodyLost(q) ==
  /\ req[q].at = "body"
  /\ End(q)
  /\ UNCHANGED <<sessions, active, resource_actions, progress, build, changed, visit, page>>

\* require_csrf, in a thread.
Depends(q) ==
  /\ req[q].at = "depends"
  /\ Move(q, IF Known(req[q].session) THEN "enter" ELSE "unwind")
  /\ UNCHANGED <<sessions, active, resource_actions, progress, build, changed, visit, page>>

\* The handler: refused because the session, or for direct use the mission, is busy;
Guarded(q) == req[q].mission \notin OpenMissions
\* Mutant of Busy: the direct use of a mission only looks at its own session.
BusySession(q) == Guarded(q) /\ req[q].session \in active

Busy(q) == \/ Guarded(q) /\ req[q].session \in active
           \/ req[q].kind = "chat" /\ req[q].mission \in resource_actions

Refused(q) ==
  /\ req[q].at = "enter"
  /\ Busy(q)
  /\ Move(q, "unwind")
  /\ UNCHANGED <<sessions, active, resource_actions, progress, build, changed, visit, page>>

\* or let in.  P01 looks its session up once more, when it has been marked active.
Evicted(q) == req[q].mission = P01 /\ ~Known(req[q].session)

Enter(q) ==
  /\ req[q].at = "enter"
  /\ ~Busy(q)
  /\ active' = IF Guarded(q) THEN active \cup {req[q].session} ELSE active
  /\ resource_actions' = IF req[q].kind = "chat" THEN resource_actions \cup {req[q].mission} ELSE resource_actions
  /\ Move(q, IF Evicted(q) THEN "unwind" ELSE "work")
  /\ UNCHANGED <<sessions, progress, build, changed, visit, page>>

\* The work ends: a verification that passed brings the digest of the build it ran.
\* The handler's finally statement gives back what the handler took.
Work(q, passed) ==
  LET m == req[q].mission
  IN /\ req[q].at = "work"
     /\ passed => req[q].kind = "verify"
     /\ active' = IF Guarded(q) THEN active \ {req[q].session} ELSE active
     /\ resource_actions' = IF req[q].kind = "chat" THEN resource_actions \ {m} ELSE resource_actions
     /\ req' = [req EXCEPT ![q].at = "unwind", ![q].digest = IF passed THEN build[m] ELSE 0]
     /\ UNCHANGED <<sessions, progress, build, changed, visit, page>>

\* The middleware's finally statement.
Unwind(q) ==
  /\ req[q].at = "unwind"
  /\ resource_actions' = IF req[q].locked THEN resource_actions \ {req[q].mission} ELSE resource_actions
  /\ IF req[q].digest # 0 THEN req' = [req EXCEPT ![q].at = "record", ![q].locked = FALSE] ELSE End(q)
  /\ UNCHANGED <<sessions, active, progress, build, changed, visit, page>>
\* Mutant of IsLast: a result is recorded whatever has begun since.
IsLastAlways(q) == TRUE

\* PROGRESS.finish: only for the attempt that began last.
IsLast(q) == progress[req[q].mission].attempt = req[q].attempt

Record(q) ==
  LET m == req[q].mission
  IN /\ req[q].at = "record"
     /\ IF IsLast(q)
          THEN /\ progress' = [progress EXCEPT ![m] = [@ EXCEPT !.execution = req[q].attempt,
                                                              !.digest = req[q].digest, !.needs = FALSE]]
               /\ changed' = IF build[m] # req[q].digest THEN changed \cup {m} ELSE changed \ {m}
          ELSE UNCHANGED <<progress, changed>>
     /\ End(q)
     /\ UNCHANGED <<sessions, active, resource_actions, build, visit, page>>

\* The start page, with a cookie whose session is gone: the id is used again.
Visit(s) ==
  /\ visit = NoVisit
  /\ ~Known(s)
  /\ visit' = [NoVisit EXCEPT !.at = "room", !.session = s]
  /\ UNCHANGED <<sessions, active, resource_actions, progress, build, changed, req, page>>

\* While there is no room: the oldest session that is not active, or 503.
Idle == SelectSeq(sessions, LAMBDA s: s \notin active)

MakeRoom ==
  /\ visit.at = "room"
  /\ visit' = IF Len(sessions) < Capacity THEN [visit EXCEPT !.at = "insert"]
              ELSE IF Idle # <<>> THEN [visit EXCEPT !.at = "pop", !.victim = Idle[1]]
              ELSE NoVisit
  /\ UNCHANGED <<sessions, active, resource_actions, progress, build, changed, req, page>>

Without(victim) == SelectSeq(sessions, LAMBDA s: s # victim)

Pop ==
  /\ visit.at = "pop"
  /\ sessions' = Without(visit.victim)
  /\ visit' = [visit EXCEPT !.at = "room", !.victim = None]
  /\ UNCHANGED <<active, resource_actions, progress, build, changed, req, page>>

InsertSession ==
  /\ visit.at = "insert"
  /\ sessions' = Append(sessions, visit.session)
  /\ visit' = NoVisit
  /\ UNCHANGED <<active, resource_actions, progress, build, changed, req, page>>

\* /api/progress: a record of the history,
ReadHistory(m) ==
  /\ page = NoPage
  /\ progress[m].execution # 0 /\ ~progress[m].needs
  /\ page' = [at |-> "build", mission |-> m, execution |-> progress[m].execution,
              digest |-> progress[m].digest, current |-> 0]
  /\ UNCHANGED <<sessions, active, resource_actions, progress, build, changed, req, visit>>

\* the digest of the running build, which the verifier is asked for (or does not answer),
ReadBuild ==
  /\ page.at = "build"
  /\ page' \in {NoPage, [page EXCEPT !.at = "compare", !.current = build[page.mission]]}
  /\ UNCHANGED <<sessions, active, resource_actions, progress, build, changed, req, visit>>
\* Mutant of Marks: mark_changed looks at the mission only.
MarksAny(m) == TRUE

\* and mark_changed when they differ.
Marks(m) == progress[m].execution = page.execution

Compare ==
  LET m == page.mission
  IN /\ page.at = "compare"
     /\ progress' = IF page.current # page.digest /\ Marks(m)
          THEN [progress EXCEPT ![m].needs = TRUE] ELSE progress
     /\ page' = NoPage
     /\ UNCHANGED <<sessions, active, resource_actions, build, changed, req, visit>>

\* The learner applies another build.  A digest is that of the files (source_digest), so
\* going back to an earlier build brings its digest back.
Rebuild(m) ==
  /\ m \in Edited
  /\ \E b \in 1..MaxBuilds \ {build[m]}:
       /\ build' = [build EXCEPT ![m] = b]
       /\ changed' = IF progress[m].execution # 0 /\ b # progress[m].digest THEN changed \cup {m}
                     ELSE changed
  /\ UNCHANGED <<sessions, active, resource_actions, progress, req, visit, page>>

\* The control center is started again: only the table is kept.
Restart ==
  /\ sessions # <<>>
  /\ sessions' = <<>> /\ active' = {} /\ resource_actions' = {}
  /\ req' = [q \in Requests |-> NoRequest]
  /\ visit' = NoVisit /\ page' = NoPage
  /\ UNCHANGED <<progress, build, changed>>

Handle(q) == \/ Begin(q) \/ BodyLost(q) \/ Depends(q) \/ Refused(q) \/ Enter(q)
             \/ Unwind(q) \/ Record(q)
             \/ \E passed \in BOOLEAN: Work(q, passed)
             \/ \E s \in Sessions, m \in Missions, kind \in {"verify", "resource", "chat"}: Arrive(q, s, m, kind)

Next == \/ \E q \in Requests: Handle(q)
        \/ \E s \in Sessions: Visit(s)
        \/ MakeRoom \/ Pop \/ InsertSession
        \/ \E m \in Missions: ReadHistory(m) \/ Rebuild(m)
        \/ ReadBuild \/ Compare \/ Restart
Spec == Init /\ [][Next]_vars

Rows == [attempt: 0..MaxAttempts, needs: BOOLEAN, execution: 0..MaxAttempts, digest: 0..MaxBuilds]
RequestRecords == [at: {"idle", "body", "depends", "enter", "work", "unwind", "record"},
                   session: Sessions \cup {None}, mission: Missions \cup {None},
                   kind: {"none", "verify", "resource", "chat"}, locked: BOOLEAN,
                   attempt: 0..MaxAttempts, digest: 0..MaxBuilds]
Visits == [at: {"idle", "room", "pop", "insert"}, session: Sessions \cup {None},
           victim: Sessions \cup {None}]
Pages == [at: {"idle", "build", "compare"}, mission: Missions \cup {None},
          execution: 0..MaxAttempts, digest: 0..MaxBuilds, current: 0..MaxBuilds]

TypeOK == /\ sessions \in Seq(Sessions)
          /\ active \subseteq Sessions /\ resource_actions \subseteq AwsMissions
          /\ progress \in [Missions -> Rows] /\ build \in [Missions -> 1..MaxBuilds]
          /\ changed \subseteq Missions
          /\ req \in [Requests -> RequestRecords]
          /\ visit \in Visits /\ page \in Pages

Working(q) == req[q].at = "work" /\ Guarded(q)
\* Between taking a mission's lock and giving it back.
Holding(q) == req[q].locked \/ (req[q].at = "work" /\ req[q].kind = "chat")

\* Two requests of one session never work at the same time, nor do two requests hold
\* one AWS mission: also when the session is evicted, and its id used again, meanwhile.
OneRunner == \A p, q \in Requests: p # q =>
  /\ Working(p) /\ Working(q) => req[p].session # req[q].session
  /\ Holding(p) /\ Holding(q) => req[p].mission # req[q].mission

\* A mission shows as completed only for the verification that began last: an
\* earlier one that ends later does not count.
BadgeIsEarned == \A m \in Missions: progress[m].attempt # 0 /\ ~progress[m].needs
  => progress[m].execution = progress[m].attempt

\* A completed mission is asked to be verified again only when a verification was begun
\* after it, or another build than the one that passed has run since it was recorded:
\* whatever other pages, verifications and builds come between the page's reading of the
\* record, its question to the verifier and mark_changed.  That the passed build runs
\* again does not take the mark back.
MarkedForCause == \A m \in Missions: progress[m].execution # 0 /\ progress[m].needs
  => progress[m].attempt > progress[m].execution \/ m \in changed

\* Who is told that a request is running, is told so because one is.
BusyIsRunning == /\ \A s \in active: \E q \in Requests: Working(q) /\ req[q].session = s
                 /\ \A m \in resource_actions: \E q \in Requests: Holding(q) /\ req[q].mission = m
===============================================================================

-------------------------- MODULE ControlCenterProofs --------------------------
(***************************************************************************)
(* Proofs about ControlCenter, for any number of sessions, requests and    *)
(* missions, and whatever the bounds are, where nothing is assumed about   *)
(* the constants; and about DeliverySuite, for any number of cases.        *)
(***************************************************************************)
EXTENDS ControlCenter, TLAPS

-----------------------------------------------------------------------------
(* Shapes: the types of ControlCenter without its bounds, and without the  *)
(* list of sessions, on which nothing below depends.                       *)

\* No digest, the first one, and those a learner can bring about.
Digests == {0, 1} \cup 1..MaxBuilds

LEMMA SomeDigests == 0 \in Digests /\ 1 \in Digests
  BY DEF Digests

RequestShapes == [at: {"idle", "body", "depends", "enter", "work", "unwind", "record"},
                  session: Sessions \cup {None}, mission: Missions \cup {None},
                  kind: {"none", "verify", "resource", "chat"}, locked: BOOLEAN,
                  attempt: Nat, digest: Digests]
RowShapes == [attempt: Nat, needs: BOOLEAN, execution: Nat, digest: Digests]
PageShapes == [at: {"idle", "build", "compare"}, mission: Missions \cup {None},
               execution: Nat, digest: Digests, current: Digests]

ShapeOK == /\ req \in [Requests -> RequestShapes]
           /\ progress \in [Missions -> RowShapes]
           /\ build \in [Missions -> Digests] /\ changed \subseteq Missions
           /\ page \in PageShapes

\* What is not idle is about a mission.
AboutMission == /\ \A q \in Requests: req[q].at # "idle" => req[q].mission \in Missions
                /\ page.at # "idle" => page.mission \in Missions

Shaped == ShapeOK /\ AboutMission

-----------------------------------------------------------------------------
(* The inductive invariants. *)

\* What is busy is marked as busy; and the lock of the middleware is never that of
\* a direct use, whose handler takes and gives back its own.
Taken == \A q \in Requests:
  /\ Working(q) => req[q].session \in active
  /\ Holding(q) => req[q].mission \in resource_actions
  /\ req[q].locked => req[q].kind # "chat"

LockInv == Taken /\ OneRunner

\* Attempts are numbered as they begin; a verification past its body has a number
\* of its own, and it is not yet that of a completion record.
Numbered == \A q \in Requests: req[q].at # "idle" =>
  /\ req[q].kind = "verify" /\ req[q].at # "body" => req[q].attempt # 0
  /\ req[q].digest # 0 => req[q].kind = "verify"
  /\ req[q].at = "record" => req[q].digest # 0
  /\ req[q].attempt <= progress[req[q].mission].attempt
  /\ req[q].attempt # 0 =>
       /\ progress[req[q].mission].execution # req[q].attempt
       /\ page.at # "idle" /\ page.mission = req[q].mission => page.execution # req[q].attempt

OwnNumber == \A p, q \in Requests:
  p # q /\ req[p].at # "idle" /\ req[q].at # "idle" /\ req[p].mission = req[q].mission
    => req[p].attempt # req[q].attempt \/ req[p].attempt = 0

\* A completion record is that of an attempt that began; if its build does not run any more,
\* another one has run since.
RecordsPast == \A m \in Missions:
  /\ progress[m].execution <= progress[m].attempt
  /\ progress[m].execution # 0 /\ build[m] # progress[m].digest => m \in changed

\* A page in progress holds the record it read, as long as that record is the mission's
\* last; a build that it was told of and that is not the record's has run since.
PageAgrees == page.at # "idle" =>
  /\ page.execution # 0 /\ page.execution <= progress[page.mission].attempt
  /\ progress[page.mission].execution = page.execution =>
       /\ progress[page.mission].digest = page.digest
       /\ page.at = "compare" /\ page.current # page.digest => page.mission \in changed

CauseInv == Numbered /\ OwnNumber /\ RecordsPast /\ PageAgrees /\ BadgeIsEarned /\ MarkedForCause

-----------------------------------------------------------------------------
(* What the steps do to a request. *)

\* A step that changes one request.
Becomes(q, r) == req' = [req EXCEPT ![q] = r]

\* It becomes a request again, of a mission if it is not idle.
Fits(r) == r \in RequestShapes /\ (r.at # "idle" => r.mission \in Missions)

\* The request a request becomes when it only moves.
Moved(q, place) == [req[q] EXCEPT !.at = place]

LEMMA NoRequestFits == Fits(NoRequest) /\ NoRequest \in RequestShapes
  BY SomeDigests DEF Fits, NoRequest, RequestShapes

LEMMA MovedFits ==
  ASSUME Shaped, NEW q \in Requests, req[q].at # "idle",
         NEW place \in {"body", "depends", "enter", "work", "unwind", "record"}
  PROVE  /\ Fits(Moved(q, place))
         /\ Moved(q, place).at = place /\ Moved(q, place).session = req[q].session
         /\ Moved(q, place).mission = req[q].mission /\ Moved(q, place).kind = req[q].kind
         /\ Moved(q, place).locked = req[q].locked /\ Moved(q, place).attempt = req[q].attempt
         /\ Moved(q, place).digest = req[q].digest
  BY DEF Shaped, ShapeOK, AboutMission, Fits, Moved, RequestShapes

LEMMA ShapeStep ==
  ASSUME Shaped, NEW q \in Requests, NEW r, Becomes(q, r), Fits(r),
         UNCHANGED <<progress, build, changed, page>>
  PROVE  Shaped'
  BY DEF Shaped, ShapeOK, AboutMission, Becomes, Fits

\* The two that write a row besides.
LEMMA RowStep ==
  ASSUME Shaped, NEW q \in Requests, NEW r, Becomes(q, r), Fits(r),
         NEW m, NEW row, progress' = [progress EXCEPT ![m] = row], row \in RowShapes,
         UNCHANGED <<build, page>>, changed' \subseteq Missions
  PROVE  Shaped'
  BY DEF Shaped, ShapeOK, AboutMission, Becomes, Fits

-----------------------------------------------------------------------------
(* OneRunner. *)

\* What a request that becomes r has to take, and what it may give back.
Locks(q, r) ==
  /\ r.at = "work" /\ r.mission \notin OpenMissions =>
       /\ r.session \in active'
       /\ r.session \notin active \/ (Working(q) /\ r.session = req[q].session)
  /\ r.locked \/ (r.at = "work" /\ r.kind = "chat") =>
       /\ r.mission \in resource_actions'
       /\ r.mission \notin resource_actions \/ (Holding(q) /\ r.mission = req[q].mission)
  /\ r.locked => r.kind # "chat"
  /\ \A s \in active: s \in active' \/ (Working(q) /\ s = req[q].session)
  /\ \A m \in resource_actions: m \in resource_actions' \/ (Holding(q) /\ m = req[q].mission)

LEMMA LockStep ==
  ASSUME Shaped, LockInv, NEW q \in Requests, NEW r, Becomes(q, r), Locks(q, r)
  PROVE  LockInv'
<1> USE DEF LockInv
<1>1. \A p \in Requests: req'[p] = IF p = q THEN r ELSE req[p]
  BY DEF Shaped, ShapeOK, Becomes
<1>2. \A p \in Requests: p # q =>
        /\ Working(p)' <=> Working(p)
        /\ Holding(p)' <=> Holding(p)
  BY <1>1 DEF Working, Guarded, Holding
<1>3. \A p \in Requests: p # q =>
        /\ Working(p) => req[p].session \in active'
        /\ Holding(p) => req[p].mission \in resource_actions'
  BY DEF Locks, Taken, OneRunner
<1>4. /\ Working(q)' => r.at = "work" /\ r.mission \notin OpenMissions
      /\ Holding(q)' => r.locked \/ (r.at = "work" /\ r.kind = "chat")
  BY <1>1 DEF Working, Guarded, Holding
<1>5. Taken'
  BY <1>1, <1>2, <1>3, <1>4 DEF Taken, Locks
<1>6. ASSUME NEW p \in Requests, p # q
      PROVE  /\ Working(p)' /\ Working(q)' => req'[p].session # req'[q].session
             /\ Holding(p)' /\ Holding(q)' => req'[p].mission # req'[q].mission
  BY <1>1, <1>2, <1>4, <1>6 DEF Locks, Taken, OneRunner
<1>7. OneRunner'
  <2> SUFFICES ASSUME NEW p1 \in Requests, NEW p2 \in Requests, p1 # p2
               PROVE  /\ Working(p1)' /\ Working(p2)' => req'[p1].session # req'[p2].session
                      /\ Holding(p1)' /\ Holding(p2)' => req'[p1].mission # req'[p2].mission
    BY DEF OneRunner
  <2>1. CASE p1 # q /\ p2 # q
    BY <2>1, <1>1, <1>2 DEF OneRunner
  <2>2. CASE p1 = q \/ p2 = q
    BY <2>2, <1>6
  <2> QED BY <2>1, <2>2
<1> QED BY <1>5, <1>7

-----------------------------------------------------------------------------
(* The records. *)

\* What a request that becomes r, without a new number, has to keep.
Continues(q, r) ==
  /\ r.at # "idle" =>
       /\ r.kind = "verify" /\ r.at # "body" => r.attempt # 0
       /\ r.digest # 0 => r.kind = "verify"
       /\ r.at = "record" => r.digest # 0
  /\ r.attempt # 0 =>
       r.attempt = req[q].attempt /\ r.mission = req[q].mission /\ req[q].at # "idle"

LEMMA CauseStep ==
  ASSUME Shaped, CauseInv, NEW q \in Requests, NEW r, Becomes(q, r), Fits(r), Continues(q, r),
         UNCHANGED <<progress, build, changed, page>>
  PROVE  CauseInv'
<1> USE DEF CauseInv
<1>1. \A p \in Requests: req'[p] = IF p = q THEN r ELSE req[p]
  BY DEF Shaped, ShapeOK, Becomes
<1>2. r.at # "idle" => r.mission \in Missions /\ r.attempt \in Nat
  BY DEF Fits, RequestShapes
<1>3. \A m \in Missions: progress[m].attempt \in Nat
  BY DEF Shaped, ShapeOK, RowShapes
<1>4. r.at # "idle" => r.attempt <= progress[r.mission].attempt
  BY <1>2, <1>3 DEF Continues, Numbered
<1>5. Numbered'
  BY <1>1, <1>4 DEF Numbered, Continues
<1>6. OwnNumber'
  BY <1>1 DEF OwnNumber, Continues
<1>7. RecordsPast' /\ PageAgrees' /\ BadgeIsEarned' /\ MarkedForCause'
  BY DEF RecordsPast, PageAgrees, BadgeIsEarned, MarkedForCause
<1> QED BY <1>5, <1>6, <1>7

\* A verification gets the next number, and its mission is not completed until it is.
LEMMA BeginCause ==
  ASSUME Shaped, CauseInv, NEW q \in Requests, NEW m \in Missions, NEW r, NEW row,
         Becomes(q, r), Fits(r),
         progress' = [progress EXCEPT ![m] = row],
         row.attempt = progress[m].attempt + 1, row.needs = TRUE,
         row.execution = progress[m].execution, row.digest = progress[m].digest,
         req[q].at = "body", req[q].mission = m, r.at = "depends", r.mission = m,
         r.kind = req[q].kind, r.attempt = row.attempt, r.digest = req[q].digest,
         UNCHANGED <<build, changed, page>>
  PROVE  CauseInv'
<1> USE DEF CauseInv
<1>1. \A p \in Requests: req'[p] = IF p = q THEN r ELSE req[p]
  BY DEF Shaped, ShapeOK, Becomes
<1>2. \A n \in Missions: progress'[n] = IF n = m THEN row ELSE progress[n]
  BY DEF Shaped, ShapeOK
<1>3. /\ \A n \in Missions: /\ progress[n].attempt \in Nat /\ progress[n].execution \in Nat
                            /\ progress[n].execution <= progress[n].attempt
      /\ \A p \in Requests: req[p].attempt \in Nat
      /\ page.execution \in Nat
  BY DEF Shaped, ShapeOK, RowShapes, RequestShapes, PageShapes, RecordsPast
<1>4. \A p \in Requests: req[p].at # "idle" => req[p].mission \in Missions
  BY DEF Shaped, AboutMission
<1>5. page.at # "idle" => page.mission \in Missions /\ page.execution <= progress[page.mission].attempt
  BY DEF Shaped, AboutMission, PageAgrees
<1>6. Numbered'
  <2>1. ASSUME NEW p \in Requests, p # q, req[p].at # "idle"
        PROVE  req[p].attempt <= progress'[req[p].mission].attempt
    BY <2>1, <1>2, <1>3, <1>4 DEF Numbered
  <2>2. progress'[m].execution # r.attempt /\ r.attempt # 0 /\ r.attempt <= progress'[m].attempt
    BY <1>2, <1>3
  <2>3. page.at # "idle" /\ page.mission = m => page.execution # r.attempt
    BY <1>3, <1>5
  <2>4. \A p \in Requests: req[p].at # "idle" =>
          progress'[req[p].mission].execution = progress[req[p].mission].execution
    BY <1>2, <1>4
  <2> QED BY <1>1, <2>1, <2>2, <2>3, <2>4 DEF Numbered
<1>7. OwnNumber'
  <2>1. \A p \in Requests: req[p].at # "idle" /\ req[p].mission = m =>
          req[p].attempt # r.attempt /\ r.attempt # 0
    BY <1>3 DEF Numbered
  <2> QED BY <1>1, <2>1 DEF OwnNumber
<1>8. RecordsPast' /\ PageAgrees' /\ BadgeIsEarned' /\ MarkedForCause'
  BY <1>2, <1>3, <1>5 DEF RecordsPast, PageAgrees, BadgeIsEarned, MarkedForCause
<1> QED BY <1>6, <1>7, <1>8

\* A result counts only for the attempt that began last; the number it brings is
\* that of no other request, and of no page.
LEMMA RecordCause ==
  ASSUME Shaped, CauseInv, NEW q \in Requests, NEW m \in Missions, NEW row,
         Becomes(q, NoRequest),
         progress' = [progress EXCEPT ![m] = row],
         req[q].at = "record", req[q].mission = m, IsLast(q),
         row.attempt = progress[m].attempt, row.needs = FALSE,
         row.execution = req[q].attempt, row.digest = req[q].digest,
         changed' = IF build[m] # req[q].digest THEN changed \cup {m} ELSE changed \ {m},
         UNCHANGED <<build, page>>
  PROVE  CauseInv'
<1> USE DEF CauseInv
<1>1. \A p \in Requests: req'[p] = IF p = q THEN NoRequest ELSE req[p]
  BY DEF Shaped, ShapeOK, Becomes
<1>2. \A n \in Missions: progress'[n] = IF n = m THEN row ELSE progress[n]
  BY DEF Shaped, ShapeOK
<1>3. /\ req[q].attempt # 0 /\ req[q].attempt = progress[m].attempt
      /\ req[q].attempt \in Nat
      /\ page.at # "idle" /\ page.mission = m => page.execution # req[q].attempt
  BY DEF IsLast, Numbered, Shaped, ShapeOK, RequestShapes
<1>4. \A p \in Requests: req[p].at # "idle" => req[p].mission \in Missions
  BY DEF Shaped, AboutMission
<1>5. page.at # "idle" => page.mission \in Missions
  BY DEF Shaped, AboutMission
<1>6. NoRequest.at = "idle"
  BY DEF NoRequest
<1>7. Numbered'
  <2>1. ASSUME NEW p \in Requests, p # q, req[p].at # "idle", req[p].attempt # 0
        PROVE  progress'[req[p].mission].execution # req[p].attempt
    BY <2>1, <1>2, <1>3, <1>4 DEF OwnNumber, Numbered
  <2>2. ASSUME NEW p \in Requests, p # q, req[p].at # "idle"
        PROVE  req[p].attempt <= progress'[req[p].mission].attempt
    BY <2>2, <1>2, <1>4 DEF Numbered
  <2> QED BY <1>1, <1>6, <2>1, <2>2 DEF Numbered
<1>8. OwnNumber'
  BY <1>1, <1>6 DEF OwnNumber
<1>9. /\ build[m] # row.digest => m \in changed'
      /\ \A n \in Missions: n # m => (n \in changed' <=> n \in changed)
  OBVIOUS
<1>10. RecordsPast' /\ PageAgrees' /\ BadgeIsEarned' /\ MarkedForCause'
  BY <1>2, <1>3, <1>5, <1>9 DEF RecordsPast, PageAgrees, BadgeIsEarned, MarkedForCause
<1> QED BY <1>7, <1>8, <1>10

-----------------------------------------------------------------------------
(* The steps. *)

CenterInv == Shaped /\ LockInv /\ CauseInv

\* A request that neither gets a number nor counts: all three parts follow from
\* what it becomes.
LEMMA QuietStep ==
  ASSUME CenterInv, NEW q \in Requests, NEW r, Becomes(q, r), Fits(r), Locks(q, r),
         Continues(q, r), UNCHANGED <<progress, build, changed, page>>
  PROVE  CenterInv'
  BY ShapeStep, LockStep, CauseStep DEF CenterInv

\* A request ends; what it had taken it has given back, or leaves behind.
LEMMA EndStep ==
  ASSUME CenterInv, NEW q \in Requests, End(q),
         \A s \in active: s \in active' \/ (Working(q) /\ s = req[q].session),
         \A m \in resource_actions:
           m \in resource_actions' \/ (Holding(q) /\ m = req[q].mission)
  PROVE  /\ Becomes(q, NoRequest) /\ Fits(NoRequest)
         /\ Locks(q, NoRequest) /\ Continues(q, NoRequest)
  BY NoRequestFits DEF End, Becomes, Locks, Continues, NoRequest

\* The steps of a request before it works.
LEMMA EntryStep ==
  ASSUME CenterInv, NEW q \in Requests,
         \/ \E s \in Sessions, m \in Missions, kind \in {"verify", "resource", "chat"}:
              Arrive(q, s, m, kind)
         \/ BodyLost(q) \/ Depends(q) \/ Refused(q) \/ Enter(q)
  PROVE  CenterInv'
<1>a. req[q] \in RequestShapes /\ (req[q].at # "idle" => req[q].mission \in Missions)
  BY DEF CenterInv, Shaped, ShapeOK, AboutMission
<1>b. req[q].at # "idle" =>
        /\ req[q].kind = "verify" /\ req[q].at # "body" => req[q].attempt # 0
        /\ req[q].digest # 0 => req[q].kind = "verify"
  BY DEF CenterInv, CauseInv, Numbered
<1>c. /\ req[q].locked => req[q].kind # "chat"
      /\ Holding(q) => req[q].mission \in resource_actions
  BY DEF CenterInv, LockInv, Taken
<1>1. ASSUME NEW s \in Sessions, NEW m \in Missions, NEW kind \in {"verify", "resource", "chat"},
             Arrive(q, s, m, kind)
      PROVE  CenterInv'
  <2> DEFINE locks == m \in AwsMissions /\ kind # "chat"
             at == IF kind = "verify" THEN "body" ELSE "depends"
             r == [at |-> at, session |-> s, mission |-> m, kind |-> kind, locked |-> locks,
                   attempt |-> 0, digest |-> 0]
  <2>1. Becomes(q, r) /\ UNCHANGED <<active, progress, build, changed, page>>
    BY <1>1 DEF Arrive, Becomes
  <2>2. Fits(r)
    BY SomeDigests DEF Fits, RequestShapes
  <2>3. Locks(q, r)
    BY <1>1 DEF Arrive, Locks
  <2>5. Continues(q, r)
    BY DEF Continues
  <2> HIDE DEF r
  <2> QED BY <2>1, <2>2, <2>3, <2>5, QuietStep
<1>2. CASE BodyLost(q)
  BY <1>2, EndStep, QuietStep DEF BodyLost
<1>3. ASSUME NEW place \in {"enter", "unwind"}, Move(q, place), req[q].at \in {"depends", "enter"},
             UNCHANGED <<active, resource_actions, progress, build, changed, page>>
      PROVE  CenterInv'
  <2> DEFINE r == Moved(q, place)
  <2>1. /\ Fits(r) /\ r.at = place /\ r.session = req[q].session /\ r.mission = req[q].mission
        /\ r.kind = req[q].kind /\ r.locked = req[q].locked /\ r.attempt = req[q].attempt
        /\ r.digest = req[q].digest
    BY <1>3, MovedFits DEF CenterInv
  <2>2. Becomes(q, r)
    BY <1>3, <1>a DEF Move, Becomes, Moved
  <2> HIDE DEF r
  <2>3. Locks(q, r)
    BY <1>3, <1>c, <2>1 DEF Locks, Holding
  <2>4. Continues(q, r)
    BY <1>3, <1>b, <2>1 DEF Continues
  <2> QED BY <1>3, <2>1, <2>2, <2>3, <2>4, QuietStep
<1>4. CASE Depends(q) \/ Refused(q)
  BY <1>3, <1>4 DEF Depends, Refused
<1>5. CASE Enter(q)
  <2>1. PICK place \in {"unwind", "work"} : Move(q, place)
    BY <1>5 DEF Enter
  <2> DEFINE r == Moved(q, place)
  <2>2. /\ Fits(r) /\ r.at = place /\ r.session = req[q].session /\ r.mission = req[q].mission
        /\ r.kind = req[q].kind /\ r.locked = req[q].locked /\ r.attempt = req[q].attempt
        /\ r.digest = req[q].digest
    BY <1>5, MovedFits DEF CenterInv, Enter
  <2>3. Becomes(q, r) /\ UNCHANGED <<progress, build, changed, page>>
    BY <1>5, <1>a, <2>1 DEF Move, Becomes, Moved, Enter
  <2> HIDE DEF r
  <2>4. Locks(q, r)
    BY <1>5, <1>c, <2>2 DEF Locks, Holding, Enter, Busy, Guarded
  <2>5. Continues(q, r)
    BY <1>5, <1>b, <2>1, <2>2 DEF Continues, Enter
  <2> QED BY <2>2, <2>3, <2>4, <2>5, QuietStep
<1> QED BY <1>1, <1>2, <1>4, <1>5

\* Its work ends, and the middleware gives the lock back.
LEMMA ExitStep ==
  ASSUME CenterInv, NEW q \in Requests, (\E passed \in BOOLEAN: Work(q, passed)) \/ Unwind(q)
  PROVE  CenterInv'
<1>a. req[q] \in RequestShapes /\ (req[q].at # "idle" => req[q].mission \in Missions)
  BY DEF CenterInv, Shaped, ShapeOK, AboutMission
<1>b. req[q].at # "idle" =>
        /\ req[q].kind = "verify" /\ req[q].at # "body" => req[q].attempt # 0
        /\ req[q].digest # 0 => req[q].kind = "verify"
  BY DEF CenterInv, CauseInv, Numbered
<1>c. /\ req[q].locked => req[q].kind # "chat"
      /\ Holding(q) => req[q].mission \in resource_actions
  BY DEF CenterInv, LockInv, Taken
<1>1. ASSUME NEW passed \in BOOLEAN, Work(q, passed)
      PROVE  CenterInv'
  <2> DEFINE m == req[q].mission
             r == [Moved(q, "unwind") EXCEPT !.digest = IF passed THEN build[m] ELSE 0]
  <2>1. req[q].at = "work" /\ m \in Missions /\ build[m] \in Digests /\ 0 \in Digests
    <3>1. req[q].at = "work"
      BY <1>1 DEF Work
    <3>2. m \in Missions
      BY <1>a, <3>1
    <3> QED BY SomeDigests, <3>1, <3>2 DEF CenterInv, Shaped, ShapeOK
  <2>2. /\ Fits(r) /\ r.at = "unwind" /\ r.session = req[q].session /\ r.mission = m
        /\ r.kind = req[q].kind /\ r.locked = req[q].locked /\ r.attempt = req[q].attempt
        /\ r.digest = IF passed THEN build[m] ELSE 0
    BY <1>a, <2>1 DEF Fits, RequestShapes, Moved
  <2>3. Becomes(q, r) /\ UNCHANGED <<progress, build, changed, page>>
    BY <1>1, <1>a DEF Work, Becomes, Moved
  <2>4. passed => req[q].kind = "verify"
    BY <1>1 DEF Work
  <2>5. /\ active' = IF Guarded(q) THEN active \ {req[q].session} ELSE active
        /\ resource_actions' = IF req[q].kind = "chat" THEN resource_actions \ {m} ELSE resource_actions
    BY <1>1 DEF Work
  <2> HIDE DEF r
  <2>6. Locks(q, r)
    BY <1>c, <2>1, <2>2, <2>5 DEF Locks, Holding, Working
  <2>7. Continues(q, r)
    BY <1>b, <2>1, <2>2, <2>4 DEF Continues
  <2> QED BY <2>2, <2>3, <2>6, <2>7, QuietStep
<1>2. CASE Unwind(q) /\ req[q].digest # 0
  <2> DEFINE r == [Moved(q, "record") EXCEPT !.locked = FALSE]
  <2>1. req[q].at = "unwind"
    BY <1>2 DEF Unwind
  <2>2. /\ Fits(r) /\ r.at = "record" /\ r.session = req[q].session /\ r.mission = req[q].mission
        /\ r.kind = req[q].kind /\ r.locked = FALSE /\ r.attempt = req[q].attempt
        /\ r.digest = req[q].digest
    BY <1>a, <2>1 DEF Fits, RequestShapes, Moved
  <2>3. Becomes(q, r) /\ UNCHANGED <<active, progress, build, changed, page>>
    BY <1>2, <1>a DEF Unwind, Becomes, Moved
  <2>4. resource_actions' = IF req[q].locked THEN resource_actions \ {req[q].mission}
                            ELSE resource_actions
    BY <1>2 DEF Unwind
  <2> HIDE DEF r
  <2>5. Locks(q, r)
    BY <2>1, <2>2, <2>3, <2>4 DEF Locks, Holding
  <2>6. Continues(q, r)
    BY <1>2, <1>b, <2>1, <2>2 DEF Continues
  <2> QED BY <2>2, <2>3, <2>5, <2>6, QuietStep
<1>3. CASE Unwind(q) /\ req[q].digest = 0
  <2>1. End(q) /\ UNCHANGED <<active, progress, build, changed, page>>
    BY <1>3 DEF Unwind
  <2>2. \A m \in resource_actions: m \in resource_actions' \/ (Holding(q) /\ m = req[q].mission)
    BY <1>3 DEF Unwind, Holding
  <2> QED BY <2>1, <2>2, EndStep, QuietStep
<1> QED BY <1>1, <1>2, <1>3

\* It begins, and its result is recorded.
LEMMA CountStep ==
  ASSUME CenterInv, NEW q \in Requests, Begin(q) \/ Record(q)
  PROVE  CenterInv'
<1> DEFINE m == req[q].mission
<1>a. req[q] \in RequestShapes /\ req[q].at # "idle" /\ m \in Missions /\ progress[m] \in RowShapes
  BY DEF CenterInv, Shaped, ShapeOK, AboutMission, Begin, Record
<1>c. /\ req[q].locked => req[q].kind # "chat"
      /\ Holding(q) => req[q].mission \in resource_actions
  BY DEF CenterInv, LockInv, Taken
<1>1. CASE Begin(q)
  <2> DEFINE attempt == progress[m].attempt + 1
             row == [progress[m] EXCEPT !.attempt = attempt, !.needs = TRUE]
             r == [Moved(q, "depends") EXCEPT !.attempt = attempt]
  <2>1. req[q].at = "body" /\ attempt \in Nat
    BY <1>1, <1>a DEF Begin, RowShapes
  <2>2. /\ Fits(r) /\ r.at = "depends" /\ r.session = req[q].session /\ r.mission = m
        /\ r.kind = req[q].kind /\ r.locked = req[q].locked /\ r.attempt = attempt
        /\ r.digest = req[q].digest
    BY <1>a, <2>1 DEF Fits, RequestShapes, Moved
  <2>3. /\ row \in RowShapes /\ row.attempt = attempt /\ row.needs = TRUE
        /\ row.execution = progress[m].execution /\ row.digest = progress[m].digest
    BY <1>a, <2>1 DEF RowShapes
  <2>4. /\ Becomes(q, r) /\ progress' = [progress EXCEPT ![m] = row]
        /\ UNCHANGED <<active, resource_actions, build, changed, page>>
    BY <1>1, <1>a DEF Begin, Becomes, Moved, CenterInv, Shaped, ShapeOK
  <2> HIDE DEF r, row
  <2>5. Locks(q, r)
    BY <1>c, <2>1, <2>2, <2>4 DEF Locks, Holding
  <2>6. CauseInv'
    BY <1>a, <2>1, <2>2, <2>3, <2>4, BeginCause DEF CenterInv
  <2>7. changed' \subseteq Missions
    BY <2>4 DEF CenterInv, Shaped, ShapeOK
  <2> QED BY <2>2, <2>3, <2>4, <2>5, <2>6, <2>7, RowStep, LockStep DEF CenterInv
<1>2. CASE Record(q) /\ ~IsLast(q)
  BY <1>2, EndStep, QuietStep DEF Record
<1>3. CASE Record(q) /\ IsLast(q)
  <2> DEFINE row == [progress[m] EXCEPT !.execution = req[q].attempt, !.digest = req[q].digest,
                                        !.needs = FALSE]
  <2>1. /\ row \in RowShapes /\ row.attempt = progress[m].attempt /\ row.needs = FALSE
        /\ row.execution = req[q].attempt /\ row.digest = req[q].digest
    BY <1>a DEF RowShapes, RequestShapes
  <2>2. /\ End(q) /\ progress' = [progress EXCEPT ![m] = row]
        /\ changed' = IF build[m] # req[q].digest THEN changed \cup {m} ELSE changed \ {m}
        /\ UNCHANGED <<active, resource_actions, build, page>>
        /\ req[q].at = "record"
    BY <1>3 DEF Record
  <2>4. changed' \subseteq Missions
    BY <1>a, <2>2 DEF CenterInv, Shaped, ShapeOK
  <2>3. Becomes(q, NoRequest) /\ Fits(NoRequest) /\ Locks(q, NoRequest)
    BY <2>2, EndStep
  <2> HIDE DEF row
  <2> QED BY <1>3, <1>a, <2>1, <2>2, <2>3, <2>4, RowStep, LockStep, RecordCause DEF CenterInv
<1> QED BY <1>1, <1>2, <1>3

\* The pages, the build, changed, the sessions and the restart.
LEMMA OtherStep ==
  ASSUME CenterInv,
         \/ \E s \in Sessions: Visit(s)
         \/ MakeRoom \/ Pop \/ InsertSession
         \/ \E m \in Missions: ReadHistory(m) \/ Rebuild(m)
         \/ ReadBuild \/ Compare \/ Restart
  PROVE  CenterInv'
<1> USE DEF CenterInv
<1>a. /\ \A m \in Missions: /\ progress[m] \in RowShapes /\ build[m] \in Digests
                            /\ progress[m].execution <= progress[m].attempt
      /\ \A q \in Requests: req[q] \in RequestShapes
      /\ \A q \in Requests: req[q].at # "idle" => req[q].mission \in Missions
  BY DEF Shaped, ShapeOK, AboutMission, CauseInv, RecordsPast
<1>b. page.at # "idle" => page.mission \in Missions
  BY DEF Shaped, AboutMission
<1>1. CASE (\E s \in Sessions: Visit(s)) \/ MakeRoom \/ Pop \/ InsertSession
  <2>1. UNCHANGED <<active, resource_actions, progress, build, changed, req, page>>
    <3>1. ASSUME NEW s \in Sessions, Visit(s)
          PROVE  UNCHANGED <<active, resource_actions, progress, build, changed, req, page>>
      <4>1. UNCHANGED <<sessions, active, resource_actions, progress, build, changed, req, page>>
        BY <3>1, Zenon DEF Visit
      <4> QED BY <4>1
    <3>2. CASE MakeRoom
      BY <3>2 DEF MakeRoom
    <3>3. CASE Pop
      BY <3>3 DEF Pop
    <3>4. CASE InsertSession
      BY <3>4 DEF InsertSession
    <3> QED BY <1>1, <3>1, <3>2, <3>3, <3>4
  <2>2. Shaped'
    BY <2>1 DEF Shaped, ShapeOK, AboutMission
  <2>3. LockInv'
    BY <2>1 DEF LockInv, Taken, OneRunner, Working, Guarded, Holding
  <2>4. CauseInv'
    BY <2>1 DEF CauseInv, Numbered, OwnNumber, RecordsPast, PageAgrees, BadgeIsEarned, MarkedForCause
  <2> QED BY <2>2, <2>3, <2>4
<1>2. ASSUME UNCHANGED <<active, resource_actions, req>>
      PROVE  LockInv' /\ OwnNumber'
  BY <1>2 DEF LockInv, Taken, OneRunner, Working, Guarded, Holding, CauseInv, OwnNumber
<1>3. CASE \E m \in Missions: ReadHistory(m)
  <2> PICK m \in Missions: ReadHistory(m)  BY <1>3
  <2>1. /\ UNCHANGED <<active, resource_actions, progress, build, changed, req>>
        /\ progress[m].execution # 0
        /\ page'.at = "build" /\ page'.mission = m /\ page'.execution = progress[m].execution
        /\ page'.digest = progress[m].digest
    BY DEF ReadHistory
  <2>2. page' \in PageShapes
    BY <1>a, SomeDigests DEF ReadHistory, PageShapes, RowShapes
  <2>3. Shaped'
    BY <2>1, <2>2 DEF Shaped, ShapeOK, AboutMission
  <2>4. Numbered'
    BY <1>a, <2>1 DEF CauseInv, Numbered
  <2>5. PageAgrees' /\ RecordsPast' /\ BadgeIsEarned' /\ MarkedForCause'
    BY <1>a, <2>1 DEF CauseInv, PageAgrees, RecordsPast, BadgeIsEarned, MarkedForCause
  <2> QED BY <1>2, <2>1, <2>3, <2>4, <2>5 DEF CauseInv
<1>4. CASE ReadBuild
  <2>1. /\ UNCHANGED <<active, resource_actions, progress, build, changed, req>>
        /\ page.at = "build"
        /\ page' \in {NoPage, [page EXCEPT !.at = "compare", !.current = build[page.mission]]}
    BY <1>4 DEF ReadBuild
  <2>2. CASE page' = NoPage
    <3>1. NoPage.at = "idle" /\ NoPage \in PageShapes
      BY SomeDigests DEF NoPage, PageShapes
    <3> QED BY <1>2, <2>1, <2>2, <3>1 DEF Shaped, ShapeOK, AboutMission, CauseInv, Numbered,
            RecordsPast, PageAgrees, BadgeIsEarned, MarkedForCause
  <2>3. CASE page' = [page EXCEPT !.at = "compare", !.current = build[page.mission]]
    <3>1. /\ page' \in PageShapes /\ page'.at = "compare" /\ page'.mission = page.mission
          /\ page'.execution = page.execution /\ page'.digest = page.digest
          /\ page'.current = build[page.mission]
      BY <1>a, <1>b, <2>1, <2>3 DEF Shaped, ShapeOK, PageShapes
    <3>2. Shaped'
      BY <1>b, <2>1, <3>1 DEF Shaped, ShapeOK, AboutMission
    <3>3. Numbered'
      BY <2>1, <3>1 DEF CauseInv, Numbered
    <3>4. PageAgrees'
      <4>1. page.mission \in Missions /\ build'[page'.mission] = page'.current
        BY <1>b, <2>1, <3>1
      <4> QED BY <2>1, <3>1, <4>1 DEF CauseInv, PageAgrees, RecordsPast
    <3>5. RecordsPast' /\ BadgeIsEarned' /\ MarkedForCause'
      BY <2>1 DEF CauseInv, RecordsPast, BadgeIsEarned, MarkedForCause
    <3> QED BY <1>2, <2>1, <3>2, <3>3, <3>4, <3>5 DEF CauseInv
  <2> QED BY <2>1, <2>2, <2>3
<1>5. CASE Compare
  <2> DEFINE m == page.mission
             row == [progress[m] EXCEPT !.needs = TRUE]
  <2>1. /\ UNCHANGED <<active, resource_actions, build, changed, req>>
        /\ page.at = "compare" /\ page' = NoPage /\ m \in Missions
        /\ NoPage.at = "idle" /\ NoPage \in PageShapes
    BY <1>5, <1>b, SomeDigests DEF Compare, NoPage, PageShapes
  <2>2. CASE progress' = progress
    BY <1>2, <2>1, <2>2 DEF Shaped, ShapeOK, AboutMission, CauseInv, Numbered, RecordsPast,
       PageAgrees, BadgeIsEarned, MarkedForCause
  <2>3. CASE page.current # page.digest /\ Marks(m)
    <3>1. /\ row \in RowShapes /\ row.needs = TRUE /\ row.attempt = progress[m].attempt
          /\ row.execution = progress[m].execution /\ row.digest = progress[m].digest
      BY <1>a, <2>1 DEF RowShapes
    <3>2. progress' = [progress EXCEPT ![m] = row]
      BY <1>5, <1>a, <2>1, <2>3 DEF Compare, Shaped, ShapeOK
    <3> HIDE DEF row
    <3>3. \A n \in Missions: progress'[n] = IF n = m THEN row ELSE progress[n]
      BY <3>2 DEF Shaped, ShapeOK
    <3>4. m \in changed
      BY <2>1, <2>3 DEF CauseInv, PageAgrees, Marks
    <3>5. Shaped'
      BY <2>1, <3>1, <3>2 DEF Shaped, ShapeOK, AboutMission
    <3>6. Numbered'
      BY <1>a, <2>1, <3>1, <3>3 DEF CauseInv, Numbered
    <3>7. RecordsPast' /\ PageAgrees' /\ BadgeIsEarned'
      BY <2>1, <3>1, <3>3 DEF CauseInv, RecordsPast, PageAgrees, BadgeIsEarned
    <3>8. MarkedForCause'
      BY <2>1, <3>1, <3>3, <3>4 DEF CauseInv, MarkedForCause
    <3> QED BY <1>2, <2>1, <3>5, <3>6, <3>7, <3>8 DEF CauseInv
  <2> QED BY <1>5, <2>2, <2>3 DEF Compare
<1>6. CASE \E m \in Missions: Rebuild(m)
  <2> PICK m \in Missions: Rebuild(m)  BY <1>6
  <2> PICK b \in 1..MaxBuilds \ {build[m]}:
        /\ build' = [build EXCEPT ![m] = b]
        /\ changed' = IF progress[m].execution # 0 /\ b # progress[m].digest THEN changed \cup {m}
                      ELSE changed
    BY DEF Rebuild, Shaped, ShapeOK
  <2>1. UNCHANGED <<active, resource_actions, progress, req, page>>
    BY DEF Rebuild
  <2>2. /\ \A n \in Missions: build'[n] = IF n = m THEN b ELSE build[n]
        /\ changed \subseteq changed'
        /\ progress[m].execution # 0 /\ b # progress[m].digest => m \in changed'
    BY DEF Shaped, ShapeOK
  <2>3. Shaped'
    BY <2>1 DEF Shaped, ShapeOK, AboutMission, Digests
  <2>4. Numbered'
    BY <2>1 DEF CauseInv, Numbered
  <2>5. RecordsPast'
    BY <2>1, <2>2 DEF CauseInv, RecordsPast
  <2>6. BadgeIsEarned' /\ MarkedForCause'
    BY <2>1, <2>2 DEF CauseInv, BadgeIsEarned, MarkedForCause
  <2>7. PageAgrees'
    BY <1>b, <2>1, <2>2 DEF CauseInv, PageAgrees
  <2> QED BY <1>2, <2>1, <2>3, <2>4, <2>5, <2>6, <2>7 DEF CauseInv
<1>7. CASE Restart
  <2>1. /\ UNCHANGED <<progress, build, changed>>
        /\ req' \in [Requests -> RequestShapes] /\ page' \in PageShapes
        /\ page'.at = "idle"
        /\ \A q \in Requests: /\ req'[q].at = "idle" /\ req'[q].locked = FALSE
                              /\ req'[q].digest = 0
    BY <1>7, NoRequestFits, SomeDigests DEF Restart, NoRequest, NoPage, PageShapes
  <2>2. Shaped'
    BY <2>1 DEF Shaped, ShapeOK, AboutMission
  <2>3. LockInv'
    BY <2>1 DEF LockInv, Taken, OneRunner, Working, Guarded, Holding
  <2>4. CauseInv'
    BY <2>1 DEF CauseInv, Numbered, OwnNumber, RecordsPast, PageAgrees, BadgeIsEarned,
       MarkedForCause
  <2> QED BY <2>2, <2>3, <2>4
<1> QED BY <1>1, <1>3, <1>4, <1>5, <1>6, <1>7

LEMMA InitCenter == Init => CenterInv
<1> SUFFICES ASSUME Init PROVE CenterInv  OBVIOUS
<1>1. /\ \A q \in Requests: /\ req[q].at = "idle" /\ req[q].locked = FALSE
      /\ req \in [Requests -> RequestShapes]
  BY NoRequestFits DEF Init, NoRequest
<1>2. /\ page.at = "idle" /\ page \in PageShapes
      /\ build \in [Missions -> Digests] /\ changed \subseteq Missions
  BY SomeDigests DEF Init, NoPage, PageShapes
<1>3. /\ progress \in [Missions -> RowShapes]
      /\ \A m \in Missions: /\ progress[m].attempt = 0 /\ progress[m].execution = 0
                            /\ progress[m].digest = 0
  BY SomeDigests DEF Init, NoRow, RowShapes
<1>4. Shaped
  BY <1>1, <1>2, <1>3 DEF Shaped, ShapeOK, AboutMission
<1>5. LockInv
  BY <1>1 DEF LockInv, Taken, OneRunner, Working, Guarded, Holding
<1>6. CauseInv
  BY <1>1, <1>2, <1>3 DEF CauseInv, Numbered, OwnNumber, RecordsPast, PageAgrees, BadgeIsEarned,
     MarkedForCause
<1> QED BY <1>4, <1>5, <1>6 DEF CenterInv

LEMMA NextCenter == CenterInv /\ [Next]_vars => CenterInv'
<1> SUFFICES ASSUME CenterInv, [Next]_vars PROVE CenterInv'  OBVIOUS
<1>1. CASE UNCHANGED vars
  BY <1>1 DEF vars, CenterInv, Shaped, ShapeOK, AboutMission, LockInv, Taken, OneRunner, Working,
     Guarded, Holding, CauseInv, Numbered, OwnNumber, RecordsPast, PageAgrees, BadgeIsEarned,
     MarkedForCause
<1>2. ASSUME NEW q \in Requests, Handle(q)
      PROVE  CenterInv'
  BY <1>2, EntryStep, ExitStep, CountStep DEF Handle
<1>3. CASE Next
  BY <1>2, <1>3, OtherStep DEF Next
<1> QED BY <1>1, <1>3

\* The locks, the numbers and the records, as they are in every state.
THEOREM CenterInvariance == Spec => []CenterInv
  BY InitCenter, NextCenter, PTL DEF Spec

\* Two requests of one session, or of one AWS mission, never run at the same time.
THEOREM OneRunnerAlways == Spec => []OneRunner
<1>1. CenterInv => OneRunner
  BY DEF CenterInv, LockInv
<1> QED BY <1>1, CenterInvariance, PTL

\* A mission shows as completed only for the verification that began last.
THEOREM BadgeIsEarnedAlways == Spec => []BadgeIsEarned
<1>1. CenterInv => BadgeIsEarned
  BY DEF CenterInv, CauseInv
<1> QED BY <1>1, CenterInvariance, PTL

\* A completed mission is to be verified again only after a later verification, or after
\* another build than the one that passed has run, whether or not it still runs.
THEOREM MarkedForCauseAlways == Spec => []MarkedForCause
<1>1. CenterInv => MarkedForCause
  BY DEF CenterInv, CauseInv
<1> QED BY <1>1, CenterInvariance, PTL

-----------------------------------------------------------------------------
(* The delivery of P09. *)

CONSTANTS Cases, Unlisted
VARIABLES image, app, receipt, wire, grants, deliveries, closures, late, run, note

Delivery == INSTANCE DeliverySuite

\* The case whose entity only the fixed build recognizes is one of the cases.
Recognizable == Cases \in Nat \ {0} /\ Unlisted \in 1..Cases

AppPlaces == {"idle", "policy", "sent", "answered"}
AppTexts == {"none", "raw", "safe", "other"}
Apps == [at: AppPlaces, text: AppTexts, found: BOOLEAN]
Answers == [text: {"raw", "safe", "other"}, found: BOOLEAN]
RunPlaces == {"new", "run", "running", "close case", "build", "receipt", "grants", "deliveries",
              "close", "abort", "ended"} \cup Delivery!Final
Verdicts == {"none", "PASS", "HIT", "ERR"}
SuiteRuns == [at: RunPlaces, case: 1..Cases, verdict: Verdicts]
Notes == [build: Delivery!Builds \cup {"none"}, receipt: Delivery!Receipts, grants: Delivery!Grants]

Typed == /\ image \in Delivery!Builds /\ app \in Apps /\ receipt \in Delivery!Receipts
         /\ wire \subseteq Delivery!Parcels /\ deliveries \in Seq(Delivery!Parcels)
         /\ grants \in Delivery!Grants /\ closures \in [0..Cases -> BOOLEAN] /\ late \in BOOLEAN
         /\ run \in SuiteRuns /\ note \in Notes

\* From the answer to a case on, until the next one begins.
Checking == {"close case", "build", "receipt", "grants", "deliveries", "close"} \cup Delivery!Final
Parcel(c, text, by) == [case |-> c, text |-> text, by |-> by]
Arrivals == 1..Len(deliveries)

\* A closed case has no grant that may still be used.
GrantsClosed == /\ run.at = "new" => \A c \in 0..Cases: ~closures[c]
                /\ \A c \in 1..Cases: closures[c] \/ closures[0] => grants[c] # "issued"

\* Each case is sent once, the current one when its policy has answered.
SentOnce == /\ \A d, e \in wire: d.case = e.case => d = e
            /\ \A d \in wire, k \in Arrivals: deliveries[k].case # d.case
            /\ \A k, l \in Arrivals: deliveries[k].case = deliveries[l].case => k = l
Unsent == run.at \in {"new", "run"} \/ app.at = "policy"
SentInTurn == /\ \A d \in wire: d.case <= run.case /\ (Unsent => d.case # run.case)
              /\ \A k \in Arrivals: deliveries[k].case <= run.case /\ (Unsent => deliveries[k].case # run.case)

\* What runs in the application is the current case, on the build that has answered the others.
AppHolds ==
  /\ app.at # "idle" => /\ run.at \in {"running", "abort", "ended"}
                        /\ Len(receipt.cases) + 1 = run.case
                        /\ receipt.cases # <<>> => receipt.build = image
  /\ app.at = "sent" => \A d \in wire: d.case = run.case => d = Parcel(run.case, app.text, image)
  /\ app.at = "answered" => \E k \in Arrivals: deliveries[k] = Parcel(run.case, app.text, image)

\* What the receipt says was delivered, by the build it names.
ReceiptHolds == \A c \in 1..Len(receipt.cases): \E k \in Arrivals:
                  deliveries[k] = Parcel(c, receipt.cases[c].text, receipt.build)

\* What the control center knows at each of its places.
RunHolds ==
  /\ run.at \in Checking => app.at = "idle" /\ Len(receipt.cases) = run.case
  /\ run.at \in Delivery!Final \cup {"close"} => run.case = Cases
  /\ run.at \in Delivery!Final => closures[0]
  /\ run.at \in {"grants", "deliveries", "final grants", "final deliveries"} => note.receipt = receipt
  /\ run.at # "ended" => run.verdict # "PASS"

\* What a passed verification says is so, and stays so.
PassedHolds == run.verdict = "PASS" =>
  /\ closures[0] /\ Len(deliveries) = Cases
  /\ \A c \in 1..Cases: deliveries[c] = Parcel(c, "safe", "fixed")

DeliveryInv == /\ Typed /\ GrantsClosed /\ SentOnce /\ SentInTurn
               /\ AppHolds /\ ReceiptHolds /\ RunHolds /\ PassedHolds

-----------------------------------------------------------------------------
(* What the updates of the records leave. *)

LEMMA TypedIsTypeOK == Typed => Delivery!TypeOK
  BY DEF Typed, Delivery!TypeOK, Apps, AppPlaces, AppTexts, SuiteRuns, RunPlaces, Verdicts, Notes

Judged(r, a, v) == [r EXCEPT !.at = a, !.verdict = v]
MovedTo(r, a) == [r EXCEPT !.at = a]
Advanced(r) == [r EXCEPT !.at = "run", !.case = @ + 1]

LEMMA JudgedFacts ==
  ASSUME NEW r \in SuiteRuns, NEW a \in RunPlaces, NEW v \in Verdicts, NEW s, s = Judged(r, a, v)
  PROVE  s \in SuiteRuns /\ s.at = a /\ s.case = r.case /\ s.verdict = v
  <1> DEFINE P == RunPlaces
             C == 1..Cases
             V == Verdicts
  <1>1. r \in [at: P, case: C, verdict: V] /\ a \in P /\ v \in V
    BY DEF SuiteRuns
  <1>2. s = [r EXCEPT !.at = a, !.verdict = v]
    BY DEF Judged
  <1> HIDE DEF P, C, V
  <1>3. s \in [at: P, case: C, verdict: V] /\ s.at = a /\ s.case = r.case /\ s.verdict = v
    BY <1>1, <1>2
  <1> QED BY <1>3 DEF SuiteRuns, P, C, V

LEMMA MovedFacts ==
  ASSUME NEW r \in SuiteRuns, NEW a \in RunPlaces, NEW s, s = MovedTo(r, a)
  PROVE  s \in SuiteRuns /\ s.at = a /\ s.case = r.case /\ s.verdict = r.verdict
  <1> DEFINE P == RunPlaces
             C == 1..Cases
             V == Verdicts
  <1>1. r \in [at: P, case: C, verdict: V] /\ a \in P
    BY DEF SuiteRuns
  <1>2. s = [r EXCEPT !.at = a]
    BY DEF MovedTo
  <1> HIDE DEF P, C, V
  <1>3. s \in [at: P, case: C, verdict: V] /\ s.at = a /\ s.case = r.case /\ s.verdict = r.verdict
    BY <1>1, <1>2
  <1> QED BY <1>3 DEF SuiteRuns, P, C, V

LEMMA AdvancedFacts ==
  ASSUME NEW r \in SuiteRuns, r.case + 1 \in 1..Cases, NEW s, s = Advanced(r)
  PROVE  s \in SuiteRuns /\ s.at = "run" /\ s.case = r.case + 1 /\ s.verdict = r.verdict
  <1> DEFINE P == RunPlaces
             C == 1..Cases
             V == Verdicts
             c == r.case + 1
  <1>1. r \in [at: P, case: C, verdict: V] /\ "run" \in P /\ c \in C
    BY DEF SuiteRuns, RunPlaces
  <1>2. s = [r EXCEPT !.at = "run", !.case = c]
    BY <1>1 DEF Advanced
  <1> HIDE DEF P, C, V, c
  <1>3. s \in [at: P, case: C, verdict: V] /\ s.at = "run" /\ s.case = c /\ s.verdict = r.verdict
    BY <1>1, <1>2
  <1> QED BY <1>3 DEF SuiteRuns, P, C, V, c

LEMMA AppFacts ==
  ASSUME NEW r \in Apps, NEW a \in AppPlaces, NEW s, s = MovedTo(r, a)
  PROVE  s \in Apps /\ s.at = a /\ s.text = r.text /\ s.found = r.found
  <1> DEFINE P == AppPlaces
             T == AppTexts
  <1>1. r \in [at: P, text: T, found: BOOLEAN] /\ a \in P
    BY DEF Apps
  <1>2. s = [r EXCEPT !.at = a]
    BY DEF MovedTo
  <1> HIDE DEF P, T
  <1>3. s \in [at: P, text: T, found: BOOLEAN] /\ s.at = a /\ s.text = r.text /\ s.found = r.found
    BY <1>1, <1>2
  <1> QED BY <1>3 DEF Apps, P, T

LEMMA SuiteConstants == /\ Delivery!Idle \in Apps /\ Delivery!Idle.at = "idle" /\ Delivery!NoNote \in Notes
                   /\ \A c \in 1..Cases, x \in {"raw", "safe", "other"}, b \in Delivery!Builds:
                          Parcel(c, x, b) \in Delivery!Parcels
  BY DEF Delivery!Idle, Apps, AppPlaces, AppTexts, Delivery!NoNote, Notes, Delivery!NoReceipt,
     Delivery!Receipts, Delivery!Grants, Parcel, Delivery!Parcels

\* What is sent and delivered are parcels, and the receipt has a text for each of its cases.
LEMMA SentRanges ==
  ASSUME Typed
  PROVE  /\ Len(deliveries) \in Nat /\ Len(receipt.cases) \in Nat /\ receipt.cases \in Seq(Answers)
         /\ \A c \in 1..Len(receipt.cases): receipt.cases[c] \in Answers
         /\ \A d \in wire: d \in Delivery!Parcels /\ d.case \in 1..Cases
         /\ \A k \in Arrivals: deliveries[k] \in Delivery!Parcels /\ deliveries[k].case \in 1..Cases
         /\ run.case \in 1..Cases /\ run.at \in RunPlaces /\ run.verdict \in Verdicts
  <1>1. receipt.cases \in Seq(Answers)
    BY DEF Typed, Delivery!Receipts, Answers
  <1>2. deliveries \in Seq(Delivery!Parcels) /\ wire \subseteq Delivery!Parcels
    BY DEF Typed
  <1>3. Len(deliveries) \in Nat /\ \A k \in 1..Len(deliveries): deliveries[k] \in Delivery!Parcels
    BY <1>2
  <1>4. \A d \in Delivery!Parcels: d.case \in 1..Cases
    BY DEF Delivery!Parcels
  <1>5. run.case \in 1..Cases /\ run.at \in RunPlaces /\ run.verdict \in Verdicts
    BY DEF Typed, SuiteRuns
  <1>6. Len(receipt.cases) \in Nat /\ \A c \in 1..Len(receipt.cases): receipt.cases[c] \in Answers
    <2> DEFINE q == receipt.cases
    <2>1. q \in Seq(Answers)
      BY <1>1
    <2> HIDE DEF q
    <2>2. Len(q) \in Nat /\ \A c \in 1..Len(q): q[c] \in Answers
      BY <2>1
    <2> QED BY <2>2 DEF q
  <1> QED BY <1>1, <1>2, <1>3, <1>4, <1>5, <1>6 DEF Arrivals

-----------------------------------------------------------------------------
(* The steps that leave the application and what was sent alone. *)

LEMMA SentFrame ==
  ASSUME SentOnce, SentInTurn, AppHolds, ReceiptHolds, UNCHANGED <<image, app, receipt, wire, deliveries>>,
         run'.case = run.case, run'.at \in {"new", "run"} => Unsent,
         app.at # "idle" => run'.at \in {"running", "abort", "ended"}
  PROVE  SentOnce' /\ SentInTurn' /\ AppHolds' /\ ReceiptHolds'
  <1>1. SentOnce'
    BY DEF SentOnce, Arrivals
  <1>2. Unsent' => Unsent
    BY DEF Unsent
  <1>3. SentInTurn'
    BY <1>2 DEF SentInTurn, Arrivals
  <1>4. AppHolds'
    BY DEF AppHolds, Arrivals, Parcel
  <1>5. ReceiptHolds'
    BY DEF ReceiptHolds, Arrivals, Parcel
  <1> QED BY <1>1, <1>3, <1>4, <1>5

\* What was passed stays so: the suite is closed and the deliveries are those.
LEMMA SamePassed ==
  ASSUME PassedHolds, UNCHANGED deliveries, closures[0] => closures'[0], run'.verdict = "PASS" => run.verdict = "PASS"
  PROVE  PassedHolds'
  BY DEF PassedHolds, Parcel

LEMMA SameGrants ==
  ASSUME GrantsClosed, UNCHANGED <<grants, closures>>, run'.at # "new" \/ run.at = "new"
  PROVE  GrantsClosed'
  BY DEF GrantsClosed

LEMMA CreateSuiteHolds ==
  ASSUME Recognizable, DeliveryInv, Delivery!CreateSuite
  PROVE  DeliveryInv'
  <1>1. /\ run.at = "new" /\ grants' = [c \in 1..Cases |-> "issued"] /\ run' = MovedTo(run, "run")
        /\ UNCHANGED <<image, app, receipt, wire, deliveries, closures, late, note>>
    BY DEF Delivery!CreateSuite, MovedTo
  <1>2. run' \in SuiteRuns /\ run'.at = "run" /\ run'.case = run.case /\ run'.verdict = run.verdict
    BY <1>1, MovedFacts DEF DeliveryInv, Typed, RunPlaces
  <1>3. Typed'
    BY <1>1, <1>2 DEF DeliveryInv, Typed, Delivery!Grants
  <1>4. app.at = "idle"
    BY <1>1 DEF DeliveryInv, AppHolds
  <1>5. SentOnce' /\ SentInTurn' /\ AppHolds' /\ ReceiptHolds'
    BY <1>1, <1>2, <1>4, SentFrame DEF DeliveryInv, Unsent
  <1>6. GrantsClosed'
    <2>1. \A c \in 0..Cases: ~closures'[c]
      BY <1>1 DEF DeliveryInv, GrantsClosed
    <2>2. 0 \in 0..Cases /\ \A c \in 1..Cases: c \in 0..Cases
      BY DEF Recognizable
    <2> QED BY <1>2, <2>1, <2>2 DEF GrantsClosed
  <1>7. RunHolds'
    BY <1>1, <1>2 DEF DeliveryInv, RunHolds, Checking, Delivery!Final
  <1>8. PassedHolds'
    BY <1>1, <1>2, SamePassed DEF DeliveryInv
  <1> QED BY <1>3, <1>5, <1>6, <1>7, <1>8 DEF DeliveryInv

\* What closing does to the closures and the grants.
LEMMA CloseFacts ==
  ASSUME Recognizable, Typed, GrantsClosed, NEW c \in 0..Cases, Delivery!Close(c)
  PROVE  /\ closures' \in [0..Cases -> BOOLEAN] /\ grants' \in Delivery!Grants
         /\ closures'[c] /\ \A d \in 0..Cases: closures[d] => closures'[d]
         /\ \A d \in 1..Cases: closures'[d] \/ closures'[0] => grants'[d] # "issued"
         /\ \A d \in 1..Cases: closures[d] \/ closures[0] => grants'[d] = grants[d]
  <1>1. closures \in [0..Cases -> BOOLEAN] /\ closures' = [closures EXCEPT ![c] = TRUE] /\ grants \in Delivery!Grants
    BY DEF Typed, Delivery!Close
  <1>2. /\ closures' \in [0..Cases -> BOOLEAN] /\ closures'[c]
        /\ \A d \in 0..Cases: d # c => closures'[d] = closures[d]
    BY <1>1
  <1>3. 0 \in 0..Cases /\ \A d \in 1..Cases: d \in 0..Cases /\ d # 0
    BY DEF Recognizable
  <1>4. \A d \in 1..Cases: closures[d] \/ closures[0] => grants[d] # "issued"
    BY DEF GrantsClosed
  <1>5. CASE closures[c]
    <2>1. grants' = grants
      BY <1>5 DEF Delivery!Close
    <2>2. \A d \in 0..Cases: closures'[d] => closures[d]
      BY <1>2, <1>5
    <2> QED BY <1>1, <1>2, <1>3, <1>4, <2>1, <2>2
  <1>6. CASE ~closures[c]
    <2> DEFINE S == IF c = 0 THEN 1..Cases ELSE {c}
    <2>1. grants' = [d \in 1..Cases |-> IF d \in S /\ grants[d] = "issued" THEN "closed_unused" ELSE grants[d]]
      BY <1>6 DEF Delivery!Close, Delivery!Unused
    <2>2. \A d \in 1..Cases: closures'[d] \/ closures'[0] => closures[d] \/ closures[0] \/ d \in S
      BY <1>2, <1>3
    <2> HIDE DEF S
    <2>3. grants' \in Delivery!Grants
      BY <1>1, <2>1 DEF Delivery!Grants
    <2>4. \A d \in 1..Cases: closures'[d] \/ closures'[0] => grants'[d] # "issued"
      BY <1>4, <2>1, <2>2
    <2>5. \A d \in 1..Cases: closures[d] \/ closures[0] => grants'[d] = grants[d]
      BY <1>4, <2>1
    <2>6. \A d \in 0..Cases: closures[d] => closures'[d]
      BY <1>2
    <2> QED BY <1>2, <2>3, <2>4, <2>5, <2>6
  <1> QED BY <1>5, <1>6

\* A place the run fails to.
LEMMA RunFails ==
  ASSUME DeliveryInv, NEW a \in {"abort", "ended"}, NEW v \in Verdicts \ {"PASS"}, run' = Judged(run, a, v),
         UNCHANGED <<image, app, receipt, wire, deliveries>>, run.at \notin {"new", "ended"}
  PROVE  /\ run' \in SuiteRuns /\ SentOnce' /\ SentInTurn' /\ AppHolds' /\ ReceiptHolds' /\ RunHolds' /\ PassedHolds'
         /\ run'.at \in {"abort", "ended"}
  <1>1. run' \in SuiteRuns /\ run'.at = a /\ run'.case = run.case /\ run'.verdict = v
    <2>1. run \in SuiteRuns /\ a \in RunPlaces
      BY DEF DeliveryInv, Typed, RunPlaces
    <2> QED BY <2>1, JudgedFacts
  <1>2. SentOnce' /\ SentInTurn' /\ AppHolds' /\ ReceiptHolds'
    BY <1>1, SentFrame DEF DeliveryInv
  <1>3. RunHolds' /\ PassedHolds'
    BY <1>1 DEF RunHolds, PassedHolds, Checking, Delivery!Final
  <1> QED BY <1>1, <1>2, <1>3

LEMMA GiveUpHolds ==
  ASSUME Recognizable, DeliveryInv, Delivery!GiveUp
  PROVE  DeliveryInv'
  <1>1. /\ run.at \notin {"new", "ended"} /\ note' = Delivery!NoNote
        /\ UNCHANGED <<image, app, receipt, wire, grants, deliveries, closures, late>>
    BY DEF Delivery!GiveUp, Delivery!sink
  <1>2. PICK a \in {"abort", "ended"}: run' = Judged(run, a, "ERR")
    BY DEF Delivery!GiveUp, Delivery!Abort, Judged
  <1>3. /\ run' \in SuiteRuns /\ SentOnce' /\ SentInTurn' /\ AppHolds' /\ ReceiptHolds' /\ RunHolds' /\ PassedHolds'
        /\ run'.at \in {"abort", "ended"}
    BY <1>1, <1>2, RunFails DEF Verdicts
  <1>4. Typed'
    BY <1>1, <1>3, SuiteConstants DEF DeliveryInv, Typed
  <1>5. GrantsClosed'
    BY <1>1, <1>3, SameGrants DEF DeliveryInv
  <1> QED BY <1>3, <1>4, <1>5 DEF DeliveryInv

LEMMA CloseCaseHolds ==
  ASSUME Recognizable, DeliveryInv, Delivery!CloseCase
  PROVE  DeliveryInv'
  <1>1. run.at = "close case" /\ UNCHANGED <<image, app, receipt, wire, deliveries, late, note>>
    BY DEF Delivery!CloseCase
  <1>2. CASE Delivery!Closable(run.case)
    <2>1. Delivery!Close(run.case) /\ run' = MovedTo(run, "build")
      BY <1>2 DEF Delivery!CloseCase, MovedTo
    <2>2. run' \in SuiteRuns /\ run'.at = "build" /\ run'.case = run.case /\ run'.verdict = run.verdict
      <3>1. run \in SuiteRuns /\ "build" \in RunPlaces
        BY DEF DeliveryInv, Typed, RunPlaces
      <3> QED BY <2>1, <3>1, MovedFacts
    <2>3. run.case \in 0..Cases /\ 0 \in 0..Cases
      BY SentRanges DEF DeliveryInv, Recognizable
    <2>4. /\ closures' \in [0..Cases -> BOOLEAN] /\ grants' \in Delivery!Grants
          /\ \A d \in 0..Cases: closures[d] => closures'[d]
          /\ \A d \in 1..Cases: closures'[d] \/ closures'[0] => grants'[d] # "issued"
      BY <2>1, <2>3, CloseFacts DEF DeliveryInv
    <2>5. Typed'
      BY <1>1, <2>2, <2>4 DEF DeliveryInv, Typed
    <2>6. app.at = "idle" /\ Len(receipt.cases) = run.case /\ run.verdict # "PASS"
      BY <1>1 DEF DeliveryInv, RunHolds, Checking
    <2>7. SentOnce' /\ SentInTurn' /\ AppHolds' /\ ReceiptHolds'
      BY <1>1, <2>2, <2>6, SentFrame DEF DeliveryInv
    <2>8. GrantsClosed'
      BY <2>2, <2>4 DEF GrantsClosed
    <2>9. RunHolds' /\ PassedHolds'
      BY <1>1, <2>2, <2>6 DEF RunHolds, PassedHolds, Delivery!Final
    <2> QED BY <2>5, <2>7, <2>8, <2>9 DEF DeliveryInv
  <1>3. CASE ~Delivery!Closable(run.case)
    <2>1. run' = Judged(run, "abort", "ERR") /\ UNCHANGED <<grants, closures>>
      BY <1>3 DEF Delivery!CloseCase, Delivery!Abort, Judged
    <2>2. /\ run' \in SuiteRuns /\ SentOnce' /\ SentInTurn' /\ AppHolds' /\ ReceiptHolds' /\ RunHolds' /\ PassedHolds'
          /\ run'.at \in {"abort", "ended"}
      BY <1>1, <2>1, RunFails DEF Verdicts
    <2>3. Typed'
      BY <1>1, <2>1, <2>2 DEF DeliveryInv, Typed
    <2>4. GrantsClosed'
      BY <2>1, <2>2, SameGrants DEF DeliveryInv
    <2> QED BY <2>2, <2>3, <2>4 DEF DeliveryInv
  <1> QED BY <1>2, <1>3

\* The last verification begins behind the suite's closure, or not at all.
LEMMA CloseSuiteHolds ==
  ASSUME Recognizable, DeliveryInv, Delivery!CloseSuite
  PROVE  DeliveryInv'
  <1>1. PICK arrives \in BOOLEAN, answered \in BOOLEAN:
          /\ answered => arrives
          /\ run.at \in {"close", "abort"}
          /\ IF arrives THEN Delivery!Close(0) ELSE UNCHANGED <<grants, closures>>
          /\ run' = IF run.at = "close" /\ answered THEN MovedTo(run, "final build")
                    ELSE IF run.at = "close" THEN Judged(run, "abort", "ERR")
                    ELSE [run EXCEPT !.at = "ended", !.verdict = IF answered THEN @ ELSE "ERR"]
          /\ UNCHANGED <<image, app, receipt, wire, deliveries, late, note>>
    BY DEF Delivery!CloseSuite, Delivery!Abort, MovedTo, Judged
  <1>2. run \in SuiteRuns /\ run.verdict \in Verdicts \ {"PASS"} /\ run.at # "new" /\ run.at # "ended"
    BY <1>1, SentRanges DEF DeliveryInv, RunHolds, Typed
  <1>3. /\ closures' \in [0..Cases -> BOOLEAN] /\ grants' \in Delivery!Grants
        /\ arrives => closures'[0] 
        /\ \A d \in 1..Cases: closures'[d] \/ closures'[0] => grants'[d] # "issued"
    <2>1. 0 \in 0..Cases
      BY DEF Recognizable
    <2>2. CASE arrives
      BY <1>1, <2>1, <2>2, CloseFacts DEF DeliveryInv
    <2>3. CASE ~arrives
      BY <1>1, <2>3 DEF DeliveryInv, Typed, GrantsClosed
    <2> QED BY <2>2, <2>3
  <1>4. CASE run.at = "close" /\ answered
    <2>1. run' = MovedTo(run, "final build") /\ closures'[0]
      BY <1>1, <1>3, <1>4
    <2>2. run' \in SuiteRuns /\ run'.at = "final build" /\ run'.case = run.case /\ run'.verdict = run.verdict
      <3>1. "final build" \in RunPlaces
        BY DEF RunPlaces, Delivery!Final
      <3>2. run \in SuiteRuns /\ run' = MovedTo(run, "final build")
        BY <1>2, <2>1
      <3> QED BY <3>1, <3>2, MovedFacts
    <2>3. Typed'
      BY <1>1, <1>3, <2>2 DEF DeliveryInv, Typed
    <2>4. app.at = "idle" /\ Len(receipt.cases) = run.case /\ run.case = Cases
      BY <1>4 DEF DeliveryInv, RunHolds, Checking
    <2>5. SentOnce' /\ SentInTurn' /\ AppHolds' /\ ReceiptHolds'
      BY <1>1, <2>2, <2>4, SentFrame DEF DeliveryInv
    <2>6. GrantsClosed'
      BY <1>3, <2>2 DEF GrantsClosed
    <2>7. RunHolds' /\ PassedHolds'
      BY <1>1, <1>2, <2>1, <2>2, <2>4 DEF RunHolds, PassedHolds
    <2> QED BY <2>3, <2>5, <2>6, <2>7 DEF DeliveryInv
  <1>5. CASE ~(run.at = "close" /\ answered)
    <2>1. PICK a \in {"abort", "ended"}, v \in Verdicts \ {"PASS"}: run' = Judged(run, a, v)
      <3>1. CASE run.at = "close"
        BY <1>1, <1>5, <3>1 DEF Verdicts
      <3>2. CASE run.at = "abort"
        <4>1. run' = [run EXCEPT !.at = "ended", !.verdict = IF answered THEN @ ELSE "ERR"]
          BY <1>1, <3>2
        <4>2. run' = Judged(run, "ended", IF answered THEN run.verdict ELSE "ERR")
          BY <1>2, <4>1 DEF Judged, SuiteRuns
        <4> QED BY <1>2, <4>2 DEF Verdicts
      <3> QED BY <1>1, <3>1, <3>2
    <2>2. /\ run' \in SuiteRuns /\ SentOnce' /\ SentInTurn' /\ AppHolds' /\ ReceiptHolds' /\ RunHolds' /\ PassedHolds'
          /\ run'.at \in {"abort", "ended"}
      BY <1>1, <1>2, <2>1, RunFails
    <2>3. Typed'
      BY <1>1, <1>3, <2>2 DEF DeliveryInv, Typed
    <2>4. GrantsClosed'
      BY <1>3, <2>2 DEF GrantsClosed
    <2> QED BY <2>2, <2>3, <2>4 DEF DeliveryInv
  <1> QED BY <1>4, <1>5

\* The verifier's reads.
LEMMA ReadBuildHolds ==
  ASSUME Recognizable, DeliveryInv, Delivery!ReadBuild
  PROVE  DeliveryInv'
  <1>1. /\ run.at \in {"build", "final build"} /\ note' = [note EXCEPT !.build = image]
        /\ UNCHANGED <<image, app, receipt, wire, grants, deliveries, closures, late>>
    BY DEF Delivery!ReadBuild, Delivery!sink
  <1> DEFINE a == IF run.at = "build" THEN "receipt" ELSE "final receipt"
  <1>2. run \in SuiteRuns /\ a \in RunPlaces /\ note \in Notes /\ image \in Delivery!Builds
    BY DEF DeliveryInv, Typed, RunPlaces, Delivery!Final
  <1>3. run' = MovedTo(run, a)
    BY <1>2 DEF Delivery!ReadBuild, MovedTo, SuiteRuns
  <1> HIDE DEF a
  <1>4. run' \in SuiteRuns /\ run'.at = a /\ run'.case = run.case /\ run'.verdict = run.verdict
    BY <1>2, <1>3, MovedFacts
  <1>5. note' \in Notes
    <2> DEFINE R == Delivery!Receipts
               G == Delivery!Grants
               B == Delivery!Builds \cup {"none"}
    <2>1. note \in [build: B, receipt: R, grants: G] /\ image \in B
      BY <1>2 DEF Notes
    <2> HIDE DEF R, G, B
    <2>2. note' \in [build: B, receipt: R, grants: G]
      BY <1>1, <2>1
    <2> QED BY <2>2 DEF Notes, R, G, B
  <1>6. Typed'
    BY <1>1, <1>4, <1>5 DEF DeliveryInv, Typed
  <1>7. app.at = "idle"
    BY <1>1 DEF DeliveryInv, RunHolds, Checking, Delivery!Final
  <1>8. /\ a # "new" /\ a # "run" /\ a # "ended" /\ (run.at = "build" => a = "receipt")
        /\ (run.at = "final build" => a = "final receipt")
    BY DEF a
  <1>9. SentOnce' /\ SentInTurn' /\ AppHolds' /\ ReceiptHolds'
    BY <1>1, <1>4, <1>7, <1>8, SentFrame DEF DeliveryInv
  <1>10. GrantsClosed'
    BY <1>1, <1>4, <1>8, SameGrants DEF DeliveryInv
  <1>11. PassedHolds'
    BY <1>1, <1>4, SamePassed DEF DeliveryInv
  <1>12. RunHolds'
    BY <1>1, <1>4, <1>8 DEF DeliveryInv, RunHolds, Checking, Delivery!Final
  <1> QED BY <1>6, <1>9, <1>10, <1>11, <1>12 DEF DeliveryInv

LEMMA ReadReceiptHolds ==
  ASSUME Recognizable, DeliveryInv, Delivery!ReadReceipt
  PROVE  DeliveryInv'
  <1>1. /\ run.at \in {"receipt", "final receipt"} /\ note' = [note EXCEPT !.receipt = receipt]
        /\ UNCHANGED <<image, app, receipt, wire, grants, deliveries, closures, late>>
    BY DEF Delivery!ReadReceipt, Delivery!sink
  <1> DEFINE a == IF run.at = "receipt" THEN "grants" ELSE "final grants"
  <1>2. run \in SuiteRuns /\ a \in RunPlaces /\ note \in Notes /\ receipt \in Delivery!Receipts
    BY DEF DeliveryInv, Typed, RunPlaces, Delivery!Final
  <1>3. run' = MovedTo(run, a)
    BY <1>2 DEF Delivery!ReadReceipt, MovedTo, SuiteRuns
  <1> HIDE DEF a
  <1>4. run' \in SuiteRuns /\ run'.at = a /\ run'.case = run.case /\ run'.verdict = run.verdict
    BY <1>2, <1>3, MovedFacts
  <1>5. note' \in Notes /\ note'.receipt = receipt
    <2> DEFINE R == Delivery!Receipts
               G == Delivery!Grants
               B == Delivery!Builds \cup {"none"}
    <2>1. note \in [build: B, receipt: R, grants: G] /\ receipt \in R
      BY <1>2 DEF Notes
    <2> HIDE DEF R, G, B
    <2>2. note' \in [build: B, receipt: R, grants: G] /\ note'.receipt = receipt
      BY <1>1, <2>1
    <2> QED BY <2>2 DEF Notes, R, G, B
  <1>6. Typed'
    BY <1>1, <1>4, <1>5 DEF DeliveryInv, Typed
  <1>7. app.at = "idle"
    BY <1>1 DEF DeliveryInv, RunHolds, Checking, Delivery!Final
  <1>8. /\ a # "new" /\ a # "run" /\ a # "ended" /\ (run.at = "receipt" => a = "grants")
        /\ (run.at = "final receipt" => a = "final grants")
    BY DEF a
  <1>9. SentOnce' /\ SentInTurn' /\ AppHolds' /\ ReceiptHolds'
    BY <1>1, <1>4, <1>7, <1>8, SentFrame DEF DeliveryInv
  <1>10. GrantsClosed'
    BY <1>1, <1>4, <1>8, SameGrants DEF DeliveryInv
  <1>11. PassedHolds'
    BY <1>1, <1>4, SamePassed DEF DeliveryInv
  <1>12. RunHolds'
    BY <1>1, <1>4, <1>5, <1>8 DEF DeliveryInv, RunHolds, Checking, Delivery!Final
  <1> QED BY <1>6, <1>9, <1>10, <1>11, <1>12 DEF DeliveryInv

LEMMA ReadGrantsHolds ==
  ASSUME Recognizable, DeliveryInv, Delivery!ReadGrants
  PROVE  DeliveryInv'
  <1>1. /\ run.at \in {"grants", "final grants"} /\ note' = [note EXCEPT !.grants = grants]
        /\ UNCHANGED <<image, app, receipt, wire, grants, deliveries, closures, late>>
    BY DEF Delivery!ReadGrants, Delivery!sink
  <1> DEFINE a == IF run.at = "grants" THEN "deliveries" ELSE "final deliveries"
  <1>2. run \in SuiteRuns /\ a \in RunPlaces /\ note \in Notes /\ grants \in Delivery!Grants
    BY DEF DeliveryInv, Typed, RunPlaces, Delivery!Final
  <1>3. run' = MovedTo(run, a)
    BY <1>2 DEF Delivery!ReadGrants, MovedTo, SuiteRuns
  <1> HIDE DEF a
  <1>4. run' \in SuiteRuns /\ run'.at = a /\ run'.case = run.case /\ run'.verdict = run.verdict
    BY <1>2, <1>3, MovedFacts
  <1>5. note' \in Notes /\ note'.receipt = note.receipt
    <2> DEFINE R == Delivery!Receipts
               G == Delivery!Grants
               B == Delivery!Builds \cup {"none"}
    <2>1. note \in [build: B, receipt: R, grants: G] /\ grants \in G
      BY <1>2 DEF Notes
    <2> HIDE DEF R, G, B
    <2>2. note' \in [build: B, receipt: R, grants: G] /\ note'.receipt = note.receipt
      BY <1>1, <2>1
    <2> QED BY <2>2 DEF Notes, R, G, B
  <1>6. Typed'
    BY <1>1, <1>4, <1>5 DEF DeliveryInv, Typed
  <1>7. app.at = "idle" /\ note.receipt = receipt
    BY <1>1 DEF DeliveryInv, RunHolds, Checking, Delivery!Final
  <1>8. /\ a # "new" /\ a # "run" /\ a # "ended" /\ (run.at = "grants" => a = "deliveries")
        /\ (run.at = "final grants" => a = "final deliveries")
    BY DEF a
  <1>9. SentOnce' /\ SentInTurn' /\ AppHolds' /\ ReceiptHolds'
    BY <1>1, <1>4, <1>7, <1>8, SentFrame DEF DeliveryInv
  <1>10. GrantsClosed'
    BY <1>1, <1>4, <1>8, SameGrants DEF DeliveryInv
  <1>11. PassedHolds'
    BY <1>1, <1>4, SamePassed DEF DeliveryInv
  <1>12. RunHolds'
    BY <1>1, <1>4, <1>5, <1>7, <1>8 DEF DeliveryInv, RunHolds, Checking, Delivery!Final
  <1> QED BY <1>6, <1>9, <1>10, <1>11, <1>12 DEF DeliveryInv

\* A verdict of PASS, after a case or at the end: what was delivered is what the receipt says,
\* by the build that the receipt names.
LEMMA PassFacts ==
  ASSUME Recognizable, DeliveryInv, run.at \in {"deliveries", "final deliveries"}, Delivery!Verdict = "PASS"
  PROVE  /\ Len(deliveries) = run.case
         /\ \A c \in 1..run.case: deliveries[c] = Parcel(c, "safe", receipt.build)
         /\ run.case >= Unlisted => receipt.build = "fixed"
  <1>1. note.receipt = receipt /\ Len(receipt.cases) = run.case
    BY DEF DeliveryInv, RunHolds, Checking, Delivery!Final
  <1>2. /\ Delivery!Complete
        /\ \A c \in 1..run.case: Delivery!Analyzed(c) /\ Delivery!Released(c) # "raw"
        /\ (run.case >= Unlisted => Delivery!Recognized)
    BY DEF Delivery!Verdict
  <1>3. receipt.build = note.build /\ Len(deliveries) = run.case
        /\ \A c \in 1..run.case: deliveries[c].case = c /\ deliveries[c].text = receipt.cases[c].text
    BY <1>1, <1>2 DEF Delivery!Complete
  <1>4. run.case \in 1..Cases /\ receipt.cases \in Seq(Answers)
    BY SentRanges DEF DeliveryInv
  <1>5. ASSUME NEW c \in 1..run.case PROVE deliveries[c] = Parcel(c, "safe", receipt.build)
    <2>1. receipt.cases[c] \in Answers
      <3>1. c \in 1..Len(receipt.cases)
        BY <1>1
      <3> QED BY <3>1, SentRanges DEF DeliveryInv
    <2>2. receipt.cases[c].text = "safe"
      <3>1. receipt.cases[c].text # "other" /\ receipt.cases[c].text # "raw"
        BY <1>1, <1>2, <1>5 DEF Delivery!Analyzed, Delivery!Released
      <3> QED BY <2>1, <3>1 DEF Answers
    <2>3. PICK k \in Arrivals: deliveries[k] = Parcel(c, receipt.cases[c].text, receipt.build)
      BY <1>1, <1>5 DEF DeliveryInv, ReceiptHolds
    <2>4. deliveries[k].case = c
      <3>1. \A x, b: Parcel(c, x, b).case = c
        BY DEF Parcel
      <3> QED BY <2>3, <3>1, Zenon
    <2>5. c \in Arrivals /\ deliveries[c].case = c
      BY <1>3, <1>5 DEF Arrivals
    <2>6. k = c
      BY <2>3, <2>4, <2>5 DEF DeliveryInv, SentOnce
    <2> QED BY <2>2, <2>3, <2>6
  <1>6. run.case >= Unlisted => receipt.build = "fixed"
    BY <1>2, <1>3 DEF Delivery!Recognized
  <1> QED BY <1>3, <1>5, <1>6

LEMMA VerdictType == Delivery!Verdict \in Verdicts
  BY DEF Delivery!Verdict, Verdicts

LEMMA FinalCheckHolds ==
  ASSUME Recognizable, DeliveryInv, Delivery!FinalCheck
  PROVE  DeliveryInv'
  <1>1. /\ run.at = "final deliveries" /\ run' = Judged(run, "ended", Delivery!Verdict) /\ note' = Delivery!NoNote
        /\ UNCHANGED <<image, app, receipt, wire, grants, deliveries, closures, late>>
    BY DEF Delivery!FinalCheck, Judged, Delivery!sink
  <1> DEFINE v == Delivery!Verdict
  <1>2. v \in Verdicts /\ run' = Judged(run, "ended", v)
    BY <1>1, VerdictType
  <1> HIDE DEF v
  <1>3. run \in SuiteRuns /\ "ended" \in RunPlaces
    BY DEF DeliveryInv, Typed, RunPlaces
  <1>4. run' \in SuiteRuns /\ run'.at = "ended" /\ run'.case = run.case /\ run'.verdict = v
    BY <1>2, <1>3, JudgedFacts
  <1>5. Typed'
    BY <1>1, <1>4, SuiteConstants DEF DeliveryInv, Typed
  <1>6. app.at = "idle" /\ run.case = Cases /\ closures[0]
    BY <1>1 DEF DeliveryInv, RunHolds, Checking, Delivery!Final
  <1>7. SentOnce' /\ SentInTurn' /\ AppHolds' /\ ReceiptHolds'
    BY <1>1, <1>4, <1>6, SentFrame DEF DeliveryInv
  <1>8. GrantsClosed'
    BY <1>1, <1>4, SameGrants DEF DeliveryInv
  <1>9. RunHolds'
    BY <1>4 DEF RunHolds, Checking, Delivery!Final
  <1>10. PassedHolds'
    <2>1. SUFFICES ASSUME v = "PASS"
                   PROVE  Len(deliveries) = Cases /\ \A c \in 1..Cases: deliveries[c] = Parcel(c, "safe", "fixed")
      BY <1>1, <1>4, <1>6 DEF PassedHolds, Parcel
    <2>2. /\ Len(deliveries) = run.case
          /\ \A c \in 1..run.case: deliveries[c] = Parcel(c, "safe", receipt.build)
          /\ run.case >= Unlisted => receipt.build = "fixed"
      BY <1>1, <2>1, PassFacts DEF v
    <2>3. Cases >= Unlisted
      BY DEF Recognizable
    <2> QED BY <1>6, <2>2, <2>3
  <1> QED BY <1>5, <1>7, <1>8, <1>9, <1>10 DEF DeliveryInv

LEMMA CheckCaseHolds ==
  ASSUME Recognizable, DeliveryInv, Delivery!CheckCase
  PROVE  DeliveryInv'
  <1>1. /\ run.at = "deliveries" /\ note' = Delivery!NoNote
        /\ UNCHANGED <<image, app, receipt, wire, grants, deliveries, closures, late>>
    BY DEF Delivery!CheckCase, Delivery!sink
  <1>2. run \in SuiteRuns /\ run.case \in 1..Cases /\ "close" \in RunPlaces
    BY DEF DeliveryInv, Typed, SuiteRuns, RunPlaces
  <1>3. app.at = "idle" /\ Len(receipt.cases) = run.case /\ run.verdict # "PASS"
    BY <1>1 DEF DeliveryInv, RunHolds, Checking
  <1>4. CASE Delivery!Verdict # "PASS"
    <2> DEFINE v == Delivery!Verdict
    <2>1. v \in Verdicts \ {"PASS"} /\ run' = Judged(run, "abort", v)
      BY <1>4, VerdictType DEF Delivery!CheckCase, Delivery!Abort, Judged
    <2> HIDE DEF v
    <2>2. /\ run' \in SuiteRuns /\ SentOnce' /\ SentInTurn' /\ AppHolds' /\ ReceiptHolds' /\ RunHolds' /\ PassedHolds'
          /\ run'.at \in {"abort", "ended"}
      BY <1>1, <2>1, RunFails
    <2>3. Typed'
      BY <1>1, <2>2, SuiteConstants DEF DeliveryInv, Typed
    <2>4. GrantsClosed'
      BY <1>1, <2>2, SameGrants DEF DeliveryInv
    <2> QED BY <2>2, <2>3, <2>4 DEF DeliveryInv
  <1>5. CASE Delivery!Verdict = "PASS" /\ run.case < Cases
    <2>1. run' = Advanced(run)
      BY <1>5 DEF Delivery!CheckCase, Advanced
    <2>2. run.case + 1 \in 1..Cases
      BY <1>2, <1>5 DEF Recognizable
    <2>3. run' \in SuiteRuns /\ run'.at = "run" /\ run'.case = run.case + 1 /\ run'.verdict = run.verdict
      BY <1>2, <2>1, <2>2, AdvancedFacts
    <2>4. Typed'
      BY <1>1, <2>3, SuiteConstants DEF DeliveryInv, Typed
    <2>5. SentOnce' /\ ReceiptHolds'
      BY <1>1 DEF DeliveryInv, SentOnce, ReceiptHolds, Arrivals, Parcel
    <2>6. SentInTurn'
      <3>1. \A d \in wire: d.case \in Nat /\ d.case <= run.case
        BY SentRanges DEF DeliveryInv, SentInTurn
      <3>2. \A k \in Arrivals: deliveries[k].case \in Nat /\ deliveries[k].case <= run.case
        BY SentRanges DEF DeliveryInv, SentInTurn
      <3>3. run.case \in Nat
        BY <1>2
      <3>4. \A n \in Nat: n <= run.case => n <= run.case + 1 /\ n # run.case + 1
        BY <3>3
      <3> QED BY <1>1, <2>3, <3>1, <3>2, <3>4 DEF SentInTurn, Arrivals
    <2>7. AppHolds'
      BY <1>1, <1>3 DEF AppHolds
    <2>8. GrantsClosed'
      BY <1>1, <2>3, SameGrants DEF DeliveryInv
    <2>9. RunHolds' /\ PassedHolds'
      BY <1>3, <2>3 DEF RunHolds, PassedHolds, Checking, Delivery!Final
    <2> QED BY <2>4, <2>5, <2>6, <2>7, <2>8, <2>9 DEF DeliveryInv
  <1>6. CASE Delivery!Verdict = "PASS" /\ ~(run.case < Cases)
    <2>1. run' = MovedTo(run, "close")
      BY <1>6 DEF Delivery!CheckCase, MovedTo
    <2>2. run' \in SuiteRuns /\ run'.at = "close" /\ run'.case = run.case /\ run'.verdict = run.verdict
      BY <1>2, <2>1, MovedFacts
    <2>3. run.case = Cases
      BY <1>2, <1>6 DEF Recognizable
    <2>4. Typed'
      BY <1>1, <2>2, SuiteConstants DEF DeliveryInv, Typed
    <2>5. SentOnce' /\ SentInTurn' /\ AppHolds' /\ ReceiptHolds'
      BY <1>1, <1>3, <2>2, SentFrame DEF DeliveryInv
    <2>6. GrantsClosed'
      BY <1>1, <2>2, SameGrants DEF DeliveryInv
    <2>7. RunHolds' /\ PassedHolds'
      BY <1>1, <1>3, <2>2, <2>3 DEF RunHolds, PassedHolds, Checking, Delivery!Final
    <2> QED BY <2>4, <2>5, <2>6, <2>7 DEF DeliveryInv
  <1> QED BY <1>4, <1>5, <1>6

-----------------------------------------------------------------------------
(* The steps of the sink and of the application. *)

LEMMA ExpireHolds ==
  ASSUME Recognizable, DeliveryInv, Delivery!Expire
  PROVE  DeliveryInv'
  <1>1. late' = TRUE /\ UNCHANGED <<image, app, receipt, wire, grants, deliveries, closures, run, note>>
    BY DEF Delivery!Expire, Delivery!sink
  <1>2. Typed' /\ GrantsClosed'
    BY <1>1 DEF DeliveryInv, Typed, GrantsClosed
  <1>3. SentOnce' /\ SentInTurn' /\ AppHolds' /\ ReceiptHolds' /\ RunHolds' /\ PassedHolds'
    BY <1>1 DEF DeliveryInv, SentOnce, SentInTurn, Unsent, AppHolds, ReceiptHolds,
       RunHolds, PassedHolds, Arrivals, Parcel
  <1> QED BY <1>2, <1>3 DEF DeliveryInv

LEMMA LoseHolds ==
  ASSUME Recognizable, DeliveryInv, Delivery!Lose
  PROVE  DeliveryInv'
  <1>1. wire' \subseteq wire /\ UNCHANGED <<image, app, receipt, grants, deliveries, closures, late, run, note>>
    BY DEF Delivery!Lose, Delivery!sink
  <1>2. Typed'
    BY <1>1 DEF DeliveryInv, Typed
  <1>3. SentOnce'
    BY <1>1 DEF DeliveryInv, SentOnce, Arrivals
  <1>4. SentInTurn'
    BY <1>1 DEF DeliveryInv, SentInTurn, Unsent, Arrivals
  <1>5. AppHolds'
    BY <1>1 DEF DeliveryInv, AppHolds, Arrivals, Parcel
  <1>6. GrantsClosed' /\ ReceiptHolds' /\ RunHolds' /\ PassedHolds'
    BY <1>1 DEF DeliveryInv, GrantsClosed, ReceiptHolds, RunHolds, PassedHolds, Arrivals, Parcel
  <1> QED BY <1>2, <1>3, <1>4, <1>5, <1>6 DEF DeliveryInv

\* The application comes to rest: a policy raises, an answer is none, another build starts.
LEMMA Rests ==
  ASSUME DeliveryInv, image' \in Delivery!Builds, app' = Delivery!Idle,
         UNCHANGED <<receipt, wire, grants, deliveries, closures, late, run, note>>
  PROVE  DeliveryInv'
  <1>1. app'.at = "idle"
    BY SuiteConstants
  <1>2. Typed'
    BY SuiteConstants DEF DeliveryInv, Typed
  <1>3. SentOnce'
    BY DEF DeliveryInv, SentOnce, Arrivals
  <1>4. Unsent' => Unsent
    BY <1>1 DEF Unsent
  <1>5. SentInTurn'
    BY <1>4 DEF DeliveryInv, SentInTurn, Arrivals
  <1>6. AppHolds'
    BY <1>1 DEF AppHolds
  <1>7. RunHolds'
    BY <1>1 DEF DeliveryInv, RunHolds
  <1>8. GrantsClosed' /\ ReceiptHolds' /\ PassedHolds'
    BY DEF DeliveryInv, GrantsClosed, ReceiptHolds, PassedHolds, Arrivals, Parcel
  <1> QED BY <1>2, <1>3, <1>5, <1>6, <1>7, <1>8 DEF DeliveryInv

LEMMA RaiseHolds ==
  ASSUME DeliveryInv, Delivery!Raise \/ Delivery!Rebuild
  PROVE  DeliveryInv'
  <1>1. app' = Delivery!Idle /\ UNCHANGED <<receipt, wire, grants, deliveries, closures, late, run, note>>
    BY DEF Delivery!Raise, Delivery!Rebuild, Delivery!sink
  <1>2. image' \in Delivery!Builds
    BY DEF DeliveryInv, Typed, Delivery!Raise, Delivery!Rebuild
  <1> QED BY <1>1, <1>2, Rests

\* A delivery arrives, and is taken if its grant is still issued.
LEMMA DeliverHolds ==
  ASSUME Recognizable, DeliveryInv, Delivery!Deliver
  PROVE  DeliveryInv'
  <1> DEFINE awaited(d) == app.at = "sent" /\ d.case = Len(receipt.cases) + 1
  <1>1. PICK d \in wire:
          /\ wire' = wire \ {d}
          /\ IF Delivery!Deliverable(d.case)
               THEN /\ grants' = [grants EXCEPT ![d.case] = "completed"]
                    /\ deliveries' = Append(deliveries, d)
                    /\ app' = IF awaited(d) THEN MovedTo(app, "answered") ELSE app
               ELSE /\ app' = IF awaited(d) THEN Delivery!Idle ELSE app
                    /\ UNCHANGED <<grants, deliveries>>
          /\ UNCHANGED <<image, receipt, closures, late, run, note>>
    BY DEF Delivery!Deliver, MovedTo
  <1>2. /\ d \in Delivery!Parcels /\ d.case \in 1..Cases /\ app \in Apps 
        /\ deliveries \in Seq(Delivery!Parcels) /\ Len(deliveries) \in Nat
        /\ Len(receipt.cases) \in Nat
    BY SentRanges DEF DeliveryInv, Typed
  <1>3. app'.at \in {app.at, "answered", "idle"} /\ app' \in Apps
        /\ (app'.at = "answered" /\ app.at # "answered" =>
              Delivery!Deliverable(d.case) /\ awaited(d) /\ app'.text = app.text)
        /\ (app'.at \in {"sent", "policy"} => app' = app)
        /\ (app.at = "answered" => app' = app)
        /\ (app.at = "idle" => app'.at = "idle")
    <2> HIDE DEF awaited
    <2>1. /\ MovedTo(app, "answered") \in Apps
          /\ MovedTo(app, "answered").at = "answered" /\ MovedTo(app, "answered").text = app.text
      BY <1>2, AppFacts DEF AppPlaces
    <2>2. Delivery!Idle \in Apps /\ Delivery!Idle.at = "idle"
      BY SuiteConstants
    <2>3. awaited(d) => app.at = "sent"
      BY DEF awaited
    <2>4. \/ app' \in {app, Delivery!Idle}
          \/ (app' = MovedTo(app, "answered") /\ Delivery!Deliverable(d.case) /\ awaited(d))
      BY <1>1
    <2>5. awaited(d) => app' # app \/ app.at = "idle"
      BY <1>1, <2>1, <2>2, <2>3
    <2>6. ~awaited(d) => app' = app
      BY <1>1
    <2> QED BY <1>2, <2>1, <2>2, <2>3, <2>4, <2>5, <2>6
  <1>4. CASE Delivery!Deliverable(d.case)
    <2>1. grants' = [grants EXCEPT ![d.case] = "completed"] /\ deliveries' = Append(deliveries, d)
      BY <1>1, <1>4
    <2>2. grants[d.case] = "issued" /\ ~closures[0]
      BY <1>4 DEF Delivery!Deliverable
    <2>3. /\ deliveries' \in Seq(Delivery!Parcels) /\ Len(deliveries') = Len(deliveries) + 1
          /\ deliveries'[Len(deliveries) + 1] = d
          /\ \A k \in Arrivals: deliveries'[k] = deliveries[k]
      BY <1>2, <2>1 DEF Arrivals
    <2>4. /\ \A k \in Arrivals': k \in Arrivals \/ k = Len(deliveries) + 1
          /\ \A k \in Arrivals: k \in Arrivals' /\ k # Len(deliveries) + 1
          /\ Len(deliveries) + 1 \in Arrivals'
      BY <1>2, <2>3 DEF Arrivals
    <2>5. Typed'
      <3>1. grants' \in Delivery!Grants
        BY <1>2, <2>1 DEF DeliveryInv, Typed, Delivery!Grants
      <3>2. wire' \subseteq Delivery!Parcels
        BY <1>1 DEF DeliveryInv, Typed
      <3> QED BY <1>1, <1>3, <2>3, <3>1, <3>2 DEF DeliveryInv, Typed
    <2>6. SentOnce'
      <3>1. \A e \in wire': e \in wire /\ e # d
        BY <1>1
      <3>2. \A k \in Arrivals: deliveries[k].case # d.case
        BY DEF DeliveryInv, SentOnce
      <3>3. \A e, f \in wire': e.case = f.case => e = f
        BY <3>1 DEF DeliveryInv, SentOnce
      <3>4. \A e \in wire', k \in Arrivals': deliveries'[k].case # e.case
        <4>1. \A e \in wire', k \in Arrivals: deliveries'[k].case # e.case
          BY <2>3, <3>1 DEF DeliveryInv, SentOnce
        <4>2. \A e \in wire': d.case # e.case
          BY <3>1 DEF DeliveryInv, SentOnce
        <4> QED BY <2>3, <2>4, <4>1, <4>2
      <3>5. \A k, l \in Arrivals': deliveries'[k].case = deliveries'[l].case => k = l
        <4>1. \A k, l \in Arrivals: deliveries'[k].case = deliveries'[l].case => k = l
          BY <2>3 DEF DeliveryInv, SentOnce
        <4>2. \A k \in Arrivals: deliveries'[k].case # deliveries'[Len(deliveries) + 1].case
          BY <2>3, <3>2
        <4> QED BY <2>4, <4>1, <4>2
      <3> QED BY <3>3, <3>4, <3>5 DEF SentOnce
    <2>7. Unsent' => Unsent
      BY <1>1, <1>3 DEF Unsent
    <2>8. SentInTurn'
      <3>1. \A e \in wire': e.case <= run.case /\ (Unsent => e.case # run.case)
        BY <1>1 DEF DeliveryInv, SentInTurn
      <3>2. d.case <= run.case /\ (Unsent => d.case # run.case)
        BY DEF DeliveryInv, SentInTurn
      <3>3. \A k \in Arrivals: deliveries'[k].case <= run.case /\ (Unsent => deliveries'[k].case # run.case)
        BY <2>3 DEF DeliveryInv, SentInTurn
      <3>4. \A k \in Arrivals': deliveries'[k].case <= run.case /\ (Unsent => deliveries'[k].case # run.case)
        BY <2>3, <2>4, <3>2, <3>3
      <3> QED BY <1>1, <2>7, <3>1, <3>4 DEF SentInTurn
    <2>9. AppHolds'
      <3>1. app'.at # "idle" => app.at # "idle"
        BY <1>3
      <3>2. app'.at = "sent" => \A e \in wire': e.case = run.case => e = Parcel(run.case, app'.text, image)
        BY <1>1, <1>3 DEF DeliveryInv, AppHolds
      <3>3. app'.at = "answered" => \E k \in Arrivals': deliveries'[k] = Parcel(run.case, app'.text, image)
        <4>1. CASE app.at = "answered"
          BY <1>3, <2>3, <2>4, <4>1 DEF DeliveryInv, AppHolds
        <4>2. CASE app'.at = "answered" /\ app.at # "answered"
          <5>1. app.at = "sent" /\ d.case = Len(receipt.cases) + 1 /\ app'.text = app.text
            BY <1>3, <4>2
          <5>2. Len(receipt.cases) + 1 = run.case
            BY <5>1 DEF DeliveryInv, AppHolds
          <5>3. d = Parcel(run.case, app.text, image)
            BY <5>1, <5>2 DEF DeliveryInv, AppHolds
          <5> QED BY <2>3, <2>4, <5>1, <5>3
        <4> QED BY <4>1, <4>2
      <3>4. app.at # "idle" => /\ run.at \in {"running", "abort", "ended"}
                               /\ Len(receipt.cases) + 1 = run.case
                               /\ receipt.cases # <<>> => receipt.build = image
        BY DEF DeliveryInv, AppHolds
      <3> QED BY <1>1, <3>1, <3>2, <3>3, <3>4 DEF AppHolds, Parcel
    <2>10. ReceiptHolds'
      <3>1. \A c \in 1..Len(receipt.cases): \E k \in Arrivals':
              deliveries'[k] = Parcel(c, receipt.cases[c].text, receipt.build)
        BY <2>3, <2>4 DEF DeliveryInv, ReceiptHolds
      <3> QED BY <1>1, <3>1 DEF ReceiptHolds, Parcel
    <2>11. GrantsClosed'
      <3>1. \A c \in 1..Cases: grants'[c] = "issued" => grants[c] = "issued"
        BY <2>1 DEF DeliveryInv, Typed, Delivery!Grants
      <3> QED BY <1>1, <3>1 DEF DeliveryInv, GrantsClosed
    <2>12. RunHolds'
      BY <1>1, <1>3 DEF DeliveryInv, RunHolds, Checking, Delivery!Final
    <2>13. PassedHolds'
      BY <1>1, <2>2 DEF DeliveryInv, PassedHolds
    <2> QED BY <2>5, <2>6, <2>8, <2>9, <2>10, <2>11, <2>12, <2>13 DEF DeliveryInv
  <1>5. CASE ~Delivery!Deliverable(d.case)
    <2>1. UNCHANGED <<image, receipt, grants, deliveries, closures, late, run, note>> /\ wire' = wire \ {d}
      BY <1>1, <1>5
    <2>2. app'.at # "answered" \/ app' = app
      BY <1>3, <1>5
    <2>3. Typed'
      BY <1>3, <2>1 DEF DeliveryInv, Typed
    <2>4. SentOnce'
      BY <2>1 DEF DeliveryInv, SentOnce, Arrivals
    <2>5. Unsent' => Unsent
      BY <1>3, <2>1 DEF Unsent
    <2>6. SentInTurn'
      BY <2>1, <2>5 DEF DeliveryInv, SentInTurn, Arrivals
    <2>7. AppHolds'
      <3>1. CASE app' = app
        BY <2>1, <3>1 DEF DeliveryInv, AppHolds, Arrivals, Parcel
      <3>2. CASE app' # app
        BY <1>3, <2>2, <3>2 DEF AppHolds, Apps, AppPlaces
      <3> QED BY <3>1, <3>2
    <2>8. RunHolds'
      BY <1>3, <2>1 DEF DeliveryInv, RunHolds, Checking, Delivery!Final
    <2>9. GrantsClosed' /\ ReceiptHolds' /\ PassedHolds'
      BY <2>1 DEF DeliveryInv, GrantsClosed, ReceiptHolds, PassedHolds, Arrivals, Parcel
    <2> QED BY <2>3, <2>4, <2>6, <2>7, <2>8, <2>9 DEF DeliveryInv
  <1> QED BY <1>4, <1>5

\* The policy has answered: its parcel is the first of its case.
LEMMA ApplyHolds ==
  ASSUME Recognizable, DeliveryInv, Delivery!Apply
  PROVE  DeliveryInv'
  <1>1. PICK text \in Delivery!Texts(Delivery!Mine), found \in BOOLEAN:
          /\ app.at = "policy"
          /\ app' = [at |-> "sent", text |-> text, found |-> found]
          /\ wire' = wire \cup {Parcel(Delivery!Mine, text, image)}
          /\ UNCHANGED <<image, receipt, grants, deliveries, closures, late, run, note>>
    BY DEF Delivery!Apply, Delivery!sink, Parcel
  <1>2. /\ Delivery!Mine = run.case /\ run.at \in {"running", "abort", "ended"}
        /\ receipt.cases # <<>> => receipt.build = image
    BY <1>1 DEF DeliveryInv, AppHolds, Delivery!Mine
  <1>3. text \in {"raw", "safe", "other"} /\ image \in Delivery!Builds /\ run.case \in 1..Cases
    BY <1>1, SentRanges DEF Delivery!Texts, DeliveryInv, Typed
  <1> DEFINE p == Parcel(run.case, text, image)
  <1>4. p \in Delivery!Parcels /\ p.case = run.case /\ wire' = wire \cup {p}
    <2>1. p \in Delivery!Parcels
      BY <1>3, SuiteConstants
    <2>2. p.case = run.case
      BY DEF Parcel
    <2> QED BY <1>1, <1>2, <2>1, <2>2
  <1> HIDE DEF p
  <1>5. app' \in Apps /\ app'.at = "sent" /\ app'.text = text
    BY <1>1, <1>3 DEF Apps, AppPlaces, AppTexts
  <1>6. Typed'
    BY <1>1, <1>4, <1>5 DEF DeliveryInv, Typed
  <1>7. Unsent
    BY <1>1 DEF Unsent
  <1>8. /\ \A d \in wire: d.case # run.case /\ d.case <= run.case
        /\ \A k \in Arrivals: deliveries[k].case # run.case /\ deliveries[k].case <= run.case
    BY <1>7 DEF DeliveryInv, SentInTurn
  <1>9. SentOnce'
    <2>1. \A d, e \in wire': d.case = e.case => d = e
      BY <1>4, <1>8 DEF DeliveryInv, SentOnce
    <2>2. \A d \in wire', k \in Arrivals: deliveries[k].case # d.case
      BY <1>4, <1>8 DEF DeliveryInv, SentOnce
    <2>3. \A k, l \in Arrivals: deliveries[k].case = deliveries[l].case => k = l
      BY DEF DeliveryInv, SentOnce
    <2> QED BY <1>1, <2>1, <2>2, <2>3 DEF SentOnce, Arrivals
  <1>10. SentInTurn'
    <2>1. ~Unsent'
      BY <1>1, <1>2, <1>5 DEF Unsent
    <2>2. run.case <= run.case
      BY <1>3
    <2> QED BY <1>1, <1>4, <1>8, <2>1, <2>2 DEF SentInTurn, Arrivals
  <1>11. AppHolds'
    <2>1. \A d \in wire': d.case = run.case => d = Parcel(run.case, text, image)
      BY <1>4, <1>8 DEF p
    <2>2. Len(receipt.cases) + 1 = run.case
      BY <1>2 DEF Delivery!Mine
    <2> QED BY <1>1, <1>2, <1>5, <2>1, <2>2 DEF AppHolds, Parcel
  <1>12. RunHolds'
    BY <1>1, <1>2 DEF DeliveryInv, RunHolds, Checking, Delivery!Final
  <1>13. GrantsClosed' /\ ReceiptHolds' /\ PassedHolds'
    BY <1>1 DEF DeliveryInv, GrantsClosed, ReceiptHolds, PassedHolds, Arrivals, Parcel
  <1> QED BY <1>6, <1>9, <1>10, <1>11, <1>12, <1>13 DEF DeliveryInv

\* The receipt gets one more case, of the build that has answered the others.
LEMMA RecordHolds ==
  ASSUME Recognizable, DeliveryInv, Delivery!Record
  PROVE  DeliveryInv'
  <1> DEFINE answer == [text |-> app.text, found |-> app.found]
             n == Len(receipt.cases)
  <1>1. /\ app.at = "answered" /\ app' = Delivery!Idle
        /\ receipt' = [build |-> image, cases |-> Append(receipt.cases, answer)]
        /\ run' = IF run.at = "running" THEN MovedTo(run, "close case") ELSE run
        /\ UNCHANGED <<image, wire, grants, deliveries, closures, late, note>>
    BY DEF Delivery!Record, Delivery!sink, MovedTo
  <1>2. /\ run.at \in {"running", "abort", "ended"} /\ n + 1 = run.case
        /\ receipt.cases # <<>> => receipt.build = image
    BY <1>1 DEF DeliveryInv, AppHolds
  <1>3. PICK k \in Arrivals: deliveries[k] = Parcel(run.case, app.text, image)
    BY <1>1 DEF DeliveryInv, AppHolds
  <1>4. answer \in Answers
    <2>1. deliveries[k] \in Delivery!Parcels /\ app \in Apps
      BY SentRanges DEF DeliveryInv, Typed
    <2>2. app.text \in {"raw", "safe", "other"}
      <3>1. \A c, x, b: Parcel(c, x, b).text = x
        BY DEF Parcel
      <3>2. deliveries[k].text = app.text
        BY <1>3, <3>1
      <3> QED BY <2>1, <3>2 DEF Delivery!Parcels
    <2>3. app.found \in BOOLEAN
      BY <2>1 DEF Apps
    <2> QED BY <2>2, <2>3 DEF Answers
  <1>5. answer.text = app.text
    OBVIOUS
  <1> HIDE DEF answer
  <1>6. receipt.cases \in Seq(Answers) /\ n \in Nat
    BY SentRanges DEF DeliveryInv
  <1>7. /\ receipt'.build = image /\ receipt'.cases \in Seq(Answers) /\ Len(receipt'.cases) = n + 1
        /\ receipt'.cases[n + 1] = answer
        /\ \A c \in 1..n: receipt'.cases[c] = receipt.cases[c]
    <2> DEFINE old == receipt.cases
               new == Append(old, answer)
    <2>1. receipt'.build = image /\ receipt'.cases = new
      BY <1>1
    <2>2. old \in Seq(Answers) /\ n = Len(old) /\ n \in Nat
      BY <1>6
    <2> HIDE DEF old, n
    <2>3. new \in Seq(Answers) /\ Len(new) = n + 1 /\ new[n + 1] = answer /\ \A c \in 1..n: new[c] = old[c]
      BY <1>4, <2>2
    <2> QED BY <2>1, <2>3 DEF old
  <1>8. receipt' \in Delivery!Receipts
    <2>1. image \in Delivery!Builds \cup {"none"} /\ Append(receipt.cases, answer) \in Seq(Answers)
      BY <1>4, <1>6 DEF DeliveryInv, Typed
    <2> QED BY <1>1, <2>1 DEF Delivery!Receipts, Answers
  <1>9. /\ run' \in SuiteRuns /\ run'.case = run.case /\ run'.verdict = run.verdict
        /\ (run.at = "running" => run'.at = "close case") /\ (run.at # "running" => run' = run)
    <2>1. run \in SuiteRuns /\ "close case" \in RunPlaces
      BY DEF DeliveryInv, Typed, RunPlaces
    <2>2. CASE run.at = "running"
      <3>1. run' = MovedTo(run, "close case")
        BY <1>1, <2>2
      <3> QED BY <2>1, <2>2, <3>1, MovedFacts
    <2>3. CASE run.at # "running"
      BY <1>1, <2>1, <2>3
    <2> QED BY <2>2, <2>3
  <1>10. app'.at = "idle" /\ app' \in Apps
    BY <1>1, SuiteConstants
  <1>11. Typed'
    BY <1>1, <1>8, <1>9, <1>10 DEF DeliveryInv, Typed
  <1>12. SentOnce'
    BY <1>1 DEF DeliveryInv, SentOnce, Arrivals
  <1>13. SentInTurn'
    <2>1. ~Unsent'
      BY <1>2, <1>9, <1>10 DEF Unsent
    <2> QED BY <1>1, <1>9, <2>1 DEF DeliveryInv, SentInTurn, Arrivals
  <1>14. AppHolds'
    BY <1>10 DEF AppHolds
  <1>15. ReceiptHolds'
    <2>1. ASSUME NEW c \in 1..n + 1
          PROVE  \E l \in Arrivals: deliveries[l] = Parcel(c, receipt'.cases[c].text, image)
      <3>1. CASE c = n + 1
        BY <1>2, <1>3, <1>5, <1>7, <3>1
      <3>2. CASE c # n + 1
        <4>1. c \in 1..n
          BY <1>6, <2>1, <3>2
        <4>2. receipt.build = image
          <5>1. receipt.cases # <<>>
            BY <1>6, <4>1
          <5> QED BY <1>2, <5>1
        <4>3. PICK l \in Arrivals: deliveries[l] = Parcel(c, receipt.cases[c].text, receipt.build)
          BY <4>1 DEF DeliveryInv, ReceiptHolds
        <4> QED BY <1>7, <4>1, <4>2, <4>3
      <3> QED BY <3>1, <3>2
    <2>2. \A c \in 1..Len(receipt'.cases): \E l \in Arrivals':
            deliveries'[l] = Parcel(c, receipt'.cases[c].text, receipt'.build)
      BY <1>1, <1>7, <2>1 DEF Arrivals
    <2> QED BY <2>2 DEF ReceiptHolds, Parcel
  <1>16. RunHolds'
    BY <1>1, <1>2, <1>7, <1>9, <1>10 DEF DeliveryInv, RunHolds, Checking, Delivery!Final
  <1>17. GrantsClosed'
    BY <1>1, <1>2, <1>9, SameGrants DEF DeliveryInv
  <1>18. PassedHolds'
    BY <1>1, <1>9, SamePassed DEF DeliveryInv
  <1> QED BY <1>11, <1>12, <1>13, <1>14, <1>15, <1>16, <1>17, <1>18 DEF DeliveryInv

LEMMA StartCaseHolds ==
  ASSUME Recognizable, DeliveryInv, Delivery!StartCase
  PROVE  DeliveryInv'
  <1>1. run.at = "run" /\ UNCHANGED <<image, receipt, wire, grants, deliveries, closures, late, note>>
    BY DEF Delivery!StartCase, Delivery!sink
  <1>2. CASE app = Delivery!Idle /\ Delivery!Mine = run.case /\ Delivery!SameBuild
    <2>1. app' = MovedTo(Delivery!Idle, "policy") /\ run' = MovedTo(run, "running")
      BY <1>2 DEF Delivery!StartCase, MovedTo
    <2>2. run' \in SuiteRuns /\ run'.at = "running" /\ run'.case = run.case /\ run'.verdict = run.verdict
      <3>1. run \in SuiteRuns /\ "running" \in RunPlaces
        BY DEF DeliveryInv, Typed, RunPlaces
      <3> QED BY <2>1, <3>1, MovedFacts
    <2>3. app' \in Apps /\ app'.at = "policy"
      <3>1. Delivery!Idle \in Apps /\ "policy" \in AppPlaces
        BY SuiteConstants DEF AppPlaces
      <3> QED BY <2>1, <3>1, AppFacts
    <2>4. Typed'
      BY <1>1, <2>2, <2>3 DEF DeliveryInv, Typed
    <2>5. Unsent
      BY <1>1 DEF Unsent
    <2>6. SentOnce'
      BY <1>1 DEF DeliveryInv, SentOnce, Arrivals
    <2>7. SentInTurn'
      BY <1>1, <2>2, <2>5 DEF DeliveryInv, SentInTurn, Arrivals
    <2>8. AppHolds'
      <3>1. Len(receipt.cases) + 1 = run.case /\ (receipt.cases # <<>> => receipt.build = image)
        BY <1>2 DEF Delivery!Mine, Delivery!SameBuild
      <3> QED BY <1>1, <2>2, <2>3, <3>1 DEF AppHolds
    <2>9. ReceiptHolds'
      BY <1>1 DEF DeliveryInv, ReceiptHolds, Arrivals, Parcel
    <2>10. GrantsClosed'
      BY <1>1, <2>2, SameGrants DEF DeliveryInv
    <2>11. RunHolds'
      BY <1>1, <2>2 DEF DeliveryInv, RunHolds, Checking, Delivery!Final
    <2>12. PassedHolds'
      BY <1>1, <2>2, SamePassed DEF DeliveryInv
    <2> QED BY <2>4, <2>6, <2>7, <2>8, <2>9, <2>10, <2>11, <2>12 DEF DeliveryInv
  <1>3. CASE ~(app = Delivery!Idle /\ Delivery!Mine = run.case /\ Delivery!SameBuild)
    <2>1. app' = app /\ run' = Judged(run, "abort", "ERR")
      BY <1>3 DEF Delivery!StartCase, Delivery!Abort, Judged
    <2>2. /\ run' \in SuiteRuns /\ SentOnce' /\ SentInTurn' /\ AppHolds' /\ ReceiptHolds' /\ RunHolds' /\ PassedHolds'
          /\ run'.at \in {"abort", "ended"}
      BY <1>1, <2>1, RunFails DEF Verdicts
    <2>3. Typed'
      BY <1>1, <2>1, <2>2 DEF DeliveryInv, Typed
    <2>4. GrantsClosed'
      BY <1>1, <2>2, SameGrants DEF DeliveryInv
    <2> QED BY <2>2, <2>3, <2>4 DEF DeliveryInv
  <1> QED BY <1>2, <1>3

-----------------------------------------------------------------------------
(* The inductive invariant, and what follows. *)

LEMMA DeliveryInit == Recognizable /\ Delivery!Init => DeliveryInv
  <1> SUFFICES ASSUME Recognizable, Delivery!Init PROVE DeliveryInv
    OBVIOUS
  <1>1. /\ app.at = "idle" /\ run.at = "new" /\ run.verdict = "none" /\ run.case = 1 /\ wire = {} /\ deliveries = <<>>
        /\ receipt.cases = <<>>
    BY DEF Delivery!Init, Delivery!Idle, Delivery!NoReceipt
  <1>2. Typed
    <2>1. run \in SuiteRuns
      BY DEF Delivery!Init, SuiteRuns, RunPlaces, Verdicts, Recognizable
    <2>2. receipt \in Delivery!Receipts
      BY DEF Delivery!Init, Delivery!NoReceipt, Delivery!Receipts
    <2>3. /\ wire \subseteq Delivery!Parcels /\ deliveries \in Seq(Delivery!Parcels)
          /\ grants \in Delivery!Grants /\ closures \in [0..Cases -> BOOLEAN]
      BY DEF Delivery!Init, Delivery!Grants
    <2> QED BY <2>1, <2>2, <2>3, SuiteConstants DEF Delivery!Init, Typed
  <1>3. GrantsClosed
    BY DEF Delivery!Init, GrantsClosed
  <1>4. Len(deliveries) = 0 /\ Arrivals = {} /\ \A c \in 1..Len(receipt.cases): FALSE
    BY <1>1 DEF Arrivals
  <1>5. SentOnce /\ SentInTurn /\ AppHolds /\ ReceiptHolds
    BY <1>1, <1>4 DEF SentOnce, SentInTurn, AppHolds, ReceiptHolds
  <1>6. RunHolds /\ PassedHolds
    BY <1>1 DEF RunHolds, PassedHolds, Checking, Delivery!Final
  <1> QED BY <1>2, <1>3, <1>5, <1>6 DEF DeliveryInv

LEMMA DeliveryStutter == ASSUME DeliveryInv, UNCHANGED Delivery!vars PROVE DeliveryInv'
  <1>1. UNCHANGED <<image, app, receipt, wire, grants, deliveries, closures, late, run, note>>
    BY DEF Delivery!vars, Delivery!sink
  <1>2. Typed' /\ GrantsClosed'
    BY <1>1 DEF DeliveryInv, Typed, GrantsClosed
  <1>3. SentOnce' /\ SentInTurn' /\ AppHolds' /\ ReceiptHolds' /\ RunHolds' /\ PassedHolds'
    BY <1>1 DEF DeliveryInv, SentOnce, SentInTurn, Unsent, AppHolds, ReceiptHolds,
       RunHolds, PassedHolds, Arrivals, Parcel
  <1> QED BY <1>2, <1>3 DEF DeliveryInv

LEMMA DeliveryNext == ASSUME Recognizable, DeliveryInv, [Delivery!Next]_(Delivery!vars) PROVE DeliveryInv'
  <1>1. CASE UNCHANGED Delivery!vars
    BY <1>1, DeliveryStutter
  <1>2. CASE Delivery!Sink
    BY <1>2, CreateSuiteHolds, DeliverHolds, LoseHolds, ExpireHolds DEF Delivery!Sink
  <1>3. CASE Delivery!Application
    BY <1>3, ApplyHolds, RecordHolds, RaiseHolds DEF Delivery!Application
  <1>4. CASE Delivery!Control
    BY <1>4, StartCaseHolds, GiveUpHolds, CloseCaseHolds, CloseSuiteHolds DEF Delivery!Control
  <1>5. CASE Delivery!Verifier
    BY <1>5, ReadBuildHolds, ReadReceiptHolds, ReadGrantsHolds, CheckCaseHolds, FinalCheckHolds DEF Delivery!Verifier
  <1> QED BY <1>1, <1>2, <1>3, <1>4, <1>5 DEF Delivery!Next

\* In every reachable state the application, the receipt, what was sent and delivered, and what
\* the control center knows of them agree.
THEOREM DeliveryInductive == ASSUME Recognizable PROVE Delivery!Spec => []DeliveryInv
  <1>1. Delivery!Init => DeliveryInv
    BY DeliveryInit
  <1>2. DeliveryInv /\ [Delivery!Next]_(Delivery!vars) => DeliveryInv'
    BY DeliveryNext
  <1> QED BY <1>1, <1>2, PTL DEF Delivery!Spec

\* DeliverySuite is well typed.
THEOREM DeliveryTypeOK == ASSUME Recognizable PROVE Delivery!Spec => []Delivery!TypeOK
  <1>1. DeliveryInv => Delivery!TypeOK
    BY TypedIsTypeOK DEF DeliveryInv
  <1> QED BY <1>1, DeliveryInductive, PTL

\* verify_h09_presidio_delivery and check_h09_evidence: whatever the learner's policy returns,
\* whenever the application is rebuilt and however late a delivery is, a verification of P09
\* passes only when one build that recognizes every entity delivered each case once and
\* without its personal data, and nothing more can be delivered.
THEOREM DeliveryPassed == ASSUME Recognizable PROVE Delivery!Spec => []Delivery!PassedIsTrue
  <1>1. DeliveryInv => Delivery!PassedIsTrue
    <2> SUFFICES ASSUME DeliveryInv, run.verdict = "PASS"
                 PROVE  /\ deliveries = [c \in 1..Cases |-> [case |-> c, text |-> "safe", by |-> "fixed"]]
                        /\ \A c \in 1..Cases: ~Delivery!Deliverable(c)
      BY DEF Delivery!PassedIsTrue
    <2>1. closures[0] /\ Len(deliveries) = Cases /\ \A c \in 1..Cases: deliveries[c] = Parcel(c, "safe", "fixed")
      BY DEF DeliveryInv, PassedHolds
    <2>2. deliveries = [c \in 1..Cases |-> deliveries[c]]
      <3>1. deliveries \in Seq(Delivery!Parcels)
        BY DEF DeliveryInv, Typed
      <3>2. deliveries = [c \in 1..Len(deliveries) |-> deliveries[c]]
        BY <3>1
      <3> QED BY <2>1, <3>2
    <2> QED BY <2>1, <2>2 DEF Parcel, Delivery!Deliverable
  <1> QED BY <1>1, DeliveryInductive, PTL

\* The sink's grants and closures: what was delivered for a closed case, or in a closed suite,
\* stays as it was, and so does its grant, whatever was on its way when it was closed.
THEOREM DeliveryClosed == ASSUME Recognizable PROVE Delivery!Spec => Delivery!ClosedIsFinal
  <1>1. ASSUME DeliveryInv, [Delivery!Next]_(Delivery!vars) PROVE Delivery!ClosedIsFinalStep
    <2> SUFFICES ASSUME NEW c \in 1..Cases, closures[c] \/ closures[0]
                 PROVE  grants'[c] = grants[c] /\ Delivery!DeliveriesOf(c)' = Delivery!DeliveriesOf(c)
      BY DEF Delivery!ClosedIsFinalStep
    <2>1. grants[c] # "issued" /\ run.at # "new"
      <3>1. 0 \in 0..Cases /\ c \in 0..Cases
        BY DEF Recognizable
      <3> QED BY <1>1, <3>1 DEF DeliveryInv, GrantsClosed
    <2>2. CASE Delivery!Deliver
      <3>1. PICK d \in wire: IF Delivery!Deliverable(d.case)
                               THEN /\ grants' = [grants EXCEPT ![d.case] = "completed"]
                                    /\ deliveries' = Append(deliveries, d)
                               ELSE UNCHANGED <<grants, deliveries>>
        BY <2>2 DEF Delivery!Deliver
      <3>2. CASE Delivery!Deliverable(d.case)
        <4>1. d.case # c
          BY <2>1, <3>2 DEF Delivery!Deliverable
        <4>2. grants'[c] = grants[c]
          BY <1>1, <3>1, <3>2, <4>1 DEF DeliveryInv, Typed, Delivery!Grants
        <4>3. deliveries \in Seq(Delivery!Parcels) /\ d \in Delivery!Parcels
          BY <1>1 DEF DeliveryInv, Typed
        <4>4. /\ DOMAIN deliveries' = DOMAIN deliveries \cup {Len(deliveries) + 1}
              /\ deliveries'[Len(deliveries) + 1] = d
              /\ \A k \in DOMAIN deliveries: deliveries'[k] = deliveries[k]
          BY <3>1, <3>2, <4>3
        <4>5. {m \in DOMAIN deliveries': deliveries'[m].case = c} = {m \in DOMAIN deliveries: deliveries[m].case = c}
          BY <4>1, <4>4
        <4>6. \A m \in {m \in DOMAIN deliveries: deliveries[m].case = c}: deliveries'[m] = deliveries[m]
          BY <4>4
        <4>7. Delivery!DeliveriesOf(c)' = Delivery!DeliveriesOf(c)
          BY <4>5, <4>6 DEF Delivery!DeliveriesOf
        <4> QED BY <4>2, <4>7
      <3>3. CASE ~Delivery!Deliverable(d.case)
        BY <3>1, <3>3 DEF Delivery!DeliveriesOf
      <3> QED BY <3>2, <3>3
    <2>3. ASSUME grants' = grants, deliveries' = deliveries
          PROVE  grants'[c] = grants[c] /\ Delivery!DeliveriesOf(c)' = Delivery!DeliveriesOf(c)
      BY <2>3 DEF Delivery!DeliveriesOf
    <2>4. ASSUME NEW e \in 0..Cases, Delivery!Close(e), deliveries' = deliveries
          PROVE  grants'[c] = grants[c] /\ Delivery!DeliveriesOf(c)' = Delivery!DeliveriesOf(c)
      BY <1>1, <2>4, CloseFacts DEF DeliveryInv, Delivery!DeliveriesOf
    <2>5. CASE Delivery!CloseCase
      <3>1. run.case \in 0..Cases
        <4>1. run.case \in 1..Cases
          BY <1>1, SentRanges DEF DeliveryInv
        <4> QED BY <4>1 DEF Recognizable
      <3> QED BY <2>3, <2>4, <2>5, <3>1 DEF Delivery!CloseCase
    <2>6. CASE Delivery!CloseSuite
      <3>1. 0 \in 0..Cases
        BY DEF Recognizable
      <3> QED BY <2>3, <2>4, <2>6, <3>1 DEF Delivery!CloseSuite
    <2>7. CASE Delivery!CreateSuite
      BY <2>1, <2>7 DEF Delivery!CreateSuite
    <2>8. CASE \/ Delivery!Lose \/ Delivery!Expire \/ Delivery!Application \/ Delivery!StartCase
               \/ Delivery!GiveUp \/ Delivery!Verifier \/ UNCHANGED Delivery!vars
      BY <2>3, <2>8 DEF Delivery!Lose, Delivery!Expire, Delivery!Application, Delivery!Apply, Delivery!Record,
         Delivery!Raise, Delivery!Rebuild, Delivery!StartCase, Delivery!GiveUp, Delivery!Verifier,
         Delivery!ReadBuild, Delivery!ReadReceipt, Delivery!ReadGrants, Delivery!CheckCase,
         Delivery!FinalCheck, Delivery!vars, Delivery!sink
    <2> QED BY <1>1, <2>2, <2>5, <2>6, <2>7, <2>8 DEF Delivery!Next, Delivery!Sink, Delivery!Control
  <1>2. DeliveryInv /\ [Delivery!Next]_(Delivery!vars) => [Delivery!ClosedIsFinalStep]_(Delivery!vars)
    BY <1>1
  <1> QED BY <1>2, DeliveryInductive, PTL DEF Delivery!Spec, Delivery!ClosedIsFinal
===============================================================================

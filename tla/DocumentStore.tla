---------------------------- MODULE DocumentStore ----------------------------
(***************************************************************************)
(* The AWS resources of P02, as the gateway prepares them                  *)
(* (provision_h02_aws in server.py), audits them (preflight in             *)
(* p02_reuse.py, connection_evidence in p02_resources.py) and deletes them *)
(* (resource_cleanup.py), and as the control center asks for it in the     *)
(* sessions of several browsers.  In contrast to P03 (StorageLifecycle)    *)
(* there is no journal of preparations: one row says READY from the end of *)
(* a preparation to the end of a deletion.  A knowledge base or data       *)
(* source is not usable as soon as it exists.                              *)
(*                                                                         *)
(* The mission's executions store documents in the bucket, with the        *)
(* learner's own credentials, which outlive them.                          *)
(***************************************************************************)
EXTENDS Naturals, Sequences, SequencesExt

CONSTANTS Sessions,   \* sessions of the control center
          NoSession,
          MaxFaults   \* bound on failing calls, deaths of the gateway and deletions outside

VARIABLES cloud,      \* what exists in AWS, by the calls that make it, and the document
          settling,   \* what exists but is not ACTIVE or AVAILABLE
          state,      \* status of the row 'h02' of resource_state
          op,         \* the operation in the gateway: kind, by whom, its remaining calls, begun
          page,       \* per session: the request it waits for, or the last answer
          progress,   \* per session: the record of the operation it asked for last
          execution,  \* "none", "open", or "stored": open, and its document is in the bucket
          granted,    \* credentials for the bucket are in the learner's hands
          torn,       \* a deletion was interrupted, and nothing was prepared since
          outside,    \* a resource was deleted in the AWS console
          faults

storage == <<cloud, settling, state>>
mission == <<execution, granted>>
history == <<torn, outside, faults>>
vars == <<storage, op, page, progress, mission, history>>

\* The calls that make a resource, in their order; the first one makes it exist.
Calls(r) == CASE r = "source" -> <<"bucket", "block", "tags">>
              [] r = "role" -> <<"role", "policy">>
              [] r \in {"knowledge_base", "data_source"} -> <<r, "wait">>
              [] OTHER -> <<r>>
CreateOrder == <<"source", "vector", "index", "role", "knowledge_base", "data_source">>
Resources == ToSet(CreateOrder)
Made(r) == ToSet(Calls(r)) \ {"wait"}
Pieces == UNION {Made(r) : r \in Resources}
\* What a call needs to be there.
Needs(call) == CASE call = "index" -> {"vector"}
                 [] call \in {"block", "tags"} -> {"bucket"}
                 [] call = "policy" -> {"role"}
                 [] call = "knowledge_base" -> {"role", "index"}
                 [] call = "data_source" -> {"knowledge_base", "bucket"}
                 [] OTHER -> {}

\* The role, which has tags, goes after the vector bucket, which has none.
DeleteOrder == <<"data_source", "knowledge_base", "document", "bucket", "index", "vector", "policy", "role">>
With(call) == CASE call = "bucket" -> {"bucket", "block", "tags"}
                [] call = "knowledge_base" -> {"knowledge_base", "data_source"}
                [] OTHER -> {call}
Emptied(call) == call = "bucket" => "document" \notin cloud

NoOp == [kind |-> "none", by |-> NoSession, todo |-> <<>>, begun |-> FALSE]

Init == /\ cloud = {} /\ settling = {} /\ state = "none" /\ op = NoOp
        /\ page = [s \in Sessions |-> "idle"] /\ progress = [s \in Sessions |-> "waiting"]
        /\ execution = "none" /\ granted = FALSE
        /\ torn = FALSE /\ outside = FALSE /\ faults = 0

-----------------------------------------------------------------------------
(* preflight *)

Exists(r) == Head(Calls(r)) \in cloud
Absent == \A r \in {"source", "vector", "role", "knowledge_base"} : ~Exists(r)
\* check_bucket, check_role, and what is asked of a knowledge base or data source.
Configured(r) == Exists(r) => Made(r) \subseteq cloud /\ r \notin settling
\* The vector bucket has no tags that tell whose it is.
Owned == \E r \in {"source", "role", "knowledge_base"} : Exists(r)
\* connection_evidence: what the row names is there, connected and usable.
Connected == Pieces \subseteq cloud /\ settling = {}

\* allow_partial: gaps are accepted; the default: nothing, or all.
PartialAudit == Absent \/ (Owned /\ \A r \in Resources : Configured(r))
StrictAudit == Absent \/ Connected

\* inventory: what the page shows when its AWS resources are looked up.
Inventory == CASE \A r \in Resources : Exists(r) -> "present"
               [] \A r \in Resources : ~Exists(r) -> "absent"
               [] OTHER -> "partial"

-----------------------------------------------------------------------------
(* The control center: provision_h02_resources, delete_practice_resources. *)

Waiting == {"prepare", "check", "delete", "look"}

\* RESOURCE_MUTEXES and H02_PROVISION_LOCK: no mission operation beside another one.
Unlocked == op.kind = "none"

\* assert_idle
Idle == execution = "none"

\* The request of a session, and the record of its progress (tracked).
Begin(s, kind, todo) ==
  /\ page[s] \notin Waiting
  /\ Unlocked
  /\ op' = [kind |-> kind, by |-> s, todo |-> todo, begun |-> FALSE]
  /\ page' = [page EXCEPT ![s] = kind]
  /\ progress' = [progress EXCEPT ![s] = "running"]
  /\ UNCHANGED <<storage, mission, history>>

Prepare(s) == Begin(s, "prepare", <<"audit">>)

\* The audit is made twice; what it finds must be complete, and is listed once.
Delete(s) ==
  /\ Idle /\ StrictAudit
  /\ Begin(s, "delete", IF Absent THEN <<>> ELSE SelectSeq(DeleteOrder, LAMBDA call : call \in cloud))

\* A refused request: another operation is running, that of another mission's deletion
\* included, or the deletion is not allowed.  It replaces what the session is shown.
Turned(s) ==
  /\ page[s] \notin Waiting
  /\ page' = [page EXCEPT ![s] = "error"]
  /\ progress' = [progress EXCEPT ![s] = "waiting"]
  /\ op' = IF op.by = s THEN [op EXCEPT !.by = NoSession] ELSE op
  /\ UNCHANGED <<storage, mission, history>>

\* The control center waits 360 or 480 seconds; the operation goes on.
GiveUp(s) ==
  /\ page[s] \in {"prepare", "delete"}
  /\ page' = [page EXCEPT ![s] = "error"]
  /\ UNCHANGED <<storage, op, progress, mission, history>>

\* verify_h02_resources reads the row, and nothing of AWS.
Exposed == state = "READY"
Check(s) ==
  /\ page[s] = "check"
  /\ page' = [page EXCEPT ![s] = IF Exposed THEN "ready" ELSE "error"]
  /\ UNCHANGED <<storage, op, progress, mission, history>>

\* resource_status is refused while an operation is running.
Look(s) ==
  /\ page[s] \notin Waiting
  /\ page' = [page EXCEPT ![s] = IF Unlocked THEN Inventory ELSE "error"]
  /\ UNCHANGED <<storage, op, progress, mission, history>>

\* The operation ends, well or not, and its session is told if it still waits.
Ends(answer, record) ==
  /\ op' = NoOp
  /\ page' = [s \in Sessions |-> IF s = op.by /\ page[s] = op.kind THEN answer ELSE page[s]]
  /\ progress' = [s \in Sessions |-> IF s = op.by THEN record ELSE progress[s]]
Fails == Ends("error", "error")

-----------------------------------------------------------------------------
(* provision_h02_aws *)

Goes(todo) == op' = [op EXCEPT !.todo = todo]
Does(todo) == op' = [op EXCEPT !.todo = todo, !.begun = TRUE]

\* A complete set is reused.
Audit ==
  /\ op.kind = "prepare" /\ op.todo = <<"audit">>
  /\ PartialAudit
  /\ Goes(IF Connected THEN <<"save">> ELSE CreateOrder \o <<"final audit">>)
  /\ UNCHANGED <<storage, page, progress, mission, history>>

\* Each resource is looked up again, and checked when it is there.
Keep(r) ==
  /\ op.kind = "prepare" /\ Head(op.todo) = r
  /\ Exists(r) /\ Configured(r)
  /\ Goes(Tail(op.todo))
  /\ UNCHANGED <<storage, page, progress, mission, history>>

Create(call) ==
  /\ op.kind = "prepare" /\ Head(op.todo) = call
  /\ Needs(call) \subseteq cloud
  /\ cloud' = cloud \cup {call}
  /\ Does(Tail(op.todo))
  /\ UNCHANGED <<settling, state, page, progress, mission, history>>

Make(r) ==
  /\ op.kind = "prepare" /\ Head(op.todo) = r
  /\ ~Exists(r) /\ Needs(Head(Calls(r))) \subseteq cloud
  /\ cloud' = cloud \cup {Head(Calls(r))}
  /\ settling' = settling \cup ({r} \cap {"knowledge_base", "data_source"})
  /\ Does(Tail(Calls(r)) \o Tail(op.todo))
  /\ UNCHANGED <<state, page, progress, mission, history>>

\* wait_for_status
WaitForStatus ==
  /\ op.kind = "prepare" /\ Head(op.todo) = "wait"
  /\ settling = {}
  /\ Goes(Tail(op.todo))
  /\ UNCHANGED <<storage, page, progress, mission, history>>

FinalAudit ==
  /\ op.kind = "prepare" /\ op.todo = <<"final audit">>
  /\ Connected
  /\ Goes(<<"save">>)
  /\ UNCHANGED <<storage, page, progress, mission, history>>

SaveState ==
  /\ op.kind = "prepare" /\ op.todo = <<"save">>
  /\ state' = "READY" /\ torn' = FALSE
  /\ Ends("check", "provider_complete")
  /\ UNCHANGED <<cloud, settling, mission, outside, faults>>

\* An audit finds something else, or a resource is half made or gone again.
Stuck == LET call == Head(op.todo)
         IN IF call = "audit" THEN ~PartialAudit
            ELSE IF call = "final audit" THEN ~Connected
            ELSE IF call \in Resources /\ Exists(call) THEN ~Configured(call)
            ELSE IF call \in Resources THEN ~(Needs(Head(Calls(call))) \subseteq cloud)
            ELSE ~(Needs(call) \subseteq cloud)

Refused ==
  /\ op.kind = "prepare" /\ Stuck
  /\ Fails
  /\ UNCHANGED <<storage, mission, history>>

-----------------------------------------------------------------------------
(* delete_resources *)

Destroy ==
  /\ op.kind = "delete" /\ op.todo # <<>>
  /\ Emptied(Head(op.todo))
  /\ cloud' = cloud \ With(Head(op.todo))
  /\ settling' = settling \ With(Head(op.todo))
  /\ Does(Tail(op.todo))
  /\ UNCHANGED <<state, page, progress, mission, history>>

\* A document has come since the bucket was listed.
NotEmpty ==
  /\ op.kind = "delete" /\ op.todo # <<>>
  /\ ~Emptied(Head(op.todo))
  /\ torn' = TRUE
  /\ Fails
  /\ UNCHANGED <<storage, mission, outside, faults>>

Deleted ==
  /\ op.kind = "delete" /\ op.todo = <<>> /\ Absent
  /\ state' = "none" /\ torn' = FALSE
  /\ Ends("deleted", "provider_complete")
  /\ UNCHANGED <<cloud, settling, mission, outside, faults>>

-----------------------------------------------------------------------------
(* The mission's executions.  Their requests take the same mutex. *)

Register ==
  /\ Unlocked /\ execution = "none"
  /\ execution' = "open"
  /\ UNCHANGED <<storage, op, page, progress, granted, history>>

\* native_credentials: for 900 seconds, whatever becomes of the execution.
Grant ==
  /\ Unlocked /\ execution = "open" /\ Exposed
  /\ granted' = TRUE
  /\ UNCHANGED <<storage, op, page, progress, execution, history>>

Put ==
  /\ granted /\ "bucket" \in cloud
  /\ cloud' = cloud \cup {"document"}
  /\ execution' = IF execution = "open" THEN "stored" ELSE execution
  /\ UNCHANGED <<settling, state, op, page, progress, granted, history>>

Close ==
  /\ Unlocked /\ execution # "none"
  /\ execution' = "none"
  /\ UNCHANGED <<storage, op, page, progress, granted, history>>

Expire ==
  /\ granted
  /\ granted' = FALSE
  /\ UNCHANGED <<storage, op, page, progress, execution, history>>

-----------------------------------------------------------------------------
(* AWS, and what goes wrong. *)

Settle ==
  /\ settling # {}
  /\ \E r \in settling : settling' = settling \ {r}
  /\ UNCHANGED <<cloud, state, op, page, progress, mission, history>>

\* The call that is next may have had its effect.
Effect == LET call == Head(op.todo)
          IN IF op.todo = <<>> THEN cloud
             ELSE IF op.kind = "delete" THEN IF Emptied(call) THEN cloud \ With(call) ELSE cloud
             ELSE IF call \in Resources /\ ~Exists(call) /\ Needs(Head(Calls(call))) \subseteq cloud
               THEN cloud \cup {Head(Calls(call))}
             ELSE IF call \in Pieces \ Resources /\ Needs(call) \subseteq cloud THEN cloud \cup {call}
             ELSE cloud
Interrupted ==
  /\ cloud' \in {cloud, Effect}
  /\ settling' = (settling \cup ((cloud' \ cloud) \cap {"knowledge_base", "data_source"})) \cap cloud'
  /\ torn' = (torn \/ (op.kind = "delete" /\ (op.begun \/ cloud' # cloud)))

\* A call fails, or a status or an absence is not seen in time.
Fault ==
  /\ faults < MaxFaults /\ op.kind # "none"
  /\ faults' = faults + 1
  /\ Interrupted
  /\ Fails
  /\ UNCHANGED <<state, mission, outside>>

\* The gateway dies, and with it its records of progress.
Crash ==
  /\ faults < MaxFaults /\ op.kind # "none"
  /\ faults' = faults + 1
  /\ Interrupted
  /\ op' = NoOp
  /\ page' = [s \in Sessions |-> IF page[s] \in {"prepare", "delete"} THEN "error" ELSE page[s]]
  /\ progress' = [s \in Sessions |-> "waiting"]
  /\ UNCHANGED <<state, mission, outside>>

Elsewhere ==
  /\ faults < MaxFaults
  /\ faults' = faults + 1 /\ outside' = TRUE
  /\ \E call \in cloud \cap ToSet(DeleteOrder) :
       /\ Emptied(call)
       /\ call = "vector" => "index" \notin cloud
       /\ call = "role" => "policy" \notin cloud
       /\ cloud' = cloud \ With(call)
       /\ settling' = settling \ With(call)
  /\ UNCHANGED <<state, op, page, progress, mission, torn>>

Step == \/ Audit \/ WaitForStatus \/ FinalAudit \/ SaveState \/ Refused
        \/ \E call \in {"block", "tags", "policy"} : Create(call)
        \/ \E r \in Resources : Keep(r) \/ Make(r)
        \/ Destroy \/ NotEmpty \/ Deleted
Page == \E s \in Sessions : Prepare(s) \/ Delete(s) \/ Turned(s) \/ GiveUp(s) \/ Check(s) \/ Look(s)
Mission == Register \/ Grant \/ Put \/ Close \/ Expire
Next == Step \/ Page \/ Mission \/ Settle \/ Fault \/ Crash \/ Elsewhere

Spec == Init /\ [][Next]_vars

-----------------------------------------------------------------------------
(* Properties. *)

TypeOK ==
  /\ cloud \subseteq Pieces \cup {"document"}
  /\ settling \subseteq cloud \cap {"knowledge_base", "data_source"}
  /\ state \in {"none", "READY"}
  /\ op \in [kind : {"none", "prepare", "delete"}, by : Sessions \cup {NoSession},
             todo : Seq(Pieces \cup Resources \cup {"audit", "wait", "final audit", "save", "document"}),
             begun : BOOLEAN]
  /\ page \in [Sessions -> Waiting \cup {"idle", "error", "ready", "deleted", "present", "partial", "absent"}]
  /\ progress \in [Sessions -> {"waiting", "running", "provider_complete", "error"}]
  /\ execution \in {"none", "open", "stored"}
  /\ {granted, torn, outside} \subseteq BOOLEAN /\ faults \in 0..MaxFaults

\* The vector bucket, which has no tags, is never the only thing left.
VectorHasOwner == Exists("vector") /\ ~outside => Owned

\* While the row says READY all is there and usable, unless a deletion is in progress
\* or was interrupted.
ReadyIsConnected == state = "READY" /\ ~outside /\ ~torn /\ ~(op.kind = "delete" /\ op.begun) => Connected

\* A document that an execution has stored is in the bucket as long as the execution is open:
\* no deletion takes it away, although credentials and operations have lives of their own.
DocumentKept == execution = "stored" /\ ~outside => "document" \in cloud

\* The record of the operation a session asked for last says running just while the gateway
\* works on it.
ProgressIsTrue == \A s \in Sessions : progress[s] = "running" <=> op.by = s

StoreHolds == VectorHasOwner /\ ReadyIsConnected /\ DocumentKept /\ ProgressIsTrue
=============================================================================

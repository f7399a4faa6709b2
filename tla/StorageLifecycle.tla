--------------------------- MODULE StorageLifecycle ---------------------------
(***************************************************************************)
(* The AWS resources of P03: their preparation (p03_aws_preparation.py,    *)
(* p03_create_resources.py, p03_seed_document.py), the audit both          *)
(* operations start from (p03_resource_contract.py), the journal           *)
(* (p03_preparation.py) and the deletion (resource_cleanup.py).  A         *)
(* resource takes one call or several; every call may fail, with or        *)
(* without its effect.  One operation runs at a time.  The journal keeps   *)
(* the newest row, which alone decides what is exposed.                    *)
(***************************************************************************)
EXTENDS Naturals, Sequences, SequencesExt

CONSTANT MaxFaults  \* bound on failing calls and on deletions outside

VARIABLES cloud,    \* what exists in AWS, by the calls that make it
          journal,  \* state of the newest row of p03_preparations
          op,       \* the operation in progress
          todo,     \* its remaining calls
          begun,    \* it has made a change
          torn,     \* a deletion was interrupted, and nothing was prepared since
          outside,  \* a resource was deleted in the AWS console
          faults

vars == <<cloud, journal, op, todo, begun, torn, outside, faults>>

Resources == {"source", "vector", "index", "role", "knowledge_base", "data_source"}
\* The calls that make a resource, in their order; the first one makes it exist.
Calls == [r \in Resources |-> CASE r = "source" -> <<"bucket", "block", "tags">>
                                [] r = "role" -> <<"role", "policy">>
                                [] OTHER -> <<r>>]
Pieces == UNION {ToSet(Calls[r]) : r \in Resources}
Complete == Pieces \subseteq cloud
Exists(r) == Head(Calls[r]) \in cloud

CreateOrder == <<"source", "vector", "index", "role", "knowledge_base", "data_source">>
\* Mutant of DeleteOrder: roles are deleted before what they own.
DeleteOrderRoleEarly == <<"data_source", "knowledge_base", "object", "bucket", "policy", "role", "index", "vector">>
DeleteOrder == <<"data_source", "knowledge_base", "object", "bucket", "index", "vector", "policy", "role">>
\* What goes with a deleted thing.
With(call) == CASE call = "bucket" -> {"bucket", "block", "tags"}
                [] call = "knowledge_base" -> {"knowledge_base", "data_source"}
                [] OTHER -> {call}

Init == /\ cloud = {} /\ journal = "none" /\ op = "idle" /\ todo = <<>>
        /\ begun = FALSE /\ torn = FALSE /\ outside = FALSE /\ faults = 0

-----------------------------------------------------------------------------
(* inspect_existing *)

Absent == \A r \in {"source", "vector", "role", "knowledge_base"} : ~Exists(r)
\* What exists is configured: a bucket without tags, or a role without policy, is refused.
Configured == \A r \in Resources : Exists(r) => ToSet(Calls[r]) \subseteq cloud
\* A vector bucket has no tags of its own.
Owned == \E r \in {"source", "role", "knowledge_base"} : Exists(r)
Missing == {r \in Resources : ~Exists(r)}

\* Mutant of PartialAudit: gaps are refused as they are when resources are reused.
PartialAuditStrict == Absent \/ Complete
PartialAudit == Absent \/ (Configured /\ Owned)
StrictAudit == Absent \/ Complete

-----------------------------------------------------------------------------
(* prepare_aws *)

Creations(missing) == FlattenSeq([i \in 1..Len(CreateOrder) |->
                        IF CreateOrder[i] \in missing THEN Calls[CreateOrder[i]] ELSE <<>>])

\* begin is refused while a row is preparing.
Prepare ==
  /\ op = "idle" /\ journal # "preparing"
  /\ journal' = "preparing"
  /\ op' = "prepare" /\ todo' = <<"audit">> /\ begun' = FALSE
  /\ UNCHANGED <<cloud, torn, outside, faults>>

\* A complete set is reused; otherwise what is missing is made, and audited again.
InspectGaps ==
  /\ op = "prepare" /\ todo = <<"audit">>
  /\ PartialAudit
  /\ todo' = IF Missing = {} THEN <<"document">> ELSE Append(Creations(Missing), "final audit")
  /\ UNCHANGED <<cloud, journal, op, begun, torn, outside, faults>>

Create ==
  /\ op = "prepare" /\ Head(todo) \in Pieces
  /\ cloud' = cloud \cup {Head(todo)}
  /\ todo' = Tail(todo) /\ begun' = TRUE
  /\ UNCHANGED <<journal, op, torn, outside, faults>>

FinalAudit ==
  /\ op = "prepare" /\ todo = <<"final audit">>
  /\ Complete
  /\ todo' = <<"document">>
  /\ UNCHANGED <<cloud, journal, op, begun, torn, outside, faults>>

\* The document is put unless it is there, and ingested.
Document ==
  /\ op = "prepare" /\ todo = <<"document">>
  /\ cloud' = cloud \cup {"object"} /\ begun' = TRUE
  /\ todo' = <<"publish">>
  /\ UNCHANGED <<journal, op, torn, outside, faults>>

Done == op' = "idle" /\ todo' = <<>> /\ begun' = FALSE

Publish ==
  /\ op = "prepare" /\ todo = <<"publish">>
  /\ journal' = "ready" /\ torn' = FALSE
  /\ Done
  /\ UNCHANGED <<cloud, outside, faults>>

PrepareFails ==
  /\ op = "prepare"
  /\ journal' = "error"
  /\ Done
  /\ UNCHANGED <<cloud, torn, outside, faults>>

\* An audit that finds something else ends the preparation.
Refused == /\ \/ todo = <<"audit">> /\ ~PartialAudit
              \/ todo = <<"final audit">> /\ ~Complete
           /\ PrepareFails

-----------------------------------------------------------------------------
(* delete_resources *)

\* The audit is made twice; nothing is deleted unless the set is complete.  That no
\* execution may be open (assert_idle) is left out: executions are not part of this module.
Delete ==
  /\ op = "idle" /\ journal # "preparing"
  /\ StrictAudit
  /\ op' = "delete" /\ begun' = FALSE
  /\ todo' = IF Absent THEN <<>> ELSE SelectSeq(DeleteOrder, LAMBDA call : call \in cloud)
  /\ UNCHANGED <<cloud, journal, torn, outside, faults>>

Destroy ==
  /\ op = "delete" /\ todo # <<>>
  /\ cloud' = cloud \ With(Head(todo))
  /\ todo' = Tail(todo) /\ begun' = TRUE
  /\ UNCHANGED <<journal, op, torn, outside, faults>>

\* The last audit finds nothing, and a ready row becomes a deleted one.
Deleted ==
  /\ op = "delete" /\ todo = <<>> /\ Absent
  /\ journal' = IF journal = "ready" THEN "deleted" ELSE journal
  /\ torn' = FALSE
  /\ Done
  /\ UNCHANGED <<cloud, outside, faults>>

-----------------------------------------------------------------------------
(* A call fails before its effect, or after it, or absence is not confirmed in time. *)
Effect == IF todo = <<>> THEN cloud
          ELSE CASE op = "prepare" /\ Head(todo) \in Pieces -> cloud \cup {Head(todo)}
                 [] op = "delete" -> cloud \ With(Head(todo))
                 [] OTHER -> cloud

Fault ==
  /\ faults < MaxFaults /\ op # "idle"
  /\ faults' = faults + 1
  /\ cloud' \in {cloud, Effect}
  /\ journal' = IF op = "prepare" THEN "error" ELSE journal
  /\ torn' = (torn \/ (op = "delete" /\ (begun \/ cloud' # cloud)))
  /\ Done
  /\ UNCHANGED outside

\* The process dies; or fail is refused because the clock is behind the row.
Crash ==
  /\ op # "idle"
  /\ cloud' \in {cloud, Effect}
  /\ torn' = (torn \/ (op = "delete" /\ (begun \/ cloud' # cloud)))
  /\ Done
  /\ UNCHANGED <<journal, outside, faults>>

\* In the console a bucket is emptied first, and an index deleted before its bucket.
Elsewhere ==
  /\ faults < MaxFaults
  /\ faults' = faults + 1 /\ outside' = TRUE
  /\ \E call \in {c \in ToSet(DeleteOrder) : c \in cloud} :
       /\ call = "bucket" => "object" \notin cloud
       /\ call = "vector" => "index" \notin cloud
       /\ call = "role" => "policy" \notin cloud
       /\ cloud' = cloud \ With(call)
  /\ UNCHANGED <<journal, op, todo, begun, torn>>

Step == \/ InspectGaps \/ Create \/ FinalAudit \/ Document \/ Publish \/ Refused
        \/ Destroy \/ Deleted
Next == Prepare \/ Delete \/ Step \/ Fault \/ Crash \/ Elsewhere

Spec == Init /\ [][Next]_vars
\* An operation goes on, and preparation is asked for again and again.
FairSpec == Spec /\ WF_vars(Step) /\ SF_vars(Prepare)

-----------------------------------------------------------------------------
(* Properties. *)

TypeOK ==
  /\ cloud \subseteq Pieces \cup {"object"}
  /\ journal \in {"none", "preparing", "ready", "error", "deleted"}
  /\ op \in {"idle", "prepare", "delete"}
  /\ todo \in Seq(Pieces \cup {"audit", "final audit", "document", "publish", "object"})
  /\ op = "idle" => todo = <<>> /\ ~begun
  /\ {begun, torn, outside} \subseteq BOOLEAN /\ faults \in 0..MaxFaults

\* However preparations and deletions fail, the vector bucket, which has no
\* tags, is never the only thing left: the next preparation can tell whose it is.
VectorHasOwner == Exists("vector") /\ ~outside => Owned

\* While the journal exposes a binding all its resources exist, unless a deletion
\* is in progress or was interrupted.
ReadyIsComplete == journal = "ready" /\ ~outside /\ ~torn /\ ~(op = "delete" /\ begun) =>
                     Complete /\ "object" \in cloud

\* What is left has an owner, and what is exposed exists.
StorageHolds == VectorHasOwner /\ ReadyIsComplete

\* When calls stop failing, a preparation makes the set ready again, whatever is
\* missing, unless a row is left preparing, a bucket or role is left half made, or
\* the untagged vector bucket is alone: those need an operator.
RecoversOrNeedsOperator ==
  \/ []<>(journal = "ready")
  \/ <>[](op = "idle" /\ journal = "preparing")
  \/ <>[]~Configured
  \/ <>[]~(Absent \/ Owned)
=============================================================================

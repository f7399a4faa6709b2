------------------------------ MODULE MCDelivery ------------------------------
(***************************************************************************)
(* Instances of AuditPipeline and StorageLifecycle for TLC, both with      *)
(* their fairness.  The pseudo-constant part says which of them a          *)
(* behaviour runs; the other one stays as it was created.                  *)
(***************************************************************************)
EXTENDS AuditPipeline

CONSTANT MaxFaults

VARIABLES part, cloud, journal, op, todo, begun, torn, outside, faults
storageVars == <<cloud, journal, op, todo, begun, torn, outside, faults>>

Storage == INSTANCE StorageLifecycle

PartInit == part \in {"pipeline", "storage"} /\ Init /\ Storage!Init

PartNext == /\ part' = part
            /\ \/ part = "pipeline" /\ Next /\ UNCHANGED storageVars
               \/ part = "storage" /\ Storage!Next /\ UNCHANGED vars

\* The fairness of each part: none of its steps is possible in the other part.
PipelineFairness ==
  /\ WF_vars(part = "pipeline" /\ Send) /\ WF_vars(part = "pipeline" /\ ReadOutbox)
  /\ WF_vars(GiveUp) /\ WF_vars(LogGiveUp)
  /\ SF_vars(Acknowledge) /\ SF_vars(Forward) /\ SF_vars(LogAcknowledge)
  /\ \A e \in Events : SF_vars(sender = At("waiting", e) /\ Persist(e))
StorageFairness == /\ WF_storageVars(part = "storage" /\ Storage!Step)
                   /\ SF_storageVars(part = "storage" /\ Storage!Prepare)

PartSpec == /\ PartInit /\ [][PartNext]_<<part, vars, storageVars>>
            /\ PipelineFairness /\ StorageFairness

\* Types of both parts.
PartTypeOK == TypeOK /\ Storage!TypeOK

\* StorageLifecycle: what is left has an owner, and what is exposed exists.
StorageHolds == Storage!StorageHolds
\* StorageLifecycle: repeated preparations repair what no operator has to.
RecoversOrNeedsOperator == part = "storage" => Storage!RecoversOrNeedsOperator
=============================================================================

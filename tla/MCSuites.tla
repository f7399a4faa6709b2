------------------------------- MODULE MCSuites -------------------------------
(***************************************************************************)
(* Instances of Capabilities, SuiteStore and OperationLedger for TLC.      *)
(* They share nothing: the pseudo-constant part says which of them a       *)
(* behaviour runs, and the others stay as they were created.               *)
(***************************************************************************)
EXTENDS Capabilities, TLC

CONSTANTS Executions, Cases, PrepareWindow

VARIABLES part, clock, resource, rows, owner, direct, registered, place, job,
          executions, calls, claimed, at, work, response, performed, credentials
storeVars == <<resource, rows, owner, direct, registered, place, job>>
operationVars == <<executions, calls, claimed, at, work, response, performed, credentials>>

Store == INSTANCE SuiteStore WITH
           Snapshots <- Ids, Nothing <- None, SuiteWindow <- Life, now <- clock, suites <- rows, pc <- place

Operation == INSTANCE OperationLedger WITH
               Executions <- {"execution"}, Operations <- Suites, BadId <- "refused",
               NoReq <- None, Window <- 2, MaxTime <- 3, now <- clock, grants <- claimed, pc <- at,
               req <- work, answer <- response, served <- performed, issued <- credentials

PartInit == /\ part \in {"suites", "grants", "operations"}
            /\ Init /\ Store!Init /\ Operation!Init
            /\ part = "grants" => clock = 1
            /\ part # "grants" => now = 1
            /\ part # "suites" => resource = None

PartNext == /\ part' = part
            /\ \/ part = "grants" /\ Next /\ UNCHANGED <<clock, storeVars, operationVars>>
               \/ part = "suites" /\ Store!Next /\ UNCHANGED <<vars, operationVars>>
               \/ part = "operations" /\ Operation!Next /\ UNCHANGED <<vars, storeVars>>

PartSpec == PartInit /\ [][PartNext]_<<vars, part, clock, storeVars, operationVars>>

\* Types of the three parts.
PartTypeOK == /\ part = "grants" => TypeOK
              /\ part = "suites" => Store!TypeOK
              /\ part = "operations" => Operation!TypeOK

\* SuiteStore: a suite has all its cases or none, and its executions get the resources it was
\* prepared with.
SuitesHold == Store!SuitesHold
\* OperationLedger: the calls of an execution follow one another.
OneAfterAnother == Operation!OneAfterAnother
\* OperationLedger: what was performed is recorded.
EffectsRecorded == Operation!EffectsRecorded

Symmetry == Permutations(Suites) \cup Permutations(Executions) \cup Permutations(Threads)
              \cup Permutations(Ids)
=============================================================================

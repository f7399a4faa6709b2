---------------------------- MODULE MCGuardrails ----------------------------
(***************************************************************************)
(* Instances of ResourceLifecycle and PolicyStore for TLC, the guardrail   *)
(* of P04 and the policies of the guardrail proxy, of DocumentStore, the   *)
(* AWS resources of P02, and of the first missions: GatewaySuite for P01,  *)
(* NativeSuite for P02, StepSuite for P04, of CaseRunner, the              *)
(* application of P08, and of TokenTable, the tokens of the application    *)
(* gateway.  The pseudo-constant part says which of them a behaviour runs; *)
(* the others stay as they were created.                                   *)
(***************************************************************************)
EXTENDS ResourceLifecycle, TLC

VARIABLES part, now, pointer, meta, activated, up, lock, active, serving, seed, place, arg, base,
          passed, was, unmarked
policyVars == <<now, pointer, meta, activated, up, lock, active, serving, seed, place, arg, base,
                passed, was, unmarked>>

Policy == INSTANCE PolicyStore WITH
            Digests <- {"seed"} \cup Guardrails, Seeds <- {"seed"}, NoDigest <- None, NoThread <- Nobody,
            Life <- 0, MaxTime <- 2, Crashes <- TRUE, Faults <- TRUE, pc <- place

\* The missions take turns with the same variables.
VARIABLES x1, x2, x3, x4, x5, x6, x7, x8, x9, x10, x11
missionVars == <<x1, x2, x3, x4, x5, x6, x7, x8, x9, x10, x11>>
rest == <<x8, x9, x10, x11>>

\* P02: one suite, whose cases want two calls and none.
Documents == INSTANCE NativeSuite WITH
  Suites <- {"suite"}, NoSuite <- Nobody, Practice <- "P02", Want <- <<2, 0>>,
  wire <- x1, receipt <- x2, work <- x3, record <- x4, effects <- x5, center <- x6, checking <- x7

\* P04: two suites of two cases.
Steps == INSTANCE StepSuite WITH
  Suites <- Threads, NoSuite <- Nobody, Count <- 2,
  receipt <- x1, old <- x2, lock <- x3, registered <- x4, record <- x5, center <- x6, checking <- x7

\* The resources of P02: two browsers, one fault.
Store == INSTANCE DocumentStore WITH
  Sessions <- Threads, NoSession <- Nobody, MaxFaults <- 1,
  cloud <- x1, settling <- x2, state <- x3, op <- x4, page <- x5, progress <- x6, execution <- x7,
  granted <- x8, torn <- x9, outside <- x10, faults <- x11

\* P01: one suite, preflight or question, one restart.
Chats == INSTANCE GatewaySuite WITH
  MaxRestarts <- 1, kind <- x1, image <- x2, center <- x3, work <- x4, execution <- x5, receipt <- x6,
  budget <- x7, note <- x8, restarts <- x9, ran <- x10, served <- x11

\* Two tabs, three pairs of tokens, two keys.
Tokens == INSTANCE TokenTable WITH
  Tabs <- Threads, NoTab <- Nobody, MaxPairs <- 3, MaxKeys <- 2, row <- x1, server <- x2, pem <- x3,
  marker <- x4, active <- x5, signed <- x6, cookie <- x7, bearer <- x8, wire <- x9, root <- x10, mishap <- x11

\* P08: two suites of a normal request and a risk, one of them at least a verification, two builds.
Runner == INSTANCE CaseRunner WITH
  Suites <- Threads, NoSuite <- Nobody, Cases <- 2, Builds <- 2, plan <- x1, image <- x2, run <- x3,
  receipt <- x4, caps <- x5, threads <- x6, unsafe <- x7, reached <- x8, closed <- x9, client <- x10, wire <- x11

NoRest == x8 = 0 /\ x9 = 0 /\ x10 = 0 /\ x11 = 0
MissionInit == \/ part = "documents" /\ Documents!Init /\ NoRest
               \/ part = "steps" /\ Steps!Init /\ NoRest
               \/ part = "store" /\ Store!Init
               \/ part = "gateway" /\ Chats!Init
               \/ part = "tokens" /\ Tokens!Init
               \/ part = "runner" /\ Runner!Init /\ \E s \in Threads : x1[s].verify
               \/ /\ part \in {"lifecycle", "policy"} /\ NoRest
                  /\ x1 = 0 /\ x2 = 0 /\ x3 = 0 /\ x4 = 0 /\ x5 = 0 /\ x6 = 0 /\ x7 = 0

PartInit == /\ MissionInit
            /\ Init /\ Policy!Init
            /\ part # "policy" => now = 1
            /\ part # "lifecycle" => identity = CHOOSE a \in Accounts : TRUE

MissionNext == \/ part = "documents" /\ Documents!Next /\ UNCHANGED rest
               \/ part = "steps" /\ Steps!Next /\ UNCHANGED rest
               \/ part = "store" /\ Store!Next
               \/ part = "gateway" /\ Chats!Next
               \/ part = "tokens" /\ Tokens!Next
               \/ part = "runner" /\ Runner!Next

PartNext == /\ part' = part
            /\ \/ part = "lifecycle" /\ Next /\ UNCHANGED <<policyVars, missionVars>>
               \/ part = "policy" /\ Policy!Next /\ UNCHANGED <<vars, missionVars>>
               \/ MissionNext /\ UNCHANGED <<vars, policyVars>>

PartSpec == PartInit /\ [][PartNext]_<<part, vars, policyVars, missionVars>>

\* Types of the parts.
PartTypeOK == /\ part = "lifecycle" => TypeOK
              /\ part = "policy" => Policy!TypeOK
              /\ part = "documents" => Documents!TypeOK
              /\ part = "steps" => Steps!TypeOK
              /\ part = "store" => Store!TypeOK
              /\ part = "gateway" => Chats!TypeOK
              /\ part = "tokens" => Tokens!TypeOK
              /\ part = "runner" => Runner!TypeOK

\* GatewaySuite, NativeSuite, StepSuite, DocumentStore: a mission passes only when all its cases
\* went as its contract wants; the gateway's record says what the function did; a suite of P04 is under way alone, and stops
\* at its first failure; the resources of P02 have an owner, those exposed exist, and an open
\* execution keeps its document.  CaseRunner: a receipt is of one build and says what the
\* gateway recorded, whoever waited for it.  TokenTable: a login has one refresh token that works, the
\* browser's cookie is it, and what the browser holds can be verified.
PartsHold == /\ part = "documents" => Documents!VerdictIsTrue /\ Documents!EffectsAreReported
             /\ part = "steps" => Steps!VerdictIsTrue /\ Steps!FailureStops /\ Steps!OneUnderWay
             /\ part = "store" => Store!StoreHolds
             /\ part = "gateway" => Chats!VerdictIsTrue
             /\ part = "tokens" => Tokens!TokensHold
             /\ part = "runner" => Runner!RunnerHolds

\* PolicyStore: only what passed its tests becomes active.
OnlyTestedBecomesActive == Policy!OnlyTestedBecomesActive
\* PolicyStore: a draft replaces the policy it was made from.
PromotedOverItsBase == Policy!PromotedOverItsBase
\* PolicyStore: what was active can be rolled back to.
RollbackReachable == Policy!RollbackReachable

Symmetry == Permutations(Threads) \cup Permutations(Guardrails)
=============================================================================

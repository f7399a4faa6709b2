------------------------------- MODULE MCCenter -------------------------------
(***************************************************************************)
(* Instances of ControlCenter and of the suites it runs (RoleSuite,        *)
(* DeliverySuite, ActionSuite, ApprovalSuite, AgentSuite, ProviderSuite,   *)
(* DialogSuite, PipelineSuite; NativeSuite for P03), and of a page of its  *)
(* browser (Console), for TLC.  The pseudo-constant part says which of them a behaviour runs. *)
(***************************************************************************)
EXTENDS ControlCenter, TLC

CONSTANTS RoleCases, Normal, Tries, DeliveryCases, Unlisted, ActionCases

\* The suites take turns with the same twelve variables; what one does not need stays 0.
VARIABLES part, x1, x2, x3, x4, x5, x6, x7, x8, x9, x10, x11, x12
suiteVars == <<x1, x2, x3, x4, x5, x6, x7, x8, x9, x10, x11, x12>>

Suite == INSTANCE RoleSuite WITH Cases <- RoleCases, mission <- x1, build <- x2, caps <- x3, calls <- x4,
  closures <- x5, late <- x6, threads <- x7, reached <- x8, receipt <- x9, run <- x10, note <- x11, used <- x12

Delivery == INSTANCE DeliverySuite WITH Cases <- DeliveryCases, image <- x1, app <- x2, receipt <- x3,
  wire <- x4, grants <- x5, deliveries <- x6, closures <- x7, late <- x8, run <- x9, note <- x10

Action == INSTANCE ActionSuite WITH Cases <- ActionCases, image <- x1, app <- x2, receipt <- x3,
  wire <- x4, used <- x5, calls <- x6, effects <- x7, balance <- x8, late <- x9, run <- x10, note <- x11

Approval == INSTANCE ApprovalSuite WITH image <- x1, effects <- x2, made <- x3, spent <- x4, late <- x5,
  wire <- x6, memory <- x7, host <- x8, saved <- x9, run <- x10, note <- x11

Agent == INSTANCE AgentSuite WITH image <- x1, host <- x2, receipt <- x3, wire <- x4, models <- x5,
  tools <- x6, forwarded <- x7, contacted <- x8, run <- x9, note <- x10

Provider == INSTANCE ProviderSuite WITH mission <- x1, image <- x2, app <- x3, busy <- x4, wire <- x5,
  ledger <- x6, receipt <- x7, ran <- x8, shown <- x9, run <- x10, note <- x11

\* Two suites at a time; two of the four fixed cases stand for all that pass and for the risk.
Dialog == INSTANCE DialogSuite WITH Suites <- {"s1", "s2"}, Cases <- <<"contact-exact", "recovery-risk">>,
  Outputs <- {"o1", "o2"}, image <- x1, wire <- x2, receipts <- x3, evals <- x4, used <- x5, ran <- x6,
  run <- x7

\* Two stages of the nine, two cases of the eight: one goes through, one is refused on its way in.
Pipeline == INSTANCE PipelineSuite WITH Order <- <<"input_rail", "main">>, Stops <- <<"none", "input_rail">>,
  Together <- 2, image <- x1, runner <- x2, child <- x3, receipt <- x4, services <- x5, wire <- x6,
  trace <- x7, run <- x8, note <- x9

\* P03: two suites of one case.
Search == INSTANCE NativeSuite WITH Suites <- Sessions, NoSuite <- None, Practice <- "P03", Want <- <<2>>,
  wire <- x1, receipt <- x2, work <- x3, record <- x4, effects <- x5, center <- x6, checking <- x7

\* One operation and two readings of the records each time the page is loaded.
Page == INSTANCE Console WITH Missions <- {"P01", "P05"}, First <- "P01", Followed <- "P05", MaxRuns <- 1,
  MaxRestores <- 2, MaxSession <- 2, server <- x1, boot <- x2, tab <- x3, run <- x4, runs <- x5, badge <- x6,
  results <- x7, generation <- x8, restores <- x9, revision <- x10, stored <- x11

PartInit ==
  /\ Init
  /\ \/ part = "center" /\ x1 = 0 /\ x2 = 0 /\ x3 = 0 /\ x4 = 0 /\ x5 = 0 /\ x6 = 0
                        /\ x7 = 0 /\ x8 = 0 /\ x9 = 0 /\ x10 = 0 /\ x11 = 0 /\ x12 = 0
     \/ part = "suite" /\ Suite!Init
     \/ part = "delivery" /\ Delivery!Init /\ x11 = 0 /\ x12 = 0
     \/ part = "action" /\ Action!Init /\ x12 = 0
     \/ part = "approval" /\ Approval!Init /\ x12 = 0
     \/ part = "agent" /\ Agent!Init /\ x11 = 0 /\ x12 = 0
     \/ part = "provider" /\ Provider!Init /\ x12 = 0
     \/ part = "dialog" /\ Dialog!Init /\ x8 = 0 /\ x9 = 0 /\ x10 = 0 /\ x11 = 0 /\ x12 = 0
     \/ part = "pipeline" /\ Pipeline!Init /\ x10 = 0 /\ x11 = 0 /\ x12 = 0
     \/ part = "page" /\ Page!Init /\ x12 = 0
     \/ part = "search" /\ Search!Init /\ x8 = 0 /\ x9 = 0 /\ x10 = 0 /\ x11 = 0 /\ x12 = 0

PartNext ==
  /\ part' = part
  /\ \/ part = "center" /\ Next /\ UNCHANGED suiteVars
     \/ part = "suite" /\ Suite!Next /\ UNCHANGED vars
     \/ part = "delivery" /\ Delivery!Next /\ UNCHANGED <<vars, x11, x12>>
     \/ part = "action" /\ Action!Next /\ UNCHANGED <<vars, x12>>
     \/ part = "approval" /\ Approval!Next /\ UNCHANGED <<vars, x12>>
     \/ part = "agent" /\ Agent!Next /\ UNCHANGED <<vars, x11, x12>>
     \/ part = "provider" /\ Provider!Next /\ UNCHANGED <<vars, x12>>
     \/ part = "dialog" /\ Dialog!Next /\ UNCHANGED <<vars, x8, x9, x10, x11, x12>>
     \/ part = "pipeline" /\ Pipeline!Next /\ UNCHANGED <<vars, x10, x11, x12>>
     \/ part = "page" /\ Page!Next /\ UNCHANGED <<vars, x12>>
     \/ part = "search" /\ Search!Next /\ UNCHANGED <<vars, x8, x9, x10, x11, x12>>

PartSpec == PartInit /\ [][PartNext]_<<part, vars, suiteVars>>

\* Types of the part that runs.
PartTypeOK == CASE part = "center" -> TypeOK
                [] part = "suite" -> Suite!TypeOK
                [] part = "delivery" -> Delivery!TypeOK
                [] part = "action" -> Action!TypeOK
                [] part = "approval" -> Approval!TypeOK
                [] part = "agent" -> Agent!TypeOK
                [] part = "provider" -> Provider!TypeOK
                [] part = "dialog" -> Dialog!TypeOK
                [] part = "pipeline" -> Pipeline!TypeOK
                [] part = "page" -> Page!TypeOK
                [] part = "search" -> Search!TypeOK

\* The suites: what a verification that passed says is so.  RoleSuite: no risk case reached
\* the main model; DeliverySuite: each case was delivered once, without its personal data;
\* ActionSuite: no transfer was made; ApprovalSuite: only the approved call took effect;
\* AgentSuite: no request beyond the agent's boundary reached anything; ProviderSuite: no case
\* gave away a secret; DialogSuite: all of it ran on the build that refuses the code;
\* PipelineSuite: the stages ran in order and no others; NativeSuite: AWS saw the calls that
\* are on record, and the record has what a function did.  And on the page, the mark that says
\* a mission was passed gives way to nothing older than it, and no result outlives a reset.
PassedIsTrue == CASE part = "suite" -> Suite!PassedIsTrue
                  [] part = "delivery" -> Delivery!PassedIsTrue
                  [] part = "action" -> Action!VerdictIsTrue
                  [] part = "approval" -> Approval!VerdictIsTrue
                  [] part = "agent" -> Agent!VerdictIsTrue
                  [] part = "provider" -> Provider!VerdictIsTrue
                  [] part = "dialog" -> Dialog!VerdictIsTrue
                  [] part = "pipeline" -> Pipeline!VerdictIsTrue
                  [] part = "page" -> Page!BadgesAreTrue
                  [] part = "search" -> Search!VerdictIsTrue /\ Search!EffectsAreReported
                  [] OTHER -> TRUE
\* RoleSuite and DeliverySuite: a closed case's evidence stays as it was closed.
ClosedIsFinal == /\ [][part = "suite" => Suite!ClosedIsFinalStep]_suiteVars
                 /\ [][part = "delivery" => Delivery!ClosedIsFinalStep]_suiteVars
\* RoleSuite: evidence keeps the owner it was claimed with.
OwnersAreStable == part = "suite" => Suite!OwnersAreStable

Symmetry == Permutations(Sessions) \cup Permutations(Requests)
===============================================================================

------------------------------ MODULE MCServices ------------------------------
(***************************************************************************)
(* Instances of OutputQuota, PolicyPromotion and ChatPipeline, and of the  *)
(* suites of the observability missions (ScannerSuite, RegressionSuite,    *)
(* TelemetrySuite, QuerySuite, IncidentSuite, AlertSuite) for TLC.  They   *)
(* share nothing: the pseudo-constant part says which of them a behaviour  *)
(* runs, and the others stay as they were created.                         *)
(***************************************************************************)
EXTENDS OutputQuota, TLC

CONSTANTS Cases, MaxEvents, Retries, Rebuilds

\* All but OutputQuota take turns with the same variables; what one does not need stays 0.
VARIABLES part, x1, x2, x3, x4, x5, x6, x7, x8, x9, x10, x11, x12, x13
partVars == <<x1, x2, x3, x4, x5, x6, x7, x8, x9, x10, x11, x12, x13>>

Promotion == INSTANCE PolicyPromotion WITH
  Suites <- Reservations, Policies <- {"good", "fine", "bad"}, Good <- {"good", "fine"},
  Baseline <- "baseline", None <- NoReservation,
  source <- x1, events <- x2, record <- x3, run <- x4, worker <- x5, note <- x6

Chat == INSTANCE ChatPipeline WITH mode <- x1, request <- x2, hits <- x3, app <- x4, hub <- x5, model <- x6

Scanner == INSTANCE ScannerSuite WITH image <- x1, preflight <- x2, receipt <- x3, wire <- x4,
  running <- x5, run <- x6, ran <- x7

Regression == INSTANCE RegressionSuite WITH Suites <- Threads, image <- x1, wire <- x2, busy <- x3,
  prefix <- x4, used <- x5, ran <- x6, run <- x7

Telemetry == INSTANCE TelemetrySuite WITH Suites <- Threads, Cases <- <<"normal-lookup", "unauthorized-publish">>,
  image <- x1, metrics <- x2, wire <- x3, worker <- x4, receipts <- x5, ran <- x6, run <- x7

Query == INSTANCE QuerySuite WITH Suites <- Threads, image <- x1, counter <- x2, scraped <- x3, wire <- x4,
  worker <- x5, ledger <- x6, receipt <- x7, ran <- x8, run <- x9

\* One input of each kind stands for the ten.
Incident == INSTANCE IncidentSuite WITH Suites <- Threads, Cases <- <<"collected", "reversed", "damaged">>,
  Damaged <- {"damaged"}, image <- x1, wire <- x2, worker <- x3, ledger <- x4, receipt <- x5, ran <- x6,
  run <- x7

Alert == INSTANCE AlertSuite WITH Suites <- Threads, NoSuite <- NoReservation, file <- x1, loaded <- x2,
  rebuilds <- x3, alert <- x4, recent <- x5, mail <- x6, wire <- x7, db <- x8, exec <- x9, log <- x10,
  old <- x11, run <- x12, counted <- x13

From7 == x7 = 0 /\ x8 = 0 /\ x9 = 0
From10 == x10 = 0 /\ x11 = 0 /\ x12 = 0 /\ x13 = 0
From8 == x8 = 0 /\ x9 = 0 /\ From10
PartInit ==
  /\ Init
  /\ \/ part = "quota" /\ x1 = 0 /\ x2 = 0 /\ x3 = 0 /\ x4 = 0 /\ x5 = 0 /\ x6 = 0 /\ From7 /\ From10
     \/ part = "promotion" /\ Promotion!Init /\ From7 /\ From10
     \/ part = "chat" /\ Chat!Init /\ From7 /\ From10
     \/ part = "scanner" /\ Scanner!Init /\ From8
     \/ part = "regression" /\ Regression!Init /\ From8
     \/ part = "telemetry" /\ Telemetry!Init /\ From8
     \/ part = "query" /\ Query!Init /\ From10
     \/ part = "incident" /\ Incident!Init /\ From8
     \/ part = "alert" /\ Alert!Init

Unused7 == UNCHANGED <<x7, x8, x9, x10, x11, x12, x13>>
Unused8 == UNCHANGED <<x8, x9, x10, x11, x12, x13>>
Unused10 == UNCHANGED <<x10, x11, x12, x13>>
PartNext ==
  /\ part' = part
  /\ \/ part = "quota" /\ Next /\ UNCHANGED partVars
     \/ part = "promotion" /\ Promotion!Next /\ UNCHANGED vars /\ Unused7
     \/ part = "chat" /\ Chat!Next /\ UNCHANGED vars /\ Unused7
     \/ part = "scanner" /\ Scanner!Next /\ UNCHANGED vars /\ Unused8
     \/ part = "regression" /\ Regression!Next /\ UNCHANGED vars /\ Unused8
     \/ part = "telemetry" /\ Telemetry!Next /\ UNCHANGED vars /\ Unused8
     \/ part = "query" /\ Query!Next /\ UNCHANGED vars /\ Unused10
     \/ part = "incident" /\ Incident!Next /\ UNCHANGED vars /\ Unused8
     \/ part = "alert" /\ Alert!Next /\ UNCHANGED vars

PartSpec == PartInit /\ [][PartNext]_<<part, vars, partVars>>

\* Types of the part that runs.
PartTypeOK == CASE part = "quota" -> TypeOK
                [] part = "promotion" -> Promotion!TypeOK
                [] part = "chat" -> Chat!TypeOK
                [] part = "scanner" -> Scanner!TypeOK
                [] part = "regression" -> Regression!TypeOK
                [] part = "telemetry" -> Telemetry!TypeOK
                [] part = "query" -> Query!TypeOK
                [] part = "incident" -> Incident!TypeOK
                [] part = "alert" -> Alert!TypeOK

\* PolicyPromotion: what a run promotes passed its tests, and its three events are one block
\* behind the head it saw.
PromotionHolds == part = "promotion" => Promotion!PromotedWasTested /\ Promotion!PromotionIsOneBlock
\* ChatPipeline: who was told that the model was not called is told the truth.
NoFalseDenial == part = "chat" => Chat!NoFalseDenial
\* ChatPipeline: the model is shown only what the request is authorized for.
ModelSeesAuthorized == part = "chat" => Chat!ModelSeesAuthorized
\* ChatPipeline: what is released has been checked.
ReleasedIsChecked == part = "chat" => Chat!ReleasedIsChecked
\* The suites: what a verification that passed says is so, whatever other verifications did in
\* between.  ScannerSuite: one build was checked and scanned; RegressionSuite: both cases were
\* evaluated with one configuration; TelemetrySuite: one build counted every case;
\* QuerySuite: both queries found their own requests; IncidentSuite: every input was analysed,
\* the damaged ones refused; AlertSuite: the alert fired for the suite's own refusals and was
\* resolved.
VerdictIsTrue == CASE part = "scanner" -> Scanner!VerdictIsTrue
                   [] part = "regression" -> Regression!VerdictIsTrue
                   [] part = "telemetry" -> Telemetry!VerdictIsTrue
                   [] part = "query" -> Query!VerdictIsTrue
                   [] part = "incident" -> Incident!VerdictIsTrue
                   [] part = "alert" -> Alert!VerdictIsTrue
                   [] OTHER -> TRUE

Symmetry == Permutations(Threads) \cup Permutations(Reservations)
===============================================================================

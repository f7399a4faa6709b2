# A verification project for the LLM security control plane

TLA+ models of the stateful parts of `llm-security-control-plane/` and of the
telemetry path that ends in `examples/security-monitoring/`, the TLC runs that
check them, and TLAPS proofs about eight of them. Paths below are relative to
the repository's root; `P/` stands for `llm-security-control-plane/`, `G/` for
`P/guided-bedrock-gateway/`, `L/` for `P/guided-labs/`.

    tlc -workers 2 -config GuardrailLedger_clock.cfg GuardrailLedger
    tlapm GuardrailLedgerProofs.tla

`PROJECT.json` lists the runs, the source lines every definition stands for, the
hazards of the code with the properties aimed at them, and for every property a
mutation of the model that breaks it.

## 1. The system

The repository is a course on the OWASP LLM risks. Most of it is exercises and
deliberately vulnerable applications; the control plane is the part with rules
that have to hold. A learner works on a *page* of the *control center*, which
drives *missions* (P01 to P23). To verify one, the control center goes through
the mission's cases: it has the learner's code run in a *lab service* (a
container of its own, rebuilt when the learner changes a file), which calls the
*guided bedrock gateway* with a capability, which calls AWS and records what
happened; then it asks the *evidence verifier*, which compares the records of the
gateway and the services with the learner's receipt, and remembers which
evidence it has used. A verification must pass only when every case went as the
mission's contract says, whatever was lost, refused, repeated, rebuilt or still
under way. Beside these stand an application gateway with its tokens, a NeMo
policy hub, a guardrail proxy for the defensive labs, a Bedrock gateway with
quotas, and a monitor that collects their events.

| component | state | operations | interacts with | hard behaviour |
|---|---|---|---|---|
| P04 ledger and coordinator (`G/p04_ledger.py`, `p04_invocation.py`, `p04_api.py`, `p04_policy_audit.py`) | SQLite: executions, calls, audits; request threads | register, close; authorize, reserve, policy_audit, dispatch, finish | control center, Bedrock, prepared resources | threads racing for one execution, crash after the call, clock steps, resources changing under a call |
| P02, P03 ledgers and providers (`G/p0[23]_ledger.py`, `p0[23]_provider.py`, `p0[23]_api.py`) | SQLite: executions, calls, native grants | register, close, reserve, finish, native record, native credentials | S3 vectors, Bedrock, STS | two operations that exclude each other, answers after the window or after a failure |
| P03, P04 suites (`G/p0[34]_suites.py`) | SQLite: suites, cases, direct cases | prepare, prepare_direct, lookup, resolve | resource journal, ledgers | two transactions with a read between them |
| P12 capabilities (`G/p12_capabilities.py`, `p12_gateway.py`) | SQLite: suites, grants, RequestIds | issue, reserve, complete, fail, close, ledger | Bedrock, evidence verifier | one use under retry, a ledger read in two statements |
| P07, P08 backends (`G/h07_backend.py`, `h08_backend.py`) | SQLite: role grants, calls, closures | prepare, reserve, complete, fail, close, ledger | lab application, verifier | the application holds all grants at once and uses them when it likes |
| P04 guardrail lifecycle (`G/p04_preparation.py`, `p04_provisioning.py`, `resource_cleanup.py`) | SQLite journal, deletions; a mutex in memory; the guardrail in AWS | prepare, publish, fail, delete | AWS, STS, P04 ledger | three stores that a crash separates; accounts that change |
| P03 AWS resources (`G/p03_aws_preparation.py`, `p03_create_resources.py`, `p03_resource_contract.py`, ...) | journal; six AWS resources and a document | prepare, delete | AWS | a sequence of calls that may stop anywhere |
| P02 storage (`G/p02_resources.py`, `resource_progress.py`, `resource_cleanup.py`) | one row; AWS resources; progress in memory | prepare, delete, inventory | AWS, the page, open executions | no journal; credentials that outlive a deletion's listing |
| control center (`P/guided-control-center/server.py`, `progress.py`, ...) | sessions and busy sets in memory; completion records | session, verification, exploration, resource actions | all services | handlers that give way at each await; eviction; a verification that a newer one overtakes |
| its page (`P/guided-control-center/app.js`) | memory, sessionStorage, marks | restore, verify, chat, reset | control center | answers that come late or after a reset |
| evidence verifier (`P/guided-evidence-verifier/`) | used evidence | one check per mission | gateway ledgers, services | evidence read in several statements while calls still end |
| lab services (`L/h01-*` to `L/h22-*`) | receipts (volume or tmpfs), ledgers, counters, locks | run a case, run all, close | gateway, control center | requests that outlive their client; builds that change; restarts |
| P16 promotion (`L/h16-policy-promotion/`) | ledger of promotions, policy file | test, promote, rollback | control center | a head compared and swapped among several runs |
| guardrail proxy, policies (`P/guardrail-proxy/policy_store.py`, `server.py`) | files: pointer, drafts, markers; lock; a global | create_draft, test, mark_tested, promote, rollback, recovery | admins, containers that are created anew | awaits between check and use, crash between files |
| application gateway and NeMo hub (`P/application-gateway/server.py`, `policy.py`, `P/nemo-policy-hub/`) | one request each | authenticate, retrieve, check, call, release | models, spokes, search | a hub that goes on after the application has given up |
| application tokens (`P/application-gateway/auth.py`) | SQLite tokens; key files | login, refresh, logout, key change | browser tabs | refresh in several transactions, lost answers |
| Bedrock gateway (`P/bedrock-gateway/gateway_operations.py`) | SQLite: admissions | admit, settle, recovery | Bedrock | quota shared by requests, uncertain calls |
| telemetry path (`P/application-gateway/audit_delivery.py`, `examples/security-monitoring/app.py`, `log_delivery.py`) | two SQLite queues, an event table, counters | enqueue, flush, collect, persist, purge, forward | HTTP, log backend | lost and repeated messages, bounded queues, retention |

What makes each of them correct is stated by the properties of section 3; what
is left out, and why, is in section 6.

## 2. Modules

| module | models | about |
|---|---|---|
| `OneShotCall` | abstract specification | what an execution ledger promises of each execution |
| `GuardrailLedger` | P04 ledger, its coordinators, policy audits | implements `OneShotCall` |
| `GuardrailLedgerProofs`, `OutputQuotaProofs`, `CapabilitiesProofs`, `ControlCenterProofs`, `ResourceLifecycleProofs` | | the proofs; those of `OperationLedger`, `PolicyStore` and `AuditPipeline` are at the end of these modules |
| `OperationLedger` | P02 and P03 ledgers, providers, native calls and credentials | one module for both: they differ in names and in one branch |
| `SuiteStore` | P03 and P04 suites with the registration of their executions | |
| `Capabilities` | P12 grants with the requests around them | |
| `ResourceLifecycle` | P04 journal, guardrail, deletion, and registration behind the mutex | composes journal, AWS and the executions of the ledger |
| `StorageLifecycle` | P03 resources, call by call, with journal and deletion | |
| `DocumentStore` | P02 resources, between the sessions that ask for them | composes row, AWS, progress and executions |
| `ControlCenter` | sessions, busy sets, completion records | |
| `Console` | one page: app.js | |
| `GatewaySuite` | P01: verification, preflight, question | |
| `BudgetLedger` | the hourly budget of P01's gateway | |
| `NativeSuite` | P02, P03 verifications | |
| `StepSuite` | P04 verifications, case by case | |
| `DialogSuite`, `ActionSuite`, `DeliverySuite` | P05, P06, P09 | |
| `RoleSuite` | P07, P08 with an application that does as it likes | |
| `CaseRunner` | P07, P08: the repository's application, its lock, receipts and builds | |
| `ProviderSuite` | P10, P11 | |
| `PipelineSuite` | P12: nine stages in four services | |
| `RegressionSuite`, `ScannerSuite` | P13; P14, P15 | |
| `PolicyPromotion` | P16: the ledger of promotions and the runs over it | |
| `TelemetrySuite`, `QuerySuite`, `IncidentSuite`, `AlertSuite` | P17 to P20 | |
| `AgentSuite`, `ApprovalSuite` | P21, P22 | |
| `PolicyStore` | guardrail proxy's policy store and admin requests | |
| `ChatPipeline` | one chat request: application gateway, hub, spoke, models | |
| `TokenTable` | tokens of the application gateway, cookies and keys | |
| `WindowBudget` | abstract specification | what an output-token budget promises |
| `OutputQuota` | admission and accounting of the Bedrock gateway | implements `WindowBudget` |
| `AuditPipeline` | application queue, monitor, log worker | composes the three; implements the relay it states (`RelaySpec`): accepted events arrive at least once |
| `MC*` | | the instances TLC checks; constants are in the `.cfg` files |

**Conventions.** A SQLite method of the code is one `BEGIN IMMEDIATE` (or
autocommitted) transaction and one action; a method of several is several. What
a request does between two transactions is nothing the others can see, so its
program counter (`pc[t]`, or the field `at` of its record) has one label per
transaction or outside call, and its local variables are functions of the thread;
they are reset when the request returns, as locals are. An exception is a move
to the label of the `except` branch. Coroutines of one event loop give way only
where they await. A crash resets what is in memory and on a tmpfs and keeps what
is in a database, on a volume or in AWS. A call to AWS has an effect variable of
its own (`served`, `issued`, `aws`, `cloud`, `effects`): it may succeed, fail before its
effect, or have its effect while the answer is lost. Timestamps are small
integers and 0 is SQL NULL; `now` may step back wherever the code reads
`time.time()` and a property does not need otherwise. Identifiers, digests and
RequestIds are model values. The learner's code is whatever its contract lets it
be: a build is a name (`starter`, `fixed`, others where the verifier tells them
apart), and a rebuild replaces the running container.

**Instances.** An `MC` module may hold several components that share nothing. The
pseudo-constant `part` says which of them a behaviour runs, and the others stay
as they were created; components that are not the one extended take turns with the
variables `x1`, `x2`, .... The state space is the union of the parts, and each property
of the run is that of its part.

### The ledgers of the gateway
**GuardrailLedger.** `executions`, `calls` and `audits` are the tables of `p04_ledger.py`;
`Register`, `Close`, `Reserve`, `RecordAudit`, `Dispatch`, `Complete`, `Fail` its methods, each
with the conditions the method checks (`Live`, `Pending`, `Reservable`,
`AuditAdmissible`, `Dispatchable`, `Completable`). `Authorize` ... `Fail` in order are
`p04_api.invoke` and `Invocation.invoke`: the resource digest is compared
before and after the call, an AWS call is enclosed by two policy audits, the
reservation is outside the `try`, everything after it ends in `Fail`. The three
RequestIds of a receipt count as one. `served` counts what reached the provider.

**OperationLedger.** An execution's rows in the order of `sequence`; `Invoke`, `Call`,
`Finish`, `Fail` are `DocumentProvider.invoke` and `SearchProvider.invoke`, `NativeRecord`
the endpoint by which the control plane reports an SDK call, `AuthorizeNative`,
`ClaimGrant`, `Issue` the credentials endpoint. P02 and P03 differ in what a refused
native record leaves behind; `NativeRefused` may do either, so what is shown holds
of both.

**SuiteStore.** `Insert` is the first transaction of `prepare` (suite and all cases, or
nothing), `ReadResource` the read between, `Publish` or `Fail` the second. `Lookup`,
`Compare`, `Register` are the registration of an execution.

**Capabilities.** `Reserve`, `Call`, `Complete` or `Fail` are the invoke request, `ReadSuite`
and `ReadGrants` the verifier's ledger request, whose two reads are separate steps.

**OutputQuota** (`P/bedrock-gateway/`). A request reads the clock, admits (counts what its
window is charged and inserts its reservation, in one transaction), calls, and settles.
A call whose usage is unknown, and one that a crash cut off, keep the whole reservation.

### AWS resources
**ResourceLifecycle.** `mutex` is `RESOURCE_MUTEXES["P04"]`, which `server.py:1127-1147`
takes for every state-changing POST of the mission. `PrepareFirst`/`PrepareAgain`,
`Identify`, `Inspect`, `Create`, `Poll`, `Publish`, `FailPreparation` follow
`Provisioner.prepare`; `StartDelete` ... `Mark` follow `delete_resources`; `StartRegister`,
`Register`, `Close` are the ledger's, reduced to which guardrail an execution was
registered for.

**StorageLifecycle** (P03). `cloud` holds the calls whose effect exists (`Calls`: a bucket
takes three, a role two). `Prepare`, `InspectGaps`, `Create`*, `FinalAudit`, `Document`,
`Publish` are `prepare_aws`; `Delete`, `Destroy`*, `Deleted` are `delete_resources`. `Fault` is
any call that fails, `Elsewhere` a deletion in the AWS console. One operation runs at
a time, which is the boundary's mutex (modelled in `ResourceLifecycle`).

**DocumentStore** (P02) has no journal: one row is READY from the end of a preparation to
the end of a deletion, so an interrupted deletion leaves it READY, and the next
one goes on. Sessions ask for operations and poll the progress record, which a
refused request of the same session replaces although the first operation goes on. An
open execution may store its document through credentials issued earlier, after a
deletion listed the bucket; the deletion then fails there and is interrupted.

### The control center and its page
**ControlCenter.** A request passes the middleware (which takes a mission's lock while it
reads the body), the dependency that reads or creates the session in a thread, the
handler, and the recording of its result. Sessions are evicted oldest first, which may
happen to one whose verification is running. `progress` is the table of completion records
with its `begin`, `finish` and `mark_changed`, the comparison of build digests. A digest is
that of the deployed files, so one that is applied again brings its digest back: `Rebuild`
goes to any other build. The mark stays then (`tests/unit/test_guided_progress.py:97-104`); the history
variable `changed` says of which records another build than theirs has run since they were written.

**Console.** A page boots with awaits for sessions, records and the view; `restores` are the
readings of the records under way (focus, start), `runs` the operations it asked for. `at`
counts the operations that were over when the server was read, which is how "older"
is told. A reset of the exercises has a new generation, which the page compares when it
gets the focus.

### The missions
Each suite module has the control center's loop (`run` or `center`: the mission's
handler, await by await), the lab service (its handlers, locks, receipts, process), the
requests on their way (`wire`: a request given up by its client may still be handled), and
the verifier's check, which reads its sources one after the other (`note`). What the
verifier compares is what is modelled of the evidence. History variables (`ran`, `made`,
`reached`, `counted`, `trace`, `shown`) say what was really done; the properties compare
them with the verdict. The verdicts are `PASS`, `HIT` (the risk was shown) and `ERR`.
What is particular:

* **GatewaySuite** (P01): tables on a tmpfs, so a restart dooms the suite. The tokens of
  a call are reserved before it; the budget case exhausts the hour.
* **BudgetLedger**: see the findings.
* **NativeSuite** (P02, P03): a worker process per case calls AWS with credentials and
  reports each call; killed by its timeout, it leaves effects that no record tells of.
* **StepSuite** (P04): between two cases the runner's lock is free, and the receipt alone
  says that a suite is under way, for 180 seconds.
* **DialogSuite** (P05): an evaluation's id is a digest of its content, so two suites
  with the same output cannot both claim it.
* **ActionSuite** (P06): nothing is closed; an action may be done while the verifier
  reads the provider's ledger in four statements.
* **RoleSuite** (P07, P08): the application holds all grants and uses them in any
  order, in threads of its own, also after its client is gone; closing a case is
  refused while one of its calls is under way; crashes of the gateway.
* **CaseRunner** (P07, P08): the application that the repository ships, under verifications
  and explorations of several sessions. It runs one request at a time (409 for a second,
  which ends a verification as `ERR`), writes its receipt again after each case, refuses a case of
  another build, and never asks a failed case again. A request outlives its client but
  not a rebuild or restart; nor do the receipts of P07, which are on a tmpfs, while P08's are on
  a volume (`Rebuild` allows both), so the verdicts are measured by what the gateway let through.
* **DeliverySuite** (P09): a grant per case, deliveries in the mail service, closing of
  the case and of the suite.
* **ProviderSuite** (P10, P11): P10 refuses a case while another suite runs, P11 queues.
* **PipelineSuite** (P12): the learner calls nine stages in any order and at the same
  time; each service refuses what is out of order, and its suite is closed at the end.
* **RegressionSuite** (P13), **ScannerSuite** (P14, P15), **TelemetrySuite**, **QuerySuite**,
  **IncidentSuite**, **AlertSuite** (P17 to P20): the learner's files are baked into images,
  so a change is a rebuild that kills the running request, while receipts on
  volumes persist. Counters, scrapes and alerts are shared by all suites.
* **PolicyPromotion** (P16): a run's first case notes the ledger's head, and its promotion is
  refused when the head is another one; the exploration endpoint compares nothing.
* **AgentSuite** (P21): the host limits calls and bytes; each server keeps its list in memory.
* **ApprovalSuite** (P22): a signed approval is spent by its nonce; nonces and effects are on a
  tmpfs and lost together.

### The other services
**PolicyStore.** `pointer`, `meta`, `activated` are the volume's files, `active` is the store's
policy and `serving` the server's global `ACTIVE_BUNDLE`, assigned after the lock is
released (`Serve`). Writes that are not a rename leave a torn file when the process dies
(`CreateDraft`, `FillDraft`).

**ChatPipeline.** One request, because requests share nothing: authentication, class and
retrieval in the application, then the hub with its input rail, context check, privacy
spoke (with retries), model, output check; every stage may fail, and the
application may give up while the hub goes on. A text is the set of values in it
that the checks tell apart, and a NeMo rail decides anything.

**TokenTable.** `row` is the token table, `server` the handler under way with its three
transactions, `cookie` and `bearer` what the browser's tabs hold, `wire` their requests;
`pem` and `marker` are the key files, `active` the marker's value in memory, `signed` which key a pair
was signed with.

**AuditPipeline.** `Send`, `Acknowledge`, `GiveUp` are `flush_once`; `Persist` is the request
handler's transaction with the purge it makes; `ReadOutbox`, `Forward`,
`LogAcknowledge` are the log worker. A request stays in `wire` until handled or dropped,
also when its sender has given up.

## 3. What the runs check

| run | properties and what they say | distinct states |
|---|---|---|
| `ledger_clock` | `AtMostOneCall`: the provider is asked at most once for an execution. `CallIsRecorded`: what it was asked is marked in the ledger. `ClosedIsFinal`, `OrphanStaysPending` (action properties): nothing of a closed execution changes; a call whose coordinator is gone is never run again or settled. `OneShot`: refinement of `OneShotCall` | 509,553 |
| `ledger_pair` | `EvidenceHolds`: a complete AWS call has two audits of its own around it, on the registered resources, with ids no other row has, and its timestamps are ordered | 236,256 |
| `suites_safety` | `SuitesHold`: all cases of a suite or none, and an execution gets the resources its suite was prepared with. `GrantsHold`: a grant lets the model be called once, a completed one has one RequestId of its own, and a ledger read as closed shows no grant that may still change. `OneAfterAnother`: an execution's operations follow each other, each once. `EffectsRecorded`: what was performed has a row, and no response stands for two. | 439,396 |
| `guardrails_faults` | `HeldIsKept`: no deletion takes the guardrail of an open execution. `ReadinessIsNew`: readiness appears only by publishing a guardrail that is ready. `OnlyTestedBecomesActive`, `PromotedOverItsBase`: what becomes active in the proxy passed its tests, over the policy it was made from. `RollbackReachable`: every policy that was active can be returned to, unless its marker could not be written. `PartsHold` (P01, P02, P04, P07 and P08, the tokens): see below | 2,111,984 |
| `delivery_faults` | `NothingLost`: an accepted event is somewhere until it arrived, the counters balance, and what is pending is not purged. `RelaySpec` (liveness, refinement): it arrives. `StorageHolds`: P03's untagged vector bucket is never the only thing left, and a ready journal stands for a complete set. `RecoversOrNeedsOperator` (liveness): repeated preparation repairs the set, except in three named situations | 61,784 |
| `services_safety` | `RequestsAreCapped`, `UseIsCharged`: no window admits more requests than the policy, and what Bedrock produced stays charged. `BudgetSpec`: refinement of `WindowBudget`. `PromotionHolds`: what a run of P16 promotes was tested, over the head its first case saw. `NoFalseDenial`: who was told that the model was not called was told the truth. `ModelSeesAuthorized`, `ReleasedIsChecked`: what reaches the model and the user. `VerdictIsTrue` (P13 to P15, P17 to P20): see below | 1,721,700 |
| `center_safety` | `OneRunner`: no two requests work in one session or on one AWS mission. `BadgeIsEarned`: completion belongs to the verification that began last. `MarkedForCause`: it is taken back only for a later verification, or when another build than the one that passed has run since. `ClosedIsFinal` (P07, P08, P09: action property): what a closed case is judged by stays. `OwnersAreStable`: claimed evidence keeps its owner in the whole suite. `PassedIsTrue` (P03, P05 to P12, P21, P22, the page): see below | 2,955,910 |
| `policy_race` | **violated** `ServesActive` | |
| `policy_start` | **violated** `CanStart` | |
| `pipeline_twice` | **violated** `OneRow` | |
| `budget_window` | **violated** `HourIsCapped` | |
| `center_stuck` | **violated** `BusyIsRunning` | |

Each module has its type invariant checked in one of these runs (`TypeOK`, or as
a part of `PartTypeOK`).

**What a verdict is worth.** `VerdictIsTrue` and its like compare the verdict with
history variables that the modelled code never reads:

| mission | a verification that passes |
|---|---|
| P01 | one build, the one the verifier found, ran every case, and the provider got exactly the contract's calls, none before its tokens were reserved |
| P02, P03 | AWS saw exactly the calls that each case's closed record has (and `EffectsAreReported`: a function that ended by itself left no unrecorded effect) |
| P04 | each case was executed and came out good (and no case is executed after one that did not; of the suites of the last 180 seconds one at most is under way) |
| P05 | all of it ran on one build that refuses the code; no evaluation passes two suites |
| P06 | no transfer was made and none can be any more |
| P07, P08 | no request of a risk case ever reached the main model, and none can any more; every receipt is of one build and agrees with what the gateway charged (`RunnerHolds`) |
| P09 | one build delivered each case once, without personal data, and nothing more can be delivered |
| P10, P11 | the build found ran every case, and nothing secret or foreign was shown |
| P12 | in every case the services did the stages up to the one that refuses, in order, and nothing else, then or later |
| P13, P17, P18, P19 | each case was run once, in order, by one build, the one the verifier wants, whatever other suites did |
| P14, P15 | the scan was made by the build whose limits were checked before it |
| P20 | the alert counted the refusals of no other suite |
| P21 | nothing beyond the agent's boundary ever reached the provider or a tool, whatever the servers have forgotten |
| P22 | of all effects there ever were, the approved one is the only one |

`PartsHold` has besides: `StoreHolds` (P02's resources have an owner, a READY row stands
for what is there, an open execution keeps its document, progress says running just while
somebody works) and `TokensHold` (a login has one refresh token that works; the browser's
cookie is it; keys verify). `PassedIsTrue` has, for the page, `BadgesAreTrue`: no older
reading of the records overwrites what a newer operation left, no result of an
earlier generation is kept, and what is shown belongs to the mission on show.

**Instances and bounds.** The rows of different executions, suites and grants touch each
other only where an id must be unique (two owners and as many ids as both need
let both complete, and clash) and where a suite competes for execution ids (two
suites of two cases over three ids). P02's and P03's ledger has one execution with two operations, whose
rows already compete for response ids; with two executions and a clock of two values the same properties hold in
3.1 million states, too many for a run that is kept. In `ledger_pair` both executions
can complete an AWS call, which takes four ids of audits; one thread is enough
there, since two never work on one execution (`OneOwner`, proved) and what they share,
the ids, is compared and stored in one transaction. Races in this code are
between two requests; a third adds a thread that loses like the second. Clocks
need a value before, at and after each window. Queues of two with three events
are once empty, partly filled and full. The quota has three reservations of at most 2 tokens over two
windows with two requests and three tokens each: both limits bind.

A verification of a mission shares with another one what its service shares: where
that is a lock, a counter, a prefix or evidence (P03 to P05, P07/P08's application, P13, P16 to P20) there are
two suites (in the application, one at least a verification) (P16: three), else one whose late requests compete with its own. The number of
cases is that of the mission, or one of each kind: P01 has its cases once each, P05 two of four, P12
two stages of nine with two calls at a time and two cases of eight, P17 two, P19 three of ten, P06 and P09
four. Two builds, and for P01 one restart; in the control
center and in P07/P08's application they come back without a limit. Only the build of a mission without a busy
flag changes there (`Edited`): records of different missions share nothing, and its verifications overlap in
every way those of the others do, and in more, since only `IsLast` keeps two apart. P02's
resources have two browsers and one fault, P03's four faults, one more than the longest
chain a counterexample needs (fail in a preparation, in a deletion, and outside). Tokens: two tabs,
three pairs, two keys. The page: two missions of which one is followed, one operation and
two readings of the records per load, two sessions. Other faults and crashes are not bounded. What `ledger_clock`, the
quota and the grants check does not rest on these arguments: it is proved (section 5).

`CHECK_DEADLOCK FALSE` stands where the system may really stop: finite ids are
used up (operations, events, digests), a verification has ended, or a preparation
left `preparing` blocks everything.

**Symmetry** is declared only in runs without liveness properties, over model
values that no definition tells apart.

### Findings
* `policy_race`: two overlapping promotions or rollbacks change the store in one
  order and assign `ACTIVE_BUNDLE` in the other (`P/guardrail-proxy/server.py:360`):
  the proxy goes on serving a policy that is not the active one.
* `policy_start`: a crash inside `create_draft`'s `write_text` leaves an empty
  metadata file, which `__init__` cannot parse: the service does not start
  again (`P/guardrail-proxy/policy_store.py:150`). The other writers of metadata
  rename a complete file.
* `pipeline_twice`: a retry is recognised by its row in `events_v2`, and rows older
  than a day are deleted; a retry that comes later is stored and counted again
  (`examples/security-monitoring/app.py:374`), against the telemetry
  contract's line on redelivery.
* `budget_window`: `settle` and `cancel` take a reservation's tokens off whatever row the
  client has, also when a later hour has started it anew
  (`L/h01-bedrock-gateway/server.py:121`): that hour admits more than its limit. The
  Bedrock gateway's own quota does not have this fault (`BudgetSpec`).
* `center_stuck`: the middleware takes a mission's lock before it reads the body, outside
  the `try` that gives it back (`P/guided-control-center/server.py:249`): a client
  that disconnects there leaves the mission answering 409 until a restart. A `KeyError` at
  `server.py:589` does the same to `ACTIVE_SESSIONS`.

Observed while modelling, where no document of the repository says otherwise, so that no
run claims it:
* **Verdicts that are too strict.** P03's check wants `now - start < 180` although a suite may
  take 240 seconds, so a slow correct one is `ERR`. So is one of P18 when another suite's
  requests come in between, one of P01 when the hour turns between its two budget
  cases, one of P04 when a question comes between two cases, and two of P05 with the same output. P04's
  finish request that is lost leaves the suite `running` and blocks new ones for 180
  seconds; P13's prefix stays `running` for good after a failed evaluation.
* **Claims.** P13's checks pass (case key, artifact digest) to a function whose tuples are (provider
  id, owner), so a reused artifact is not refused (modelled as written). P16's `/v1/run`
  reads digest, policy and head at separate moments and may promote a file it did not test; `PromotionHolds` is
  about runs.
* **Stuck rows.** A gateway crash leaves a grant reserved, so its suite can never be
  closed. A P04 row left `preparing` blocks every later preparation and deletion.
  `P02`'s finish with a clock set back leaves its call pending.
* **P02's page.** The verification of P02's resources reads the row and not AWS, and a page may be told "ready"
  while another session's deletion is under way.
* **P21.** A policy written to the letter of the exercise's third step
  (`L/h21-agent-policy/policy.py:53`) refuses every request, since the host always asks for 4096 bytes (build `strict`).
* **P22.** Spent nonces are on a tmpfs: a restarted server accepts an approval of the last 300 seconds
  again, but its effects are gone too, which the host's memory tells (`VerdictIsTrue` holds).
* **Tokens.** A crash while a key file is written leaves a torn `.pem`, after which the key set cannot
  be read; a logout that overlaps a refresh may leave the browser logged in with a live cookie; a
  refresh whose answer is lost ends the session.
* **The page.** After a plain reload the generation is not noted, so a later reset clears the caches
  without reloading the page; the first reading of the records may be applied after an operation that was
  begun before the page was ready.

## 4. Fairness

Only two specifications have any.

* `AuditPipeline!FairSpec`. Both workers are loops that run as long as their process
  does (`WF` of `Send`, `ReadOutbox`, and of giving up, which is a timeout). That a
  repeated request is at some point handled and answered before its timeout,
  that the log backend answers one, and that a deletion succeeds
  (`SF` of `Persist` for the waiting event, `Forward`, `Acknowledge`, `LogAcknowledge`)
  is what a retry loop without a limit relies on: the network, the monitor and
  the disk fail again and again but not always. Nothing is assumed of crashes,
  drops, the clock or other producers.
* `StorageLifecycle!FairSpec`. A synchronous operation goes on (`WF` of `Step`), and the
  learner asks for the preparation again (`SF` of `Prepare`); faults are finitely
  many (`MaxFaults`), crashes are not, but a crashed preparation strands its row,
  which is one of the property's three exceptions.

All other runs check safety only: their code has no worker that would finish what
a dead request left. A verification that stops has no verdict, which is what the
code shows; that it ends is the timeout of an HTTP client.

## 5. Proofs

Eight modules hold theorems: about the three ledgers by which a call of a provider must
happen at most once, the suites their executions are registered with, the place where a call's
cost is counted, the boundary that keeps destructive work from running executions, the busy
sets and records of the control center, the policies of the guardrail proxy, the path by which events
reach the log, the tokens of the application gateway, and, for P07, P08, P09 and P16, that a
verification passes only for what was done.
Some of these modules are about two components or three: the further ones are named in the table and
instantiated under names of their own (`Role`, `Token`, `Promotion`, `Delivery`, `Store`).

| module | theorem | statement |
|---|---|---|
| `GuardrailLedgerProofs` | `TypeCorrect`, `Invariance` | `Spec => []TypeOK`, `Spec => []IInv` |
| | `AtMostOneCallAlways`, `CallIsRecordedAlways` | the two invariants of `ledger_clock` |
| | `OneOwnerAlways`, `ClosedIsQuietAlways` | two coordinators never work on one call; a closed execution has no pending call and nobody working on it |
| | `ClosedIsFinalAlways`, `OrphanStaysPendingAlways` | the two action properties |
| | `Refinement` | `Spec => OneShot`: the ledger with its coordinators implements `OneShotCall` |
| | `CompleteIsProvenAlways` | `Spec => []CompleteIsProven`, wherever the clock is set |
| | `EvidenceHoldsAlways` | `Spec => []EvidenceHolds` of `ledger_pair`, for a clock that does not step back |
| `OutputQuotaProofs` | `TypeCorrect`, `Inductive` | `Spec => []TypeOK`, `Spec => []IInv` |
| | `RequestsAreCappedAlways`, `UseIsChargedAlways` | the two invariants of `services_safety` |
| | `ImplementsBudget` | `Spec => BudgetSpec`: the quota implements `WindowBudget` |
| | of `PolicyPromotion`: `PromotionInductive`, `PromotionTypeOK` | `Spec => []PromotionInv`, `Spec => []TypeOK` |
| | `PromotionTested`, `PromotionOneBlock` | `[]PromotedWasTested` and `[]PromotionIsOneBlock`, which are `PromotionHolds` of `services_safety` |
| `CapabilitiesProofs` | `TypeCorrect`, `Inductive` | `Spec => []TypeOK`, `Spec => []IInv` |
| | `GrantsHoldAlways` | `Spec => []GrantsHold` of `suites_safety` |
| | of `RoleSuite`: `RoleInductive`, `RoleTypeOK` | `Spec => []RoleInv`, `Spec => []TypeOK` |
| | `RolePassed`, `RoleOwners`, `RoleClosed` | `[]PassedIsTrue`, `[]OwnersAreStable` and `ClosedIsFinal`, what `center_safety` checks of it |
| | of `TokenTable`: `TokenInductive`, `TokenTypeOK` | `Spec => []TokenInv`, `Spec => []TypeOK` |
| | `TokensAlwaysHold` | `[]TokensHold`, which is part of `PartsHold` of `guardrails_faults` |
| `OperationLedger` | `WorkInvariance` | `Spec => []OInv`, which contains `TypeOK` |
| | `OneAfterAnotherAlways`, `EffectsRecordedAlways` | two invariants of `suites_safety` |
| | `ClosedIsFinalAlways` | `Spec => ClosedIsFinal`: no row of a closed execution changes, and nothing is performed for it |
| `PolicyStore` | `StoreInvariance` | `Spec => []PInv`, which contains `TypeOK` |
| | `RollbackReachableAlways` | `Spec => []RollbackReachable` of `guardrails_faults` |
| | `OnlyTestedBecomesActiveAlways`, `PromotedOverItsBaseAlways` | two of its action properties |
| `ControlCenterProofs` | `CenterInvariance` | `Spec => []CenterInv` |
| | `OneRunnerAlways`, `BadgeIsEarnedAlways`, `MarkedForCauseAlways` | three invariants of `center_safety`, for every `Edited` and number of builds |
| | of `DeliverySuite`: `DeliveryInductive`, `DeliveryTypeOK` | `Spec => []DeliveryInv`, `Spec => []TypeOK` |
| | `DeliveryPassed`, `DeliveryClosed` | `[]PassedIsTrue` and `ClosedIsFinal`, what `center_safety` checks of it |
| `ResourceLifecycleProofs` | `LifeInvariance` | `Spec => []LifeInv`, which contains `TypeOK` |
| | `HeldIsKeptAlways`, `ReadinessIsNewAlways` | the two action properties of `guardrails_faults` |
| | of `SuiteStore`: `SuiteInductive`, `SuiteTypeOK` | `Spec => []SuiteInv`, `Spec => []TypeOK` |
| | `SuitesWhole` | `Spec => []SuitesHold` of `suites_safety` |
| `AuditPipeline` | `PipeInvariance` | `Spec => []PipeInv` |
| | `NothingLostAlways` | `Spec => []NothingLost` of `delivery_faults` |
| | `RelaysSafely` | `Spec => RelaySafe`, the safety half of `RelaySpec` |

*Assumptions.* `GuardrailLedger`: the windows and the bound of the clock are natural
numbers, "no id" is not an id, the clock may step back or not; `EvidenceHoldsAlways` alone
is about the clock that does not. `OutputQuota`: the
policy's numbers are positive, "no reservation" is none. `Capabilities`: "no grant" is
not a grant, the bound of the clock is a number. `ResourceLifecycle`: "nobody" is not a
thread, "none" neither an account nor a guardrail. `AuditPipeline`: both capacities are
positive. `ControlCenter`: none. TLC evaluates them in the runs.
The other seven are instantiated by the `MC` modules, where an `ASSUME`
would not be evaluated: what their theorems need is a hypothesis of each. `Sentinels` of `OperationLedger`: "no
response" is not a response and the clock has a bound. `Sentinels` of `PolicyStore`: "the lock is free" is
not a thread, "no pointer" not a policy, and the seeds are policies. `Contracted` (`SuiteStore`): "nothing"
is neither a suite nor a snapshot, a contract has a case, the clock has a bound. `Bounds` (`RoleSuite`):
there is a case, and one try to close the suite. `Keyed` (`TokenTable`): there is a key. `Named` (`PolicyPromotion`): there is a case, the ledger has
room for the baseline, "none" is not a suite. `Recognizable` (`DeliverySuite`): the entity that only the
fixed build recognizes is that of some case. The instances satisfy all of them. The life
of a capability, of a suite or of a test may be any number.
Nothing is assumed of the number of threads, executions, operations, suites, grants, sessions,
missions, policies, events, ids, tabs, token pairs or keys.

*The ledger.* `AtMostOneCall` is not inductive: nothing in it says why a thread at
`calling` is the only one there, nor that the call was not made before. The
invariant `IInv` adds the missing links, in parts. `OneOwner`: two threads past the
reservation work on different executions. `Owned`: the call of a thread past the
reservation is pending and its execution open. `InPlace`: its place in the code tells
how far it got: before `Dispatch` nothing was dispatched and nothing served; at
`calling` it was dispatched and not served; after it, served once. `RowsAgree`: what
rows say of each other whoever works on them, such as served at most once, and
only if dispatched. A thread gets its call only by `Reserve`, which needs that no row
exists; every other row change is made by the call's owner (`OwnerStep`), and all
remaining steps move a thread without touching a row (`QuietStep`). A crash takes
owners away, never adds one. The action properties and the refinement follow from
`IInv` step by step: who is not the owner changes no row, and an owner's step is the
abstract one that its place names.

*The evidence.* On top of `IInv`, `ProofInv` says what is stored on the way to a complete
call: ids that are stored are distinct over all executions (`IdsDistinct`, which every
insertion compares), an audit that is stored has the execution's digest (`StoredIsProof`),
a coordinator about to store an audit has its id (`HeldHasId`), and which audits are
stored by the coordinator's place (`AuditedSoFar`) and in the end (`CompleteAudited`). `TimeInv` says, for a
clock that does not step back, that no row and no reading in a thread is later than now, and
that the rows of one execution are in order (`RowsPast`, `HeldPast`, `RowsInOrder`). A clock that
steps back breaks the order and nothing else.

*The quota.* The invariant says that a reservation in flight has one request, whose
row is pending (`Exclusive`, `Pending`), what a request brings to its place (`Prepared`,
`Answered`), that a row with an output is complete and holds what the call spent
(`Accounted`), and that a window's rows are finite and few enough (`Capped`). The
refinement needs that the sum over a window's charges changes by one reservation at
a time, which is a lemma about `MapThenSumSet` over finite sets, used through its
recursive-free consequences.

*The grants.* `Owners`: a busy request's grant is its own and reserved. `Uses`: a grant at
`calling` was not used, and only a reserved or settled one ever was. `Receipts`: the
table of RequestIds has one row for each completed grant, and no two rows share a
grant or an id. `Closings`: a suite that was not issued has no grants, a closed one has
none that may still change, and what a reader saw as closed is closed: this is why a
ledger read in two statements is sound. `Close` needs that no grant is reserved, and
`Reserve` that the suite is open; either comes first.

*The operations.* `Owned`: who is between `reserve` and `finish` works on a pending row of an open execution.
`OneOwner`: on an execution, nobody else is. A reservation needs that all rows are complete,
so it excludes every owner (`ReserveStep`); only the owner settles its row, which is the last one
(`SettleStep`); a closing finds no pending row, hence no owner, which is all that `ClosedIsFinal` needs.
`Performed` and `Uncalled` say that an effect has a row, and that whoever is about to call has none yet:
the row of a performed operation is never removed, so it is never reserved again. A crash leaves a
pending row without an owner; it blocks its execution for good. `RowIds` follows from the
unique column that `finish` inserts into.

*The policies.* `Locked`: a thread at one of the steps inside the store holds its lock. `Agreed`: a running
process and the volume name the same policy, a promotion that has not written its
files yet is of that policy, and markers are of policies that were active. So no promotion starts while another
one has a marker to write, and whatever the pointer leaves has its marker, or could not be
given one. `Earned`: the base of a draft was active, which is why recovery marks only policies
that were; a file marked tested is of a draft that passed. `FileMoves` and `PointerMoves` say which
steps write a file or the pointer. `active` is read again under the lock when a draft is marked and when it is
promoted, so the invariant says nothing of what a request saw before its awaits.

*The control center.* `OneRunner` needs only that whoever works has its session, and its mission, in the
busy sets (`Taken`): what a request takes is free, and what it gives back was its own. The
eviction of a session takes nothing out of the busy sets, which is why a session that is created again under the
same id still excludes the old one's request. The records need numbers: an attempt that is under way
has a number of its own (`OwnNumber`), not above the mission's last, and not yet that of a
record (`Numbered`). `IsLast` lets only the last attempt write, so a record's number is the last one or was marked.
`MarkedForCause` is broken by a page that marks a newer record than the one it compared.
`RecordsPast` says that another build has run since (`changed`) when the record's is not the one that
runs, `PageAgrees` that, as long as the record has the number that the page read, it is the one it
compared, and another build has run since if the page was told of one; `mark_changed` looks at the number. Since
builds come back, what the page was told need not be what runs when it marks.

*The guardrail.* `InPlace` gives the boundary its meaning: a thread at any place but idle holds the mutex,
so all others are idle, and what it has seen still holds: the row it prepares is the
newest, the account has no guardrail when one is created and the ready one when it is published,
no execution is open while it deletes. Only AWS, the credentials and a crash act meanwhile. So nothing is
held when a guardrail is deleted (`NothingHeld`), and every change of the newest row is known (`NewestSet`, `BegunHides`).

*The telemetry path.* `SenderHolds`, `LoggerHolds`: a worker has the first row of its queue, because only it
deletes rows and others only append; if it was answered, the event is in the outbox, or logged. With the
monitor's "a stored event is in the outbox or was logged", the answer to a repeated event is as
good as that to a new one. That an outbox row is still stored (`PendingNotPurged`) makes its
insertion new, so both queues stay without repetition.

*The suites.* A suite that is being prepared has one thread (`PreparesAlone`): the row is inserted under
the primary key, and only the thread that inserted it goes on to publish it or to mark it as an error. So
nobody changes a prepared row (`RowsKept`), no execution leaves its suite (`OwnersKept`), and what a
lookup has read of a prepared suite still holds when the execution is registered (`JobHolds`), although
another transaction, a crash of others or a change of the resources came in between. An insertion takes only execution
ids that nobody has, so it neither takes a case from a suite nor makes an earlier suite's cases look like a
direct one.

*The roles of P07 and P08.* Nothing is assumed of the application, so the invariant is about the
gateway and the control center: a call under way holds a reserved grant (`InFlightHold`), one that reached
the model left a grant that is no longer unused (`ReachedHold`), and a closed case or suite has no grant
that may still be used (`ClosedIsSettled`). The last check reads grants and calls at two
moments, but after the suite was closed: what it noted is what still is (`AtTheEnd`), so that its comparison
excludes a call of a risk case, and one under way. Evidence that is claimed before its case's successors may
call has the same number in the whole suite, which is `OwnersInRange` with `NoFutureCalls`.

*The tokens.* `OneHeir` says that a login has one live refresh token at most, `CookieWorks` that the cookie
works when nothing is under way, and neither is inductive. `RowsHold`: a pair is recorded once, by its second
transaction, and then has a signature and a login. `ServerHolds`: between `refresh`'s revocation of the old pair and
that recording, the login has no live refresh token at all, since the handler is not interrupted by
another request. `KeysHold`: a key's file is whole before it is marked or signs, and `BrowserHolds`: what a
tab keeps or sends was recorded, so it verifies. `PairsUnseen`: a pair that is on its way to its tab is known to
no other tab, so no request can revoke it before it arrives. `CookieFollows` joins these: unless an answer was
lost, the process died or a refresh token expired, a cookie that no longer works has a tab with an outstanding
answer, which brings a pair that works or deletes the cookie.

*The deliveries of P09.* The verdict is about the deliveries and the verifier reads the receipt, which the
application writes. `SentOnce` and `SentInTurn`: a case is sent once, when its policy has answered. `AppHolds`: what
runs is the current case, on the build that has answered the others. Hence `ReceiptHolds`: each entry of the
receipt was delivered with its text by the build it names, and `RunHolds`: between the answer of a
case and the next one the application is idle, so neither receipt nor deliveries change while they are read
one after the other, a delivery that is late included, since its grant is closed.

*The promotions of P16.* For each suite (`Life`): its record names a policy its cases ran on (`RecordHolds`), which no
later edit of the file changes; the place of the run says whether its events are there yet
(`RunHolds`), and that of the store's thread that nothing was promoted before the compare-and-swap (`WorkerHolds`).
The swap compares the length of the ledger with the head of the first case, so the three events are appended behind
that very head, and a ledger that only grows keeps them one block.

*Only model-checked*: the properties of all other modules; `TypeOK` of `ControlCenter`, whose bounds
on the number of attempts and builds are sums over the missions; and the liveness properties (liveness under fairness
is out of the prover's reach). No module with a theorem reaches a recursive operator.

## 6. What is not modelled

* **Inside the modelled components**: validation of payloads (any of it may raise: `Raise`,
  `Refuse`), formats of ids and receipts, configurations of AWS resources beyond whether
  all calls of a resource were made, the three ids of an audit receipt one by one,
  metrics, diagnoses and texts shown to the learner. In `StorageLifecycle`: `assert_idle`'s
  check of open P03 executions (P04's is in `ResourceLifecycle`), and the polling of the ingestion, which is
  one step. In `DocumentStore`: the contract mode, the lock shared with the
  deletions of P03 and P04, and the liveness of recovery (P03's twin is checked). The suites and ledgers do
  not rely on the boundary's mutex, so their models let requests of one mission overlap:
  what holds there holds with the mutex too.
* **Twins.** P07 and P08, P10 and P11, P14 and P15, P02 and P03 are one module each with the
  differences as parameters; the map names for each part the lines of one of the twins.
* **Missions.** Forged client logs and crashes of the services in P12, the text digests between
  its stages, builds of the product that change within P12; P23's model call practice. What the
  verifier checks of a text is whether it is what the case wants.
* **The gateway's boundary**: `invoke_once` (`G/server.py:704`) is listed as a hazard without a
  property: two control requests with one execution id may both call the provider, and
  only the second insert fails; nothing promises otherwise. The stateless mission backends
  validate, call a provider and format a receipt.
* **The guardrail proxy's request pipeline** runs its rails one after the other and keeps no
  state for the next request; the only shared thing is a capacity semaphore. The like
  in the NeMo hub's laboratory endpoints, the application's pages, and the gateway
  without an operations policy.
* **The page**: how it looks, the documents it opens, and the records of missions other than
  the one followed, which touch nothing of it.
* **Runtime security and monitoring examples, vulnerable applications, Terraform, deployment
  scripts, contracts**: no state machine of their own, single transactions, or faults on
  purpose. These are most of the lines that the map does not cover.

## 7. Plan

Done, in this order: the P04 ledger with its proofs, since every claim about
evidence rests on it; the guardrail lifecycle that changes resources under it; the
other ledgers, suites and capabilities; the policy store; the telemetry path; P03's
and P02's resources; the quota with its proofs; the control center, its page and
the missions P01 to P22 with their services and checks; the chat; the tokens; the
proofs about the grants.

Then the proofs about the evidence of the P04 ledger, the control center, the guardrail, the
telemetry path, the operations of P02 and P03, and the policies of the guardrail proxy; then those about
the suites of P03 and P04, the roles of P07 and P08, the deliveries of P09, the promotions of P16 and the tokens.

Left, most important first:
1. An abstract specification of what `OperationLedger` promises of each operation. `OneShotCall` is not
   it: P02 and P03 do not record that a call was dispatched, and a crash leaves open whether it was.
2. `invoke_once` and the evidence table of the control lab, if a document comes to say
   what it promises.

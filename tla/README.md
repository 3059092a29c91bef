# Ocean Watch: a TLA+ verification project

Ocean Watch is a Go modular monolith that plans and runs advertising work on two
Ocean Engine channels, *Marketing* (巨量营销) and *Qianchuan* (巨量千川). A CLI and a
stdio MCP proxy run over a versioned private runtime; several processes of it may
work on one machine's state directory at once. Paths below are relative to
`runtime/ocean-watch-go/internal/` unless they start otherwise.

## 1. Inventory

| Component | State it keeps | Operations | What is hard |
|---|---|---|---|
| Marketing batch (`application/plans/marketing/{batch,executor}.go`) | operation journal, one record per job; in-memory copy per process | create project, create promotion, recover, resume, checkpoint | crash between dispatch and answer, late effects, whole-journal saves, two processes |
| Plan settings (`application/plans/marketing/updates.go`, `application/plans/qianchuan/mutations.go`) | objects at the platform, the advertiser's lock | status, budget, bid and ROI changes of several objects | one request for all of them, lost and partial answers, the console |
| Upload and creator batches (`upload_batch.go`, `creator_batch.go`) | journal choice, scope lock (upload only) | find/freeze/save journal, run jobs | rerun of a completed batch, creator batches without scope lock |
| Write guard (`application/plans/write_safety.go`, `domain/plans/write.go`) | none (capability, lock context) | validate, lock, dispatch once, classify the outcome | outcome classes: acknowledged, not sent, unknown |
| File state (`adapters/filesystem`) | lock files, journals, bindings, caches, tokens | flock with timeout, atomic rename save | crash between write and rename, save error after rename |
| Qianchuan batch (`application/plans/qianchuan/{batch,preflight_v2,commands,create,reconcile,bindings,read_pool}.go`) | preflight snapshot, plan bindings, read cache | preflight, revalidate, create, verify, bind, append | snapshot stale at submit, create without binding, unknown append |
| Qianchuan removal and bindings (`remove.go`, `binding_migration.go`) | official plans, bindings | remove works, bind a plan | readback after an unknown result |
| Work verification and read pool (`verify.go`, `read_pool.go`, `adapters/filesystem/qianchuan_owner_cache.go`) | owner file, shared reads of a batch | guess owners, ask the platform, remember; read a plan's materials once, refresh after a write | wrong or outdated hints, a failed query among several, two commands at the file, waiting for another's read |
| Tokens and authorization (`application/auth`, `domain/authorization.go`, `adapters/filesystem/authorization.go`) | authorization records, account snapshots | authorize, refresh, token lookup | single flight across goroutines and processes, rotated refresh tokens, crash between exchange and save |
| Request control (`platform/requestcontrol`, `adapters/filesystem/qianchuan_request_control.go`) | budget, in-process slots, cross-process window and cooldown | acquire, release, cool down | two limiters in sequence, cooldown races |
| Read retry and pagination (`platform/retry`, `platform/pagination`) | none | bounded retry, page walk | pages that move, repeat or contradict their total |
| Runtime update and proxy (`runtimeupdate`, `mcpserver`) | slots, leases, current pointer, session | validate, copy, switch, handshake, roll back, collect | crash between steps, other processes using a slot |
| OAuth callback (`application/auth/callback.go`) | one pending state | authorize, accept | no command constructs it: `authorize` takes the code as input |
| Templates and configuration (`application/templates`, `domain/templates`, `adapters/filesystem/{config,managed_config}.go`) | config file, template records | create, alter, delete | read-modify-write under a lock |
| Work metadata (`application/workmetadata`, `adapters/workmetadata`, `f2/resolve.py`) | none | batch lookup with deadline | partial answers, cache fallback |
| Queries and their MCP tools (`application/{reports,discovery,materials,qianchuan}`, `mcpserver`) | none | walk one or two official lists, join, filter, rank, cut | lists that change under the walk, page and tool limits |
| Account report (`application/accounts/report.go`) | none | one query per managed account | partial failure of a fan-out, cancellation |
| CLI, contracts, resources, bootstrap (`cli`, `contracts`, `resources`, `bootstrap`) | none | argument and output shaping | nothing that interleaves |

How they interact: a command resolves a token (authorization store, refreshed under a
lock), reads through request control and retry, and writes only through the write
guard, which takes the advertiser's lock file, dispatches once and classifies the
outcome; batches journal around each write and read back what is uncertain.

Properties that make each component correct, in a sentence each:

- *Marketing batch*: no create that may have been applied is repeated without a
  readback; the durable journal remembers every object that exists and names none
  that does not; a settled job is left alone; writes of one advertiser never overlap.
- *Upload batch*: one unfinished batch at a time; units are created as they were frozen;
  no video goes into two units; success means that every account has all its units.
- *Qianchuan batch*: a group that has all products of its template gets one plan; a
  binding names a plan of the group's creator and products and never moves; a submit writes exactly what its preflight announced, or nothing;
  what is reported as done is on the platform.
- *Authorization*: the active token is stored and is the one the server still takes;
  one refresh at a time; no update of the state file undoes another's; an advertiser
  is found through exactly the authorization that owns it.
- *Request control*: one request of an advertiser at a time, paced and after every
  cooldown anybody was told; slots and budget neither leak nor overrun; calls end.
- *Runtime update and proxy*: no slot somebody runs from is removed; the recorded
  runtime can be started and rolled back from; retired sessions drain; calls end.
- *Authorization store*: its users see one value that is replaced in one step, whatever
  write was cut off. *Read pool*: one fetch per plan, and after a write only what was
  read after it.
- *Configuration and templates*: no update is lost; a stored template can be used, owns
  its assets and names templates that exist; a listing shows one version.
- *Queries and tools*: an answer is complete, or refused, or says that it is not.
  *Account report*: the totals are those of the accounts it says answered.
- *Plan settings*: what a command reports of an object is what the platform says.
  *Work verification*: a verdict is the platform's, never the cache's.

## 2. Plan

One module per component, each with an `MC` module that supplies the values of its
constants; the order is that of their weight for the user's money.

| | Modules | What they add | State |
|---|---|---|---|
| 1 | `MarketingBatch`, `PlanLedger` | creating projects and promotions; the abstract promise and the refinement | checked, proved (safety) |
| 2 | `QianchuanBatch` | preflight, submit, direct submit, removal, binding | checked, proved |
| 3 | `Authorization` | refresh, authorize, account sync over one channel | checked, proved |
| 4 | `RequestControl` | governor, shared gate, budget, retry | checked, proved (safety) |
| 5 | `RuntimeUpdate` | private runtime slots and the proxy's sessions | checked, proved (safety) |
| 6 | `UploadBatch` | how an upload is planned, frozen and gone on with | checked, proved |
| 7 | `AuthorizationStore`, `AtomicState` | manifests, generations, current pointer; they implement the atomic state that `Authorization` takes for granted | checked, proved |
| 8 | `TemplateConfig` | the configuration file and all that changes it | checked, proved |
| 9 | `PlanSettings` | status, budget, bid and ROI changes of both channels | checked, proved |
| 10 | `WorkVerification`, `ReadPool` | from work links to usable works; the shared reads of a batch | checked, proved |
| 11 | `AccountReport`, `Queries`, `QueryTools` | all read commands and tools | checked, proved |

Compositions: `QueryTools` extends `Queries` by the tools that ask them. `MCCommands`
puts the components that share no state (7, 9, 10, 11) into one instance, of which a
behaviour runs one. `LedgerSpec` and `StateIsAtomic` are refinements.

`Lists` has the two operators on lists that `UploadBatch` and `Queries` share.

Every safety property of a passing run is a theorem (section 6); the three liveness
properties are model-checked.

## 3. The modules and the code

Every definition that stands for code is listed with its lines in `PROJECT.json`
("map"). Definitions whose comment starts with "Mutant:" are plausible bugs; each is
used only to show that a property can fail ("mutants").

### MarketingBatch, PlanLedger

A *run* is one `--submit` of one manifest by one process; a *job* is one unit of it.
`journal`/`saved` are the operation journal file, `memory[r]` the copy a process loaded,
`worker[r][j]` the goroutine of a job, `scope` and `lock` the two flocks, `inflight` and
`official` what the platform was asked for and has.

| Actions | Code |
|---|---|
| `Begin`, `LoadJournal`, `CreateJournal`, `EndRun`, `Crash` | `upload_batch.go` / `creator_batch.go` `Execute`, `AcquireScope`, `BatchRunner.loadJournal` |
| `StartJob`, `AcquireLock`, `GiveUp` | `BatchRunner.executeJob`, `batchAction`, `WithAdvertiserLock` |
| `Recover` | `reconcileProject`, `reconcilePromotion` |
| `Announce`, `Send`, `NotSent`, `Acknowledge`, `ErrorResponse`, `Unknown` | `Executor.executeTransaction`, `OnceDispatcher.Dispatch`, `classifyWriteFailure` |
| `Resolve` | `resolveProject`, `resolvePromotion` |
| `Land`, `Drop` | the platform (external) |

A checkpoint writes the process's whole copy of the journal. `ScopeLocked` tells
upload batches (which lock the journal's scope) from creator batches (which do not).
`forgotten` is a history variable: it records when a readback's verdict made the record
of a create go away - because it failed (`unread`), because the platform answered an
error (`error_response`), or because the create was applied after the readback
(`late`). The properties say that these three are the only ways to a duplicate.

`PlanLedger` is the abstract promise: objects are only ever added, and a key that
nobody excused gets at most one. `LedgerSpec` checks that `MarketingBatch` implements
it under the mapping `objects <- official`.

### UploadBatch

All runs start the same upload (one scope). `catalog` is the scope's journals, of which
`Find` takes the unfinished one; `run[r].plans` is what `Prepare` made of each account,
either anew from what the library, the promotable videos and the covers are just then,
or from the frozen plan; `Save` freezes. `Settled`, `Blocked`, `Recover` and `Create` are
what becomes of an account's next unit, `End` the verdict. A template with its resolved
assets is a fingerprint, `Incomplete` those that leave a required field open, names
follow from the fingerprint and the request, and a journal's metadata and jobs are one
record per account. `Kept` (of `Lists`) is the one way the loops of the preparation pass on a list: the
rows at some places, in their order. What `MarketingBatch` tells apart in the creation of
a unit is one step here with the outcomes it may leave in the journal.

### QianchuanBatch

A run is one command (`preflight`, `submit`, `direct`, `remove` or `bind`), which scans
the official plans, decides per group, prepares materials, and then works on its groups
in order under the advertiser's works lock: `Lock`, `Scan`, `Decide`, `Prepare`,
`Revalidated`, `Save`, then `CreatePlan`/`OpenPlan`, `Append`, an answer
(`Acknowledge`, `Refuse`, `Unknown`), `Reconcile`, `Verify`, `Bind`, `Readback`, and
`Read`/`Recheck` for a removal, `Audit`/`Confirm` for a binding. `Abandon` and `Crash`
may end a run at every step. `Land` applies a request, in time or after its sender
gave up on it (`late`); `Outside` is what people do to plans.

Abstractions: a plan is identified by the group (or person) and run that made it, which
the code cannot see and the model's guards do not use except through creator, name and
products. `Products` of a group are those its works match, a subset of `TemplateProducts`;
the plan it is created with has the template's (`ProductsOf`, from
`buildBatchCreatePayload`). So `Verify`, the candidates of a scan and of an audit ask for
a plan with exactly the group's products (`Exact`), and the readback of an unknown create
for one with any product of the payload, its creator and its name (`Resembles`). `by` in a binding stands for its timestamps and digest; a scan and the reading
of one plan's materials are one step each; a removal removes one work; expiry of a
preflight and the template checks are left out.

### Authorization

`channel` is the locked state file (authorizations with their revision, pending
flag and accounts, and the two indexes), `credentials` the credential store by
revision, `issued`/`valid` the OAuth server, which takes a refresh token once. A run is
one command: `authorize` (which creates the authorization named after it), `ensure`
(token lookup with a refresh when near expiry), `refresh` (forced) or `sync` (account
discovery). `Decide` is the body of `TokenManager.Ensure` between its locks, `Write`
stores the next revision, `Load` and `Activate` are the two halves of `UpdateChannel`,
`Discover`/`Record` are `AdvertiserSnapshotSync`, and `Stop` a crash, time-out or
failure at any step. `interrupted` excuses a refresh cut off after its request: the
server has rotated a token nobody received. The store's commit is one step here;
refresh-token expiry is left out.

### RequestControl

A call passes `Begin`, the governor's semaphores (`AcquireScope`, `AcquireFamily`), the
advertiser's lock file and state file (`AcquireLock`, `PassGate`), the budget
(`LoadBudget`, `SwapBudget`), `Send`, `Answer` and `Close` of the body, where the
release saves the cooldown; `Settle` decides on another attempt. `GiveUp`,
`StopRetrying` and `CloseUnsaved` are the failure paths, `Crash` ends all calls of a
process. Absolute times are kept as remaining ticks; a retry delay may take any time; a
corrupt state file fails closed and is left out, and so are metrics.

### RuntimeUpdate

Threads of proxies (`call`, `monitor`, `close`) and of runtime commands (`exec`) share
`resolve.lock`, the slots, `state.json` and the host's plugin cache. `LockTaken` to
`Leave` are `ResolveLeased`: `RecordedReused`, `SourcesInstalled` with `SlotMovedAside`,
`CandidateChosen` with `Selection` and `RollbackFor`. `MuTaken`, `HostRootPreserved`,
`CandidateConnects`, `ContractDiffers`, `CandidateFails`, `Rejected`,
`RestoredConnects`, `RestoredFails` and `SessionSwitched` are `Proxy.ensureSession`;
`SlotKept`, `SlotRemoved`, `Collected` are `PruneObsoleteRuntimes`; the rest are
`Forward`, `releaseSession`, `monitor` and `Close`. `HostInstalls` is the host
(external).

A bundle stands for the hash of a runtime manifest and has a version directory of its
own. `cache` lists the plugin directories in the order they were installed; what is
discovered is the highest version, the latest of equals. A `Frail` bundle may or may
not pass its start-up probe, each time; removing a slot or a copy can be cut off half-way
(`Leftover`, and crashes, leave partial slots). `PreserveInstalledHostRoot` (a legacy
start mode), the branch of `canReuseLocalState` for an empty cache, which cannot happen
while the host keeps a plugin installed, and I/O write failures are left out.

### AuthorizationStore, AtomicState

`manifests` are the files `<generation>.json`, `current` is `current.json`, each `user` a
process. `UpdateChannel` takes the channel's lock, `ReadCurrent` and `ReadManifest` are
`loadCurrent` (a missing pointer is the empty state, a pointer without its manifest or
with another checksum fails closed), `ChangeState` the callback with `NextGeneration` and
the search for a free generation, `WriteManifest` and `WriteCurrent` the two atomic
saves, `ReleaseChannel` the unlock; each may fail or be the last thing a process did.
Loads of commands that only look take the same steps without the lock. A checksum stands
for the state it was made of, so a reused generation is told apart.

`AtomicState` is one value with `Load` and `Replace`, which is only for who has loaded
what is still there. `StateIsAtomic` is the refinement: `WriteCurrent` is `Replace`, and
a load happens where `current.json` is read. `Authorization` uses the state in this
form.

### TemplateConfig

`file` is the configuration (Marketing templates by name, Qianchuan templates by ID, the
default accounts and resolved cities), `run` one command, `lock` the file's lock,
`list` an MCP client that pages through `list_templates`, `forced` a history of the
templates deleted with `--force`.

| Actions | Code |
|---|---|
| `CreateMarketing`, `CreateQianchuan` | wizards of `cli`, `BuildMarketingTemplate` with `PrepareMarketingSource`, `MarketingClonePolicy`, `ApplyMarketingPlanTemplate`, validation |
| `Delete`, `ChangeCopy`, `Update` | `application/templates` lifecycle: `DeleteMarketing`, `DeleteQianchuan`, `SetCopy`, `UpdateQianchuanProductTemplate` |
| `CommitMarketingCities` | city lookup, which asks the platform between read and write |
| `ChangeAccount`, `Initialize` | `managed_config.go`, `setup init`, under the lock |
| `Compare`, `Save`, `Abandon` | `CompareAndSwap`: lock, compare the revision, rename |
| `ListFirst`, `ListNext` | `list_templates`, whose cursor carries offset and revision |

A template keeps its advertiser, its product, whether it can be used, the templates it
was cloned or took its titles from, and who brought each group of assets (`owned`:
creators, titles, links); values themselves are left out. A revision is the file's
content.

### PlanSettings

A command is normalised (`ExecuteSettings`; delete asks for confirmation), takes the
advertiser's lock, sends one request for all its objects (`DispatchSettings`) and reads
back: Marketing in one walk (`ReadBackMarketing`), Qianchuan plan by plan
(`ReadBackQianchuan`). `Answers` are what becomes of the request: applied, applied for
some, answered or not, complete or not. `ReturnSettings` builds the rows. `ConsoleChange`
is somebody in the platform's console; `touched` remembers which objects were changed
there since a command sent its request, and `claimed` what the last report of success
said.

### WorkVerification

A batch of works goes through `ResolveLinks`, `LoadHints` (the owner file),
`ResolveMetadata` (what F2 may answer), `AuthorizeHint` for each hinted creator,
`VerifyOwnership`, `VerifyProducts`, and `ReturnVerification` with the reasons of the
skipped works; a query may fail at each step. Works are asked for in batches of 50 in the
code, of any size here: which of them a failed query takes along is left open. `StoreRead` and `StoreWrite` are the
locked update of the owner file, a map from works to their creator, its name and the
time of the entry, with its limit and age; the clock moves with a Store, or does not. `OfficialTurn`
renames a creator, authorizes or bars one, or lets the entries made so far grow older than
30 days. A creator without a visible number is left out.

### ReadPool

`call[<<r, n>>]` is the `n`th answer that goroutine `r` made, `reads[p]` the entry of a
plan in the pool, `slots` the pages under way. `RunReadOnce` starts or joins a read,
`RunRead`/`FetchPage`/`GiveUpPages`/`EndRead` read the pages with one slot each,
`WaitEnds` takes another's answer or gives up, `WriteMaterials` and
`RefreshPlanMaterials` write and make the pool forget. `written` counts the writes of a
plan, `seen` what the pages of a call saw of it.

### Queries, QueryTools

A query is one walk or two over the list of an endpoint (`Fetch...` says what that list
shows), in one of the five ways of walking the code has: `CollectPages` and
`CollectAnyRows` of `platform/pagination`, the video library's `CollectVideos`, the
unified reports' `CollectUnified`, `CollectAuthorizedCreators`, and the cursor of
`CollectCreatorVideos`. They differ in what they refuse: another total, a repeated
or missing row, a page too many. `NextPage` is a page as it is, `WrongPages` one that
contradicts the ones before, `Change` moves, adds or removes a row between two pages.
`Finish` joins, filters and ranks (`JoinPlans`, `RankPlans`, `ResolveCreator`,
`MergeVideos`, ...) and sets what the answer says of its completeness. `Only` is a filter
of the code, a loop that keeps some of the rows it reads in their order: so the usable
videos of a creator (`Candidates`) and the file name of library videos (`WithFilename`),
which the platform is not asked for; `BySpend` puts a row
at the place that the number of rows before it gives. Each
query is one operator (`QueryProducts` to `ResolveCities`) with its list and walk.
`QueryTools` adds the nine MCP tools with their limits. `search_marketing_videos` and
`search_marketing_creator_materials` show one page, take `total_count` and `has_more` from the page
information of the platform, which knows nothing of these two filters, and so may announce
more although every match is shown: `AnswersAreTrue` asks of their `has_more` that rows remain
to be looked at, of every other tool's `truncated` that something asked for is not shown.
Rows say only what the
properties tell apart (spend, status, a flag, a small set); projections, metric formulas
and presentation are left out.

### AccountReport

A task per managed account takes a slot (`Acquire`), leases a token (`Lease`), queries
its channel (`QueryAccount`) and ends; `Cancel` may come at any time, `Summarize` is
`BuildAccountReportSummary` with the totals, the comparable subset and the return code.

## 4. The runs

| Run | Question | Properties | Bounds |
|---|---|---|---|
| `upload_pair` | is the ledger implemented and is no object created twice, in spite of crashes, late effects and failed readbacks, by jobs that share a journal and an advertiser? | `ObjectsStayWithTheirJobs`, `NoDuplicateObjects`, `LedgerSpec` | 2 runs, 2 jobs, 2 slots |
| `creator` | what is left without the scope lock: mutual exclusion, truth, progress? | `TypeOK`, `WritersExcluded`, `JournalIsTrue`, `RunEnds` | 2 runs, 1 job |
| `upload_batch` | do repeated starts create every unit, once, and as it was frozen? | `OneOpenBatch`, `UnitsAsFrozen`, `NothingTwiceNorMissing` | 3 runs, 2 accounts, 3 and 1 videos, listings of 3 rows, 2 templates, 2 batches |
| `qianchuan` | two groups with one plan name, one of them with fewer products than the template, several commands and people at work: one plan, what was announced, whose plan is bound, true reports? | `OnePlanPerGroup`, `GroupsKeepSoundPlans`, `ReportsAreTrue`, `WritesAreDue`, `BindingNeverMoves` | 2 groups, 3 works, batches of 1; a preflight, a submit of it, a second or a direct submit, and a removal, or two direct submits, a bind command and 1 outside change |
| `authorization` | refresh, authorize, rebind and sync at any time | `ActiveTokenIsCurrent`, `IndexesAgree`, `RefreshIsSingleFlight`, `NothingIsUndone` | 5 runs, 2 authorizations, 1 account, `MaxTokens` 2 |
| `request_control` | pacing, cooldowns, slots, budget and progress | `HoldersAreCounted`, `BudgetIsKept`, `GateIsPaced`, `CooldownIsKept`, `EveryCallEnds` | 4 calls, 2 processes, at most 2 attempts |
| `runtime_update` | update, roll back, collect and drain while processes come and go | `NamedSlotsExist`, `RetiredSessionsDrain`, `EveryCallEnds` | 3 bundles, 1 proxy with 3 threads, 1 command, 1 install, 1 crash |
| `templates` | commands that work on copies of the configuration file, and a client that lists it | `StoredIsUsable`, `OwnAssetsOnly`, `ListingIsOneVersion`, `NoLostUpdate` | 3 commands, 2 Marketing names, 2 advertisers, 2 products, pages of 1 |
| `commands` | queries and tools, account report, plan settings, work verification, read pool, authorization store | `CompleteOrRefused`, `AnswersAreTrue`, `ReportIsHonest`, `ReportedSettingHolds`, `WorksAreJudgedOfficially`, `CacheIsVerified`, `RefreshSeesWrite`, `NobodyWaitsForAWaiter`, `StateIsAtomic` | lists of 3 rows of which 2 are asked for, pages of 1, 1 change; 3 accounts, 2 slots; 2 settings commands, 2 objects, 1 console change; 2 batches, 2 works, 2 creators, 1 official turn; 3 readers, 2 pages, 1 slot, 1 write; 3 processes, 3 generations |
| `qianchuan_subset` | *violation*: a group with fewer products than the template gets a plan with every submit | `ExistingPlanIsResolved` | 2 direct submits, 1 group |
| `failed_readback` | *violation*: a failed readback clears the dispatch state, the next run creates again | `FailedReadbackIsNotReplayed` | 3 runs, 1 job |
| `creator_repeats` | *violation*: a second creator process repeats a completed job | `SettledJobIsSkipped` | 2 runs, 1 job |

Why the bounds are enough. *MarketingBatch*: two runs are an uncertain create and a run
that recovers from it while its effect is still under way, three (`failed_readback`) a
failed recovery and the run that is misled by it; each run dispatches a kind at most once per
job, so nothing else has to be cut off; two jobs are the least that share an advertiser
or a journal. *UploadBatch*: the third run starts the upload again after a batch two
runs completed, or goes on with what two left; units of one video and a limit of two
make units, cuts and repeated rows with three videos. *QianchuanBatch*: a submit of
a preflight meets another of the same, a direct one and a removal, and a direct one meets
another and a bind command: every pair of writers. The constraint `Scenarios` keeps these
apart, as all seven runs in one behaviour are beyond TLC; the proofs of section 6 have no such
limit. With batches of one work a group of two needs a create and an append; one outside change is
enough to make any decision stale; a group with the template's products and one with one
of them are the two kinds there are, and one name is what the readback can confuse; a day, a template and an advertiser are fixed since
commands do not read across them. `SYMMETRY` is over the two submits. *Authorization*: two tokens are a rotation and its
predecessor. *RequestControl*: family slots of 1 and scope slots of 2 make both
semaphores the bottleneck in turn, and intervals and cooldowns of 1 to 3 ticks keep
their order apart. *RuntimeUpdate*: one install is an upgrade in the middle of any step,
one crash leaves any of them half done, and two bundles may fail to start.
*TemplateConfig*: three commands make a chain of clones, or two writers and a third that
has changed what one of them read. Run 1 creates, 2 creates or edits, 3
deletes or writes under the lock; which run is which does not matter to the code, and
`SYMMETRY` is over advertisers and products, which nothing orders. *Queries*: pages of
one row make a walk of three pages, the lists start in the order of their keys, the first
with none, two or three rows, the second with two or three, one change is a move, loss or
addition between any two pages; page limits of 2 and 3 are a limit that bites and one that does not.
*PlanSettings*: two commands, two objects and one change in the console are a request
that is applied in part while another command or a person works on the rest.
*WorkVerification*: two batches interleave at the owner file, one turn lets what was
verified become wrong, and a limit of one entry makes the second Store prune, by ID when
the clock has not moved, so that a lost entry shows; at the start all creators are
authorized. *ReadPool*: two readers share a plan and a third takes the only slot. *AuthorizationStore*: a reader and two
updates, one of which fails, or one update after two failed ones. `SYMMETRY` in
`commands` permutes settings commands and batches.

### Findings

Three runs are expected to fail, each on a statement of the repository's documents; the
lines are quoted in `PROJECT.json`.

- `failed_readback`: a readback that fails during recovery erases the dispatch state, and
  the next run creates again.
- `creator_repeats`: a second creator process executes a job the first has completed.
- `qianchuan_subset`: a plan is created with the template's products, and verified and looked for by
  the group's. Where a group has fewer, its own plan fails verification, is not bound and is no
  candidate; the next submit creates another. No crash or late request is needed.

Further observations, made while reading, that no
run checks:

- a work that became present after the preflight makes the whole group answer
  `preflight_changed` (`qianchuan/batch.go:423`), where
  `skills/qc-plan-monitor/references/workflow-reference.md:300` says it is skipped;
- two groups of one creator whose plans get one name (a name template that does not tell
  them apart, or names cut to one length): the readback after the second's unknown create
  (`qianchuan/create.go:150`) finds the plan the first got a moment before; if the second has all
  products of the template, that plan is verified and bound to it, and the second's first works
  are reported as created although the plan does not have them. `GroupsKeepSoundPlans` and
  `ReportsAreTrue` allow this where the own plan was nowhere to be seen, and nowhere else;
  `docs/ai/designs/ocean-watch-plugin-target-architecture-v3.md:268` says that plans of one
  name are not the same plan;
- code 51010, a time-out of the platform, is classified as a decided answer
  (`marketing_plans.go:315`);
- `Proxy.ensureSession` resolves before it takes the proxy's mutex (`proxy.go:112`), so
  a slow thread may switch the session back to an older, still recorded bundle;
- without a session yet, a bundle with another tool catalogue is rejected for every
  process (`proxy.go:125-133`);
- creator jobs of one creator share their default project name, and a reconciliation by
  name may give one the project of another; `ObjectsStayWithTheirJobs` is about uploads,
  whose names tell units apart (`OwnNames`);
- the file name of `search_marketing_videos` is looked for in one page: an empty answer with
  `has_more` may stand before the match, and `has_more` may stand after the last one;
- a runtime command that holds an old slot does not collect it when it ends;
- the template wizard offers a source's creators whatever the clone policy and passes the
  answer on, while `cleared_fields` reports them cleared across advertisers
  (`skills/ads-plan-monitor/references/workflow-reference.md:219`);
- `qc-templates update` may make two display names equal; `delete` by that name then falls
  through to a live template of the same name;
- unified reports compare totals and the number of rows, not keys, and rows
  that come and go with equal totals escape every walk; the queries are in
  `CompleteOrRefused` only as far as they compare keys;
- `ResolveCities` reports the country of its last attempt as the best one;
- `finishQianchuanMutation` looks at the row mapping before the envelope: an official
  rejection with incomplete rows becomes "unknown", and rows reported as failed may have been
  applied;
- an F2 failure fails a whole batch although other works have hints in the owner file; a
  hint that became wrong is never dropped, so works of a renamed creator stay
  `creator_unavailable` until it expires after 30 days.

## 5. Fairness

- `MarketingBatch`: weak fairness of each run's next step. The Go
  scheduler runs every goroutine, file locks are polled with a timeout, and requests
  have a client timeout. Nothing is assumed of the platform, crashes or answers.
- `UploadBatch`, `QianchuanBatch`, `Authorization`, `TemplateConfig` and the components of
  `MCCommands`: none; only safety is claimed. A template wizard waits for a person, and the
  others end by time-outs that `RequestControl` covers.
- `RequestControl`: weak fairness of time and of each call's next step, including the
  answer, which `Client.Timeout` forces; giving up and crashing are not fair.
- `RuntimeUpdate`: some thread that can go on does go on. This assumes that a tool call
  is answered, and nothing of the host, starts or crashes.

## 6. What is proved

`MarketingBatchProofs` proves, for all finite or infinite sets of runs, jobs, advertisers
and names, any mapping between them and any concurrency, the safety of `Spec`. All
theorems assume `MappingAssumption` (each job has an advertiser, a name and a rank),
`ModeAssumption` and `NoneAssumption` (`None` is none of the values it is told apart
from); the first three hold with or without the scope lock, the others with it, which
uploads take (creator batches do not, and `creator_repeats` shows what follows).

- `TypeCorrect`: `[]TypeOK`. `TypeOK` is inductive; lemmas give the type of each
  operator on journal records and workers.
- `MutualExclusion`: `[]WritersExcluded`. It is not inductive, because a program counter
  alone does not say who holds the lock. The invariant is `LockHeld`: a worker that is
  writing holds its advertiser's lock. A lock has one holder, so two writers
  of one advertiser are one.
- `JournalTruth`: `[]JournalIsTrue`. A record is written from a process's memory and its
  worker's project, so `Truth` extends the claim to every copy: the journal, each run's
  memory and each worker's project name only official objects, and every promotion in a
  record hangs under the record's project. Official objects only grow, which keeps the
  copies true while other runs write.
- `NothingCreatedTwice`: `ScopeLocked` implies `[]NoDuplicateObjects`. A create is sent by a
  goroutine that goes by its process's copy of a record, after a readback that may have
  been long ago. `Guarded` says why it is right to: one run at a time is at the journal
  (`OneRun`); its copy of a record is the one on disk until a save of it fails, which
  ends the job (`InStep`); a record, on disk or in memory, that lets a key be created
  means that there is no object of it, or that one of the three verdicts forgot it
  (`AllAccounted`); and a goroutine between its decision and the answer knows of no
  object but its own (`AllPrudent`).
- `ObjectsStay`: with `OwnNames`, which `uploadGroupNames` (`upload_batch.go:1107-1133`)
  provides - no two units of an advertiser share a name - also
  `[]ObjectsStayWithTheirJobs`. What a readback by name finds is then the job's own, so no
  copy of a record names another's object (`Owned`).
- `ImplementsLedger`: `ScopeLocked` implies `LedgerSpec`. A landing is the ledger's `Create`,
  for which it needs `Parented` (a promotion is asked for only under a project that
  exists) and, from `Guarded`, that the key has no object or is excused; a verdict is its
  `Excuse`; every other step leaves it as it is.

`QianchuanBatchProofs` proves all five properties of `QianchuanBatch`, for any runs of any
commands, groups, works and batch sizes, and any number of outside changes, from
`RunAssumption`, `GroupAssumption`, `LimitAssumption` and `NoneAssumption`. They rest on
one inductive invariant, `QInv`:

- `Ordered` is about a run alone: which command gets where and with the lock (`Placed`), what
  it carries from step to step (`Carries`), what a submit expects (`Expects`), and that all
  groups are decided and read before the first write (`Examined`);
- `Settled` is about what outlives the runs: snapshots announce all works of a group they
  would create (`Snapshotted`), requests are what their kind and sender say (`Asked`), a
  plan that is not there yet is empty (`NothingYet`), and bindings name plans that fit
  their group (`Bound`);
- `Holder` is what the holder of the advertiser's lock may count on although the platform
  and people go on: what it decided and read of a group still holds, for the groups it
  has not come to as for the one it is at, except for what requests given up on (`late`)
  changed. The steps of everybody else have to keep it, which is where the lock is needed.

`OnePlan` (`[]OnePlanPerGroup`), `BindingsStay` (`BindingNeverMoves`) and `DueWrites`
(`WritesAreDue`) follow from it. `OnePlanPerGroup` is about groups that have all of the
template's products (`Whole`): only of such a group is the plan, once made, a candidate, so that
`Holder` can say that a group about to be created has none but what came late. For the others the
run `qianchuan_subset` shows the opposite.

`SoundPlans` (`[]GroupsKeepSoundPlans`) and `TrueReports` (`[]ReportsAreTrue`) say whose plan a
group is given. They assume nothing of names or products; where the readback of an
unknown create finds another's plan the properties say how that came about (`Adopted`): the
plan the run had asked for was undecided at that time, or already deleted (`Missed`).
Otherwise the readback would have found two and given up. That a readback has missed something
is known only while the run waits, and it has to stay true until the binding: a second
invariant on top of `QInv`, `Taken`, says that a run which creates waits for a request that is undecided or
applied (`Waits`), that an applied create has left its plan (`Made`), and that the plan a run
verifies or binds is its own or adopted (`Found`). A request not found stays not found
(`MissedStays`), for a request its sender no longer waits for is applied late if at all. Of an
adopted plan `ReportsAreTrue` excuses exactly the works that went into the request that
was missing; what the run appends to the plan afterwards is read back.

`RuntimeUpdateProofs` proves both safety properties of `RuntimeUpdate`, for any processes,
threads, bundles, versions and bounds, from `VersionAssumption`, `ThreadAssumption`,
`BoundAssumption` and `NoneAssumption`.

- `NamedSlots`: `[]NamedSlotsExist`. Resolving and collecting exclude each other by
  `resolve.lock`, and running by leases: so the invariant `IInv` first says where a thread
  holds which (`Held`), and of whom (`Leases`). What a thread found while it held the lock
  still holds (`Found`): what it may choose is complete, what it may remove is not the
  recorded runtime. Only incomplete slots are moved aside and only unleased ones
  collected, so leased slots stay.
- `SessionsDrain`: `[]RetiredSessionsDrain`. A call is counted on its session before it
  begins (`Joined`), a session that is being closed is not the current one, and one that
  was retired is closed by exactly one thread, the one that ended its last call.

`RequestControlProofs` proves every safety property of `RequestControl`, for any finite
set of calls, any commands, scopes, families and advertisers, and any limits, intervals
and cooldowns. It assumes `MappingAssumption` and `LimitAssumption` (the shape of the
constants), `NoneAssumption`, and `FiniteAssumption` (finitely many calls, without which
holders of a semaphore cannot be counted).

- `RequestTypes`: `[]TypeOK`. `Typed` is inductive; that the semaphores stay within
  their limits is added from `Slots`.
- `OneRequest`: `[]OneRequestAtATime`, from `LockHeld`: between the gate and the close of
  its body a paced call is the holder of its advertiser's lock file.
- `SlotsMatch`: `[]SlotsMatchHolders`, which is inductive (`Slots`) once the sets of holders
  before and after a step are compared: they differ by the call that moved, or, in a
  crash, by the calls of the process.
- `BudgetKept`: `[]BudgetIsKept`, from `Budgeted`: attempts sent, and attempts reserved
  and not sent, together are within `used`. The reserved ones have to be counted, or a
  step of `Send` could not be justified.
- `GatePaced`: `GateIsPaced`, from `Paces`: what the state file and a waiting call still
  wait is never less than what is missing to the interval.
- `CooldownKept`: `CooldownIsKept`, from `Cools`: a cooldown that an answer demanded is in
  the state file, or with the call that is about to write it while it holds the lock;
  a call asleep at the gate sleeps at least as long, and a call past it has waited.

`UploadBatchProofs` proves all properties of `UploadBatch` for any sets of runs, accounts,
videos, covers and templates and any limits, from `NoneAssumption` and
`LimitAssumption` of that module.

- `OneOpen`: `[]OneOpenBatch`. By itself the property does not say what a run that saves
  has chosen, so `Inv` adds that a run under way holds the scope (`ScopeHeld`) and that
  every batch but the one it has chosen is completed (`Chosen`). Two runs under way would
  both hold the scope, so what one has chosen no other run can invalidate.
- `FrozenUnits`: `[]UnitsAsFrozen`. `FrozenInv` adds to `Inv` what a run carries between
  its steps: a plan goes by what the journal has frozen of the account, and once the
  journal is saved it follows the plan (`PlansFollow`). With it each step keeps what any
  journal has frozen (`Keeps`), and a new unit is of a frozen group.
- `NothingTwice`: `[]NothingTwiceNorMissing`. That no video is in two units begins with the
  code that makes units of a listing, which may repeat rows: lemmas show that `Kept` at
  places of different rows has no row twice (`KeptRows`), that filters and cuts keep it so,
  and that cutting such a list into pieces leaves them without a common video
  (`GroupsApart`). `CompleteInv` carries this through plans and journals (`PlanSound`,
  `JournalsSound`), and says of the report that a row called completed, a status called
  completed and a success each have their units on the platform (`RunTrue`,
  `CompletedExist`).

`AuthorizationProofs` proves all four properties of `Authorization`, for any runs, accounts,
advertisers and number of tokens, from the module's named assumptions. The inductive
invariant `AuthInv` consists of

- what holds of the state file: `Agree`, its indexes say what its authorizations say. A
  lemma per kind of update (`WithAuthorizationAgrees`, `WithRevisionAgrees`,
  `WithAccountsAgrees`) shows that it is kept;
- what a run may count on, `RunInv`: a refresh holds the refresh lock of its
  authorization, an update the channel's lock with the file as it is; nobody else changes
  the revision a refresh started from, the token it was given is the one the server goes on
  with, and its slot in the credential store is not the one in use; an `authorize` run that
  stores its first token is not in the file yet;
- `Asked` and `AskedOnce`: a request under way was made by a run that waits for it, with the
  token in use, unless that run was cut off;
- `Stored`: the token in use is there, and current while nobody refreshes.

`IndexesMatch` and `TokenCurrent` follow from it directly; `SingleFlight` and
`UpdatesStay` are about steps that start in it. `QuietKeeps` and `UpdateKeeps` say once
what a step leaves alone for the other runs, so that each action's lemma only speaks of the
run that moves.

`CommandProofs` holds the theorems of the smaller components.

*AuthorizationStore.* `OneState` is `StoreSpec => StateIsAtomic`, for any
processes, contents and number of generations, from `StoreAssumption`. Every pointer a
load has read, or `current.json` holds, names a manifest that is there and unchanged
(`PointersNamed`): a manifest is only written where none is. An update holds the lock
from its load to its end, so what it loaded is still current and the generation it
found is still free (`UpdatesHeld`). Then `WriteCurrent` is a `Replace`, and every other step
a `Load`, a `Leave` or a stutter.

*PlanSettings.* `ReportsHold` is `[]ReportedSettingHolds`, from
`SettingsAssumption`. Two facts strengthen it: at most one command is under way, and it
holds the lock (`OneSettingCommand`); and a row of success, while it is being built, is
true unless the console has touched its object (`RowsHold`).

*ReadPool.* `RefreshIsFresh` and `WaitersAreServed` assume `ReadPoolAssumption`.
An open call that can be joined or is waited for is being read by its goroutine
(`OpenIsRead`), a call that has not begun has seen nothing (`FutureIsFresh`), and a
goroutine's call has seen nothing older than its own last write (`Sees`).

*AccountReport.* `HonestReport` is `[]ReportIsHonest`, from `AccountReportAssumption`. A
goroutine has a slot exactly while it queries (`SlotsFollowTasks`), and an answer is given
when every selected task is over and says how each ended (`ResultIsFinal`); what the
summary adds up is then that of the accounts the rows call answered.

*WorkVerification.* `JudgedByThePlatform` and `FileIsVerified` assume
`VerificationAssumption`. `Judged` says phase by phase what a batch has on its works: a search
that found a creator found one the platform showed in this run (`Answered`), a work is
kept for a creator the platform confirmed (`Confirmed`), and a work left out has a
reason that holds as long as nothing official changed under the batch (`Excused`). The owner
file is what the Stores would have left one after the other (`OwnerFile`), because the
holder of its lock has the file as it is; `PruneBounds` shows that pruning leaves no more
than the limit, whichever entries it has to choose from.

*Queries, QueryTools.* `CompleteAnswers` (`[]CompleteOrRefused`) and `TrueAnswers`
(`[]AnswersAreTrue`) assume `QueriesAssumption`: keys are natural numbers, finitely many,
for a list comes to an end. They hold for every order of the lists at the start,
page size, `--max-pages` and `--top`, every set of rows a request may ask for, and any number of
changes; like the properties, they say nothing once a row came or went or a page
was wrong (`steady`). The properties are about answers, the walk that led there has lost its
pages by then, and what a report says depends on a walk before: the invariant
`QuerySettled` therefore says of each query that it is unasked, or refused, or

- reading (`Walking`): how a query that reads this list walks (`Routed`) and which tool asked it
  (`AskedBy`); that what it has read are different rows of its list, if its walk compares
  keys (`ReadSoFar`); and what its first walk brought it, the whole list or the rows
  asked for (`KeptSoFar`);
- or answered, and then as the properties say (`CompleteAnswer`, `TrueReport`, `ToolTells`).
  For a tool that shows one filtered page (`OnePage`) that is `FilteredAnswer`: the page number and
  the number of pages tell whether rows remain, before and after the filter.

In both, a creator whose videos it reads is the only match (`CreatorHolds`). A walk that
compares keys and ends has read as many different rows as the list has, so it has all of
them, whichever pages showed them; this counting (`EndIsWalked`) is the heart of
`CompleteAnswers`. Two rows that change places leave the sets of both lists and so the
invariant alone (`Swapping`). That filters keep a list without repeated rows, and that
`BySpend` permutes one and so `--top` cuts off none with a higher spend than those it shows, are
lemmas about `Kept` and ranks (`Nested`, `ByRank`), as an order is not something the prover
can sort by.

`TemplateConfigProofs` proves all four properties of `TemplateConfig` from its named
assumptions. Three of them speak of the file, but a command writes
a copy made before: so `ConfigInv` says of every prepared copy what it says of the file
(`Good`), and that a command in the lock has a file equal to its base. A lemma per
editing operator shows that it keeps a file good. `NothingLost` follows from the second
part. `OneVersion`, `[]ListingIsOneVersion`, needs none of this: `Listing` says that the pages
a client has are the beginning of the list of the version its cursor names, whatever
the file is by now. That there is such a list at all follows from `FiniteAssumption`.

The assumptions on constants are their shapes and that `None` is no value, and finiteness
where something is counted or sorted (calls, accounts, works, names, rows). Counting arguments
go by cardinalities of sets that differ by one element. Where an induction is needed the
proofs take a least element (`WFMin` with `NatLessThanWellFounded`), or count a set
through an injection (`FS_Injection`), since the theorems of induction themselves take an
operator.

Only model-checked: the liveness properties `RunEnds` of `MarketingBatch` and
`EveryCallEnds` of `RequestControl` and `RuntimeUpdate`, as fairness and `ENABLED` are outside
the prover's reach.

## 7. What is not modelled

`PROJECT.json` lists every component with its status and what is left out of it.

- *OAuth callback.* `OAuthCallbackSession` is constructed by no command: `authorize` takes
  the code as an input. It holds its mutex over its whole body.
- *Marketing batch preparation.* It builds payloads from templates and materials in one
  goroutine and without state. What it decides - units, frozen plans - is in `UploadBatch`.
- *The resolver `f2/resolve.py`* is a subprocess around a third-party package; it is
  modelled as what it may answer.
- *Bootstrap, launchers, contracts, resources, schemas, presenters, domain types, scripts and
  packaging* keep no state that interleaves.
- *Durations.* The HTTP client's time-out of 30 s also covers the waits for slots, lock
  file and cooldown (`client.go:213`): whether a call gives up is a choice in the
  model, not a matter of seconds. The expiry of refresh tokens and preflights is left out.
- *The order of two account syncs.* A snapshot carries no version, so the one that is
  recorded last wins, whichever asked first; nothing in the code or its documents says
  otherwise.

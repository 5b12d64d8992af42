# SRH Profile Recommender: specifications and proofs

TLA+ models of the SRH Profile Recommender, the TLC instances that check them and
the TLAPS proofs about them. Paths are those of the repository. `PROJECT.json` maps
each definition to the lines it models and lists runs, mutants, hazards and theorems.

    tlc -workers 2 -config Campaign.cfg MCCampaign        # a run
    tlapm CampaignProofs.tla                              # the proofs of a module

## 1. The system

| Part | State it keeps | Operations | Hard because |
| --- | --- | --- | --- |
| **Prefill campaign** `srh/recommendation/campaign.py` | Docker containers, a lock file, `campaign.json`, evidence files, three local variables | inspect, lock, measure baseline, stop the source, create/start/measure/stop two variants, restore | an outage of somebody's service that must end; signals, SIGKILL, Docker errors, full disks, shared results directory |
| **Publisher** `scripts/publish_srh_release.py` | none of its own: GitHub's branch, main, pull requests, tag, release | a dozen requests, each may fail or time out | people change GitHub between two requests; reruns must reconcile |
| **Workbench page** `srh/capacity/web/*.js` | plan, recommendation, observed runs, runtime list, composed report | handlers that await the server | every await lets other handlers run; answers arrive in any order |
| **Capacity server** `srh/capacity/server.py`, **local runtimes** `local_runtime.py`, **live comparison** `srh/recommendation/live.py` | none; runtimes and the accelerator are shared | one thread per request; a pool and a power monitor in each benchmark | no lock around the accelerator; inventory read once; a monitor that may outlive its benchmark |
| **Recommendation and deployment decision** `engine.py`, `deployment.py`, `evidence.py` | none | replay raw batches, gate, rank | the order of gates, thresholds and ties decides |
| **Experiment executor**, **paired modes** `srh/experiments/` | results of a batch | barrier start of a thread per request; order of modes, warm-up, profile before and after | barrier and failures, pairing |
| **Workload contract, planner, profile capture, capacity planner, decision engine** | none | validation, calibration of prompt sizes, screening, hashing | boundaries and rounding |
| **mmap PLE embedding** `src/vllm_ple_mmap.py` | memory-mapped shards, pinned staging buffer | gather rows of 1..n ids, copy asynchronously to the device | shard and chunk boundaries; buffer reused under a copy |
| **vLLM watch** `tools/vllm_watch.py` | threads and request colours | match a prompt to a thread, evict | bounded table |

The web page talks to the server over HTTP; the server calls the planner, the
benchmark, the live comparison and the deployment decision; the campaign runs
`paired_modes` as a subprocess, which captures a runtime profile before and after and
calls the executor; the recommendation engine reads the evidence files that leaves.
Campaign, publisher and page never call each other.

What makes each part correct:

* *campaign*: the source is out of service only under the lock and comes back; source
  and variants are never loaded together; a running variant can always be found;
  evidence is of the container it is filed under;
* *publisher*: the tag is on the tree that was verified; only that commit is merged;
  a rerun completes what an earlier run began;
* *page*: a decision shown for a plan was made for that plan; the report's label is
  backed by evidence of its contract; a comparison is of candidates that can be compared;
* *server*: what is recommended is borne out by its raw requests; a reading of power is
  of one set of samples; a plan covers its contract; every request is answered;
* *decisions*: no candidate that fails a gate is recommended, ties are broken by
  identity alone, evidence of different conditions is never ranked together;
* *experiments*: a run ends; evidence called stable is of the profile it records, can be
  replayed, and was measured in the cache state it names;
* *embedding*: each id gets its own row, in order, and no row is overwritten before
  the device has read it.

## 2. Plan

| | Module | Models | State |
| --- | --- | --- | --- |
| 1 | `SourceLoan`, `Campaign`, `CampaignProofs` | the campaign | done |
| 2 | `Publish`, `PublishProofs` | the publisher | done |
| 3 | `Workbench`, `WorkbenchProofs` | the page | done |
| 4 | `PleMmap`, `PleMmapProofs` | sharded gather against the table; staging buffer against the device stream | done |
| 5 | `Recommend`, `RecommendProofs` | evidence replay, engine, deployment decision, against a declarative definition of the winner | done |
| 6 | `StreamChat`, `Decision`, `Experiment`, `ExperimentProofs` | one measurement run: captures, batches, barrier, streams, cache; the decision on its evidence | done |
| 7 | `PowerMeter`, `Workload`, `Capacity`, `Live`, `LiveProofs` | the server's requests: live comparison, benchmark with its monitor, plans | done |
| | `Orders` | nothing of the code: facts about sets, orders and loops that `RecommendProofs` and `LiveProofs` share | done |

Abstract specifications: `SourceLoan` (a loan of the source that ends returned or
stranded, under an exclusive claim); for `PleMmap` the plain table, stated as the
invariant `RowsAreOwn`; for `Recommend` a decision without order.

Every invariant a passing run checks is proved for all values of the constants, and so are
the action properties and the step-by-step refinement of the loan. Liveness is left to
TLC: `SourceComesBack` and `LoanEnds`, `Reconciles`, `BenchmarkComesBack`,
`CallsAreAnswered`, `RunEnds`, `RequestsEnd`. The provers have no rule for ENABLED, and some
need an induction over data. The violations are TLC's counterexamples.

Modules that are proved about use no recursive operator. A component's proofs are in
a module `...Proofs` that extends it. The instances that need definitions are in `MC...`.

## 3. Campaign

One process per `Runner`, each given the container `SourceOf[r]` with `--container`.
`pc` stands between two steps that something else can observe: an API call, a file
operation, the subprocess, an assignment the cleanup reads.

| Variable | Code |
| --- | --- |
| `container` | Docker's state of each container; `loading` until the model API answers |
| `lockedBy` | the `flock` on `/tmp/srh-campaign-<id>.lock`, closed by the ExitStack or by the kernel |
| `step`, `active`, `stopped` | the position in `variants` and the local variables |
| `journal`, `disk` | the dictionary and `campaign.json`, `Torn` while `write_text` has truncated it |
| `before`, `results` | the set `before` of `measure()`, and the shared results directory |
| `clashed` | history: the files of it that a run of the same second overwrote |
| `checked` | history: `ready(source)` returned and no stop was requested since |
| `orphan` | killed campaigns whose `paired_modes` subprocess still runs |

`Inspect .. Prepare` are lines 66-128, `Ready .. Collect` are `ready()` and
`measure()`, `Lend .. StopVariant` the body of the try, `StopActive .. ReadySource`
the finally clause, `Truncate` and `SaveJournal` are `save()`. Failures are actions of
their own: `DockerFails` (with or without the effect), `SaveFails`, `Interrupt`
(SIGTERM at any step, in the cleanup too), `Kill`, `Die`. A Docker request or a benchmark
that is under way when the signal comes may still take effect (`UnderWay`), and
a benchmark that fails may have written its file before. `ManualRun` and `OrphanEnds`
are the other writers of the directory, and `Rescue` the README's procedure after a
campaign that could not clean up. The settings copied to a variant are not state;
a variant is the pair of its process and the index of its budget.

| Run | Question | Result |
| --- | --- | --- |
| `campaign` | one campaign with 2 faults, a SIGTERM, 2 files of others; two on one source with 1 fault | `JournalNamesVariant`, `NeverBoth`, `EvidenceIsOwn`, `OneCampaignPerSource`, `SourceComesBack` hold, and the loan is implemented step by step (`LoanKept`) and ends (`LoanEnds`) |
| `campaign-journal` | the README's "marks restoration only after readiness" | refuted: if the baseline check fails nothing was stopped, and `restored: true` is saved |
| `campaign-sigterm` | the README's restart "on SIGTERM/KeyboardInterrupt" | refuted: a SIGTERM while the variant is being stopped leaves the source down |

Bounds: two faults reach every pair (a failure and a failure of the cleanup it
causes); a signal reaches every step, the cleanup's too; two processes reach every
conflict over one lock; budgets are the code's own two. The bounds depend on who
campaigns: less goes wrong around two at once (660,338 states in all). `SameSecond` is
TRUE: two evidence files may get one name (`paired_modes.py` stamps seconds), the later
overwrites the earlier, and `EvidenceIsOwn` excepts those two files and no other.

Fairness is weak fairness of a live process's next step only: an API call returns or
raises, the subprocess has a timeout of 1800 s, `ready()` a deadline. Nothing is
assumed of Docker loading a model, nor of the operator.

**Proved** in `CampaignProofs`, for any number of processes and sources and any bounds:

* `TypeCorrect`. `TypeOK` alone is not inductive (a container is created at index
  `step[r]`, which must not be 0): `TypeInv` adds `StepInv`.
* `CampaignExclusion`: `LockInv` (who is past the lock is in `lockedBy`) is inductive
  and two holders of one entry are the same process.
* `JournalFindsVariants`: `FindInv` says for each process which variant can be up at
  each `pc` and what memory and disk say of it: nothing is up at `create`, the name is
  on disk from `saveVariant` on, it is dropped from the journal only once stopped or
  recorded as not stoppable. Steps of other processes leave it alone (`NamedFrame`).
* `SourceAndVariantApart`: `ApartInv` says that a campaign's source is down from before
  its first variant until the cleanup, and that in the cleanup its own variant is down or
  its stop has failed. It needs `LockInv` (no other campaign starts that source
  meanwhile) and `FindInv` (which variant can be up); a campaign that finds its source
  serving under the lock learns that whoever held it before left nothing up beside it,
  except in the two cases `NeverBoth` names (`StillExcused`: those stay named).
* `EvidenceIsItsOwn`: `EvidenceIsOwn`, overwritten files included. `EvidenceInv` counts
  the evidence entered at each `pc`, and between the count of the files and the collection
  the campaign's own file lies beyond those counted, unless it or the one before was
  overwritten; the directory only grows (`Grows`), so if one file is new it is that one.
* `LoanIsKept`: `Campaign` implements `SourceLoan`. The claim is `lockedBy`; the loan of a
  process is read off `stopped`, `checked` and its `pc` (`LoanOf`). Each action is one step of
  the loan or none: `Claim` taking the lock, `Lend` as `lend` sets `stopped`, `Return` once
  `ready(source)` has returned, `Release` wherever the lock goes, by the ExitStack or by a
  kill. `LoanInv` is what makes these the only ones: no source is lent before `lend`, none
  counts as returned before the cleanup, and a campaign ends well only after that. It
  needs `LockInv` and `FindInv`.

Assumptions: `CampaignAssumption` only. Model-checked only: `SourceComesBack`, and that a
loan does not last for ever (`LoanEnds`).

## 4. Publish

A commit is the set of changes and merge commits in its history; its tree is what the
changes amount to, so a merge of main into itself adds a commit and no tree. Each
request of `publish()` is an action, from `GetHead` (line 42) to `CreateRelease` (77).
`Start` and `RevParse` are `main()`: the tests run between them, and HEAD is read
after. `RequestFails` is an error, a timeout or a kill, with the effect done or not.
People push, merge main into the branch, merge or close the pull request, and tag or
release under the same name. A rerun starts again from `Start`.

`publish`: two checkouts, two local changes, one change of others, three pull
requests, one lost request, two interventions. That is the least that lets the branch
move under the merge, a second pull request follow a merged one, and a lost answer meet
an intervention. It checks `PublishedIsVerified`, `MergesItsCommit`, and `Reconciles`: every
checkout ends published or with something in the way that no rerun repairs (`Blocked`).
`publish-tested` refutes that what is published was tested (`docs/RELEASING.md`): a commit made while the
tests run is published.

Fairness: a request is answered or times out after 45 s; a failed script is run again,
as its error messages and the release notes ask.

**Proved** in `PublishProofs`, for any number of checkouts, changes and bounds:
`TypeCorrect`; `PublishedCorrect`, from the inductive `VerifiedInv` (past `verify`, the
merge has the tree of `sha`; past the tag, the tag is that merge; nothing a publisher
or a person can do moves an existing tag); `MergesOnlyItsCommit`, an action property.
Assumptions: `PublishAssumption`. Model-checked only: `Reconciles`, which needs fairness.

## 5. Workbench

One assessment in one tab, not reloaded. Each handler of `app.js` and `workflow.js` is
cut at its `await`: the action before it sends a request, the action after it updates
the page, and whatever else is clicked or answered may run in between. The server gives
every request a thread, so answers come in any order; `Reject` is an error status or
a lost connection, with the handler's catch and finally.

| Variable | Code |
| --- | --- |
| `flight` | requests not yet answered, with what the handler captured before its `await` |
| `plan` | `latestPlan`, by its contract |
| `recommendation` | `latestRecommendation`: contract and verdict |
| `runs`, `simulated` | `localBenchmarkRuns` and `referenceSimulationRuns`: the contract each was made for |
| `ticked`, `testOff`, `compareOff` | candidates ticked; the two `disabled` flags |
| `report` | what `buildConsultingReport()` last wrote, or nothing yet |

The contract stands for the whole plan, as its hash does in the code; a run keeps its
model and contract, not its measurements or profile; a verdict is any the server may return.
The status `VERIFIED_RECOMMENDATION` stands for `LAB_RECOMMENDATION` too, which the page
writes instead where the recommendation names a synthetic scenario (`workflow.js:99-100`).

| Run | Question | Result |
| --- | --- | --- |
| `workbench` | two contracts and the demo's, two models, two requests in flight | `ReportIsCurrent`, `DecisionIsForPlan`, `OffersValidComparison`, `BenchmarkComesBack` hold |
| `workbench-label` | the capacity README's "labels itself according to the evidence actually linked to the current Workload Contract" | refuted: a benchmark answered after a new plan is listed and labels the report, though it measured the old contract |

Two contracts are the least that let an answer be late, two models the least that make
a comparison, two requests the least that overlap. Fairness is of answers only: the
server answers or the connection fails. Nobody has to click.

**Proved** in `WorkbenchProofs`, for any contracts, models and number of requests:
`TypeCorrect` (a report exists only once there is a plan, `PlanInv`);
`ReportStaysCurrent`, inductive by itself since every handler that touches the
assessment composes again; `DecisionShownIsForPlan`, its consequence;
`OffersOnlyComparisons`. Assumptions: `WorkbenchAssumption`. Model-checked only:
`BenchmarkComesBack`, which needs fairness.

## 6. PleMmap

The embedding's lookup in three actors: the thread that runs the model, the pool of
threads that read rows, the GPU that works off a stream of commands.

| Variable | Code |
| --- | --- |
| `files`, `mm` | rows of each shard in the checkpoint (or absent, or unfit); the shards opened, `{}` for `table = None` |
| `asked` | the ids of each lookup |
| `rows`, `todo` | `out` of the gather in progress and the tasks the pool has not run |
| `bufs`, `pinned` | pinned buffers and the current one, 0 where none could be pinned |
| `stream`, `dev`, `out` | commands queued, rows on the device, the result of each lookup |

`Load` is `_find_shards` and `_setup_table`, `LoadDummy` a start without weights.
`ReadIds` is the blocking copy of the ids to the host, the only place where the host
waits for the GPU. `GatherInline`, `GatherPooled`, `RunTask` and `Join` are `gather`;
`Stage` and `Send` the copy into the buffer and the two asynchronous commands. A
copy from pinned memory reads the buffer when the stream reaches it, which is why
the order matters. An exception in a lookup ends the engine (`dead`). A row is its
global id: what the id hash computes and the bytes of a row are external, as is the stream.

`ple-mmap`: five rows in two shards (the second one short), tasks of two rows, so that
one shard is cut in two; a first lookup that fits no buffer, a second that overlaps it
on the stream, repeated and empty lookups, absent and unfit shards. It checks `RowsAreOwn`,
`TasksDisjoint`, `StagingQuiet` and `CallsAreAnswered`, which also says that a whole table
refuses no legal id. Two lookups are enough for an overlap: the third can only meet the one before it. Fairness: the
host's calls return, the pool's threads run, the GPU works off its stream.

**Proved** in `PleMmapProofs`, for every size of table, shards, chunk and buffer:

* `TypeCorrect`, `TasksNeverMeet`, `EachIdGetsItsRow`, `StagingStaysQuiet`, from
  `IInv == TypeInv /\ HostInv /\ StreamInv /\ OutInv`. `RowsAreOwn` says nothing before
  a result exists, so `HostInv` says what `rows` holds while tasks are pending,
  and `StreamInv` what the commands queued will compute: at most the current
  lookup's copy and index are queued, and the buffer named holds its rows.
* The arithmetic is in lemmas: `np.unique` puts `x` at the number of smaller ids; the
  tasks of a shard cover its positions and no others; two tasks never meet.

Assumptions: `PleAssumption`. Model-checked only: `CallsAreAnswered` (liveness, and the
sum of the shards' rows, which needs an induction). Left out: statistics,
prewarming of the page cache, and how the class is patched into vLLM.

## 7. Recommend

The decision over evidence files: `recommend` for runtime profiles of one system,
`recommend_deployment` for deployments across systems. Both examine the files one by
one with `candidate`, which replays the raw requests; `policy` says which is asked for.

| Variable | Code |
| --- | --- |
| `policy`, `manifest` | `"profile"`, or the manifest's policy and its metadata by profile |
| `evidences`, `next` | the files in the order given, the one to examine next |
| `rows`, `rejected` | `rows` and, as indices, `rejected` |
| `report` | what is returned: verdict, `comparable` and `ranking` |

`RefuseManifest` is the exception for a manifest of fewer than two candidates, `Accept`
and `Reject` the two ways through the loop, `Decide` everything after it. The replay is
in operators: `Replayable` is what it requires of batches, `Percentile`, `Minimum` and
`Rounded` the metrics, `Meets` each objective, `Before` the sort keys of the three
rankings. Gates that do not compare requests (schema, hashes, live and stable runtime,
terms of the contract) are one Boolean, `sound`; the contract itself is a valid one with
finite terms, as both functions refuse any other before they look at a file
(`engine.py:90-94`, `deployment.py:50-51`); an answer is the set of checks it passes. Times are integers and `Grain` is the last digit that rounding keeps.

`recommend` gives every order of two and three files of twelve kinds (other profile,
condition or system, too few repetitions, repeated batch or request, unanswered, not
sound), and any mix of four requests of six kinds in one of three files, under all
three policies and six manifests. `Percent` is 50 there so that with four requests the rank lies
inside the sample. Three files are enough: the engine compares each file with the first and
with the earlier ones of its profile, and three is the number it asks for.

* `DecisionIsOfTheSet`: the verdict, the profiles ranked and the winner are those of
  a definition that knows no order of files and no sort: all files acceptable, distinct
  and alike; the winner is what remains when each criterion in turn keeps its best.
* `RecommendedIsBorneOut`: the raw requests of the winner satisfy the contract, to
  half a last digit: a sum over requests, where the code goes by a rank and a rounded value.

**Proved** in `RecommendProofs`, for any number of files and requests, any percentile,
rounding, contract and manifest: `TypeCorrect`, `DecisionOfTheSet`, `RecommendedBorneOut`.
`IInv` says of each row that it is the candidate of a file accepted (`Standing`), that
profiles do not repeat, that with nothing rejected row and file numbers agree, and that
a rejected file is unacceptable or has an earlier one of its profile, which is what lets
the verdict forget the order. The lemmas: in a finite strict order every
place is taken by one element (`Places`), by which percentiles exist and a sort is
determined; `BeforeOrder`, that the keys are such an order; `RankBounds` and `Rounding`.

Assumptions: `RecommendAssumption`. Left out: the floating-point representation of
metrics, the wording of reasons and the next action recommended.

## 8. Experiment

One run of `paired_modes.py` or `executor.py` from its start-up checks to the evidence
file, and `decision/engine.py` on that file, against a runtime that may be restarted at
any step, even as another one.

| Variable | Code |
| --- | --- |
| `setup` | arguments, plan, pack and contract the program was started with |
| `before`, `after` | the two captures, part by part: image, command line, environment, GPU |
| `rep`, `turn` | the repetition and the place of the batch in it |
| `worker` | the threads of `execute_batch`: what each sent to, and what came back |
| `batches`, `report` | results so far; the evidence written |
| `decision` | what the decision engine returns, or that it raised |
| `identity`, `cached`, `warmed` | the runtime: version of each part, prefix cache, history of the warm-up |

`CapturePart`, `GpuUnreadable` and `CaptureFails` are `capture_profile`, which reads one
part after the other. `Load` is every check before the first request, `Warmup` is
`prewarm`, `Submit .. Join` are `execute_batch`: a thread per request, a barrier of
`Parties`, a prompt made by `PrepareRequest`. `Answer`, `AnswerOddly` and `AnswerCut` are
`stream_chat`, whose measurements `StreamChat` derives from the lines that arrive:
a connection that ends early raises nothing. `Write` and `Decide` are the file and the engine,
`Restart` the runtime's. After the file there are only prints, whose failure is left out. A prompt is a sequence of segments, since all that matters of
it is what it starts with; the chat template all prompts share is left out, as is the
block size below which nothing is cached. A sequence of lines stands for the text: line
`i` arrives at time `i`.

`experiment` runs all three cache states with two requests at a time, single runs, one
request at a time, and six setups that are refused; two repetitions, so that modes come in both
orders and an earlier repetition can be met in the cache; one incident with two requests
at a time, two with one, so that a restart can follow a restart between any two reads.

* `StableMeansUnchanged`: what the evidence calls stable was measured on the profile it
  records. It holds though captures are not atomic: a request between two reads of a
  part met a version between those read. This needs that versions only grow;
  a part exchanged and exchanged back within a run leaves two equal captures, which
  the code cannot tell from no change. A GPU that could not be read is excepted.
* `CacheStateHonoured`: cold and warm prompts find nothing in the cache, shared-prefix
  ones find the context unless the runtime was restarted. The cache may hold the
  context from an earlier run.
* `EvidenceReplays`: what is written can be replayed by `Recommend`'s definition, instantiated here, and
  what the recommender finds eligible meets the objectives by the decision engine, which
  reads the summaries stored in the file.
* `RunEnds`: under weak fairness of `Progress` (threads are scheduled, `stream_chat` has a
  timeout of 300 s). `"stuck"` is one of its ends: if a thread of a batch cannot be
  started, the pool's shutdown waits for the others, which wait at the barrier.

**Proved** in `ExperimentProofs`, for any setups, streams, repetitions, numbers of requests,
restarts and incidents:

* `TypeCorrect`, from `TypeInv`, with `RunnableInv` (past `Load` there is an experiment
  and at least one thread). Its lemmas give every measurement of a stream its type:
  the first and last of a set of lines are lines.
* `StableIsUnchanged`, from `OrderInv`: `ReadInv` and `SentInv` bound the version each
  request met by the captures before and after it, `RecordedInv` keeps that for the
  batches, `PhaseInv` says when a capture is complete.
* `CacheIsHonoured`, from `CacheInv` and `SubmitInv`: what is in the cache is a fixed
  text or the instance of a prompt sent earlier in the order of repetition, mode and
  number, and so never the one sent next.

* `EvidenceIsReplayable`, from `BatchInv` (past a repetition there are as many batches
  as its mode has had, numbered in order, each with one answer of every request) and
  `FileInv` (the file and the decision are of the batches as they are). The rest is about
  operators: what `stream_chat` measured satisfies what the replay asks of a request, and
  an objective met by the requests replayed is met by the summary that the file stores.

Assumptions: `ExperimentAssumption`, `StreamChatAssumption`. Model-checked only: `RunEnds`.

## 9. Live

A request to the capacity server, from `Ask` to its answer: a live comparison
(`live.py`), a single benchmark (`local_runtime.py`), a capacity plan (`planner.py`);
beside the server, the program `workloads/planner.py`, which is asked the same way.
An error the handler does not expect drops the connection (`Drop`): an objective or
a percentile a benchmark's contract does not have, a JSON null where an object is read.

| Variable | Code |
| --- | --- |
| `ask`, `at`, `answer` | the request of each client, where its thread is, what was answered |
| `known`, `observed` | the inventory a comparison read; what its benchmark found at the place |
| `open`, `runs` | the pool's requests out, and what came back |
| `rows` | `rows` of the comparison, one for each candidate measured |
| `monitor`, `elapsed`, `samples`, `waited`, `power` | `PowerMeter`: the sampling thread, its sample's time, the list, the time spent in `join`, and of how many samples average, count and peak were taken |
| `inventory` | what the local runtimes offer, which changes under the comparison |

`AcceptComparison .. Conclude` are `run_live_comparison`, `AcceptBenchmark .. Summarise`
`run_local_benchmark`; `Check`, `Sampled`, `Hang` and `Die` the monitor and its
`nvidia-smi`, `Tick` the time both spend. `Workload` is `validate_contract` and
`build_plan`, `Capacity` the screening of every combination and the shortlist. The rate of
a single request, from an anchor or a roofline, is the constant `SingleUserRate`;
quotients are rounded down where the code rounds to a digit; schema, workload class and
the types of single fields are one Boolean, `identified`; a candidate listed twice is
taken once, as two equal ones are.

`Estimate` is `_estimate_candidate`, from its memory (`MemoryOf`), its hard limits
(`Possible`), its rates (`Projected`), the tier they reach (`KeepsAt`) and the points they make (`Points`).

`live`: thirteen comparisons, eight benchmarks, plans for 114 contracts (each rule broken
once; percentiles that coincide, maxima absent or null, users out of order) and 57
intakes (8 of them refused) over two devices and four models. Two incidents: a runtime
replaced under its name, an odd or failed answer, an `nvidia-smi` that hangs. One client is enough: clients
share nothing but the inventory and the clock, and each has a monitor of its own.
`SampleLimit` 1 and `JoinLimit` 2 keep the order of 3 s and 4 s; repetitions are 1 and 2
for 3 and 5, `Percent` is 50, the largest whose rank lies inside two requests, and a shortlist has 2
or 3 places for the code's 3 to 8, so that four models are more than the longest list.

* `RecommendedIsFit`: the recommended candidate's raw requests all came back, passed
  their checks and kept the objectives, it was measured in full, and no fit candidate was faster.
* `PowerOfOneSet`: the three figures of a reading are of the same samples.
* `PlanCoversEnvelope`: what a plan contains, against the contract. `planner.py`
  promises no limits for maxima that are not declared: a null maximum passes validation
  and becomes an experiment without a size, which is written to the file and then fails
  to print (the verdict `WRITTEN`), and the 95th percentile may exceed the context. The
  property asks for limits in neither case.
* `ShortlistSound`: what a shortlist contains, against all candidates. The catalog has
  nine models and a list at most eight places, so a model may be left out; then each
  place is another, better model's. Each model is there with its best tier, and whoever is
  passed over for a lesser candidate loses to a model or a device that is new to the list.
* `RequestsEnd`: under weak fairness of the threads and of time. `"stuck"` is a first
  `nvidia-smi`, in the request's own thread, that cannot be killed.

`live-shortlist` refutes the rule of `docs/ESTIMATOR-METHODOLOGY.md:87-89` that diversity
cannot promote a weaker tier into the shortlist (`DiversityKeepsTier`). The first pass, for
one of each model, stays within a tier; the second (`planner.py:403-409`), for devices not
listed yet, takes any: an intake for one model lists it STRONG on one device, then
CONDITIONAL on the other, and leaves out its other STRONG format on the first.

The comparison does not look at `observed`: a row may be of a runtime that replaced the
one it is named after. No document says otherwise, so no property does.

**Proved** in `LiveProofs`, for any requests, contracts, intakes, catalogs, percentile
and list lengths, number of clients, and limits with the sample's below the join's:

* `PowerIsOfOneSet`. `PowerInv` says that a sample still being taken
  once the benchmark waits has taken longer than the wait, so it is over before the wait
  is; after it the thread sees `stop`, or hangs and has no sample to add.
* `RecommendedIsBorneOut`: `RecommendedIsFit`. `LiveInv` says of each client how far its
  request is (`Stage`), that answers in and out are those of its batch (`Pool`), that each
  row is `CandidateRow` of a full batch (`RowsKept`), and that an answer is `Report` of a row
  for every candidate (`AnswerKept`). A percentile is at most a bound exactly if enough
  requests are; keys with a `None` in them still put one row first (`Precedes` is a
  strict order of them), so there is a recommended one. A request passes exactly if all its
  checks do, as `_quality` has it; `Run` says so.
* `PlansCover`: `PlanCoversEnvelope`. The experiments have an id each; `Distinct` keeps the
  first of each key, so what was among them still is, by its key; the translation of a
  valid intake is valid, since page and word counts translate monotonically.
* `ShortlistIsTheBest`: `ShortlistSound`. `Better` orders the candidates strictly, whence
  `BestFirst` lists them in order; the first pass takes a stand-in for the best of each
  model; `Fill` keeps what is listed and ends with a full list or one that has everything.
  `Fill` and `OnePerModel` are recursive functions; `Orders!Loops` turns what one round
  keeps into what all keep, by induction over the number of rounds.
* `TypeCorrect`, from `LiveInv`, `PowerInv` and `OneAnswer`.

Assumptions: `PowerAssumption`, `WorkloadAssumption`, `CapacityAssumption`, `LiveAssumption`. Two of
them state what the code provides: there is a rate for each format a model supports, and
a share kept for each number of users a valid intake may have (`planner.py:253-257`
defines it for any). Model-checked only: `RequestsEnd`.

## 10. Not modelled

Layout (reports, HTML), argument parsing, network details and shell wrappers have no
state a property is about. The upstream vLLM patches and kernels are third-party
numeric code; `mamba_utils_guarded.py` is a vendored file. The scenario generator
writes a fixed pack once, the weight tools convert tensors once. The log viewer's
table (`tools/vllm_watch.py`) is read by nobody but its user. A session without a system
prompt changes its colour there at its second prompt, since a thread is taken only
if two turns agree (line 86): a matter of display. What sharing the
accelerator does to measured times is outside every model: any measured value may come
back. Liveness under fairness is model-checked and not proved.

# Verification of streams-rollout-market

TLA+ models of the rollout market in this repository, checked with TLC and, for
the parts where it says so, proved with TLAPS for every value of the constants.

The program rents out inference work: a *job* asks for a group of rollouts of
one prompt under one pinned policy; *workers* take jobs under *leases*, produce
*groups* and submit them with a validity *decision*; groups live in a *store*
from which *trainers* fetch. All of that is plain Python in
`src/src/rollout_market/`, held together by locks, states and ids. Around it
stands a second system, `src/scripts/live/` with the labs and dashboards: it
captures what agents do over a model server, lets trainers score the same tokens,
compares the two and publishes the result. That one is held together by files
that several processes write and read without any lock.

## 1. Inventory

| Component | State | Operations | What makes it correct |
|---|---|---|---|
| **Worker broker** `worker_broker.py` | registered workers, heartbeats, dead workers, jobs in FIFO order, leased job ids, lease records, idempotency keys, failures, audit log; one re-entrant lock | `register_worker`, `heartbeat`, `submit_job`, `acquire_lease`, `submit_group`, `report_failure`, `reap_expired`, `abandon_stale_workers`, readers | one lease per job counts at a time; a lease ends once; one group per key; dead workers hold nothing; sweeps take only what is overdue; all work comes back |
| **Worker SDK** `worker.py` | the worker id | forwards to the broker one to one | nothing of its own |
| **LiveStore** `livestore.py` | ordered records: group, state, reason, served count | `submit`, `transition`, `get_batch`, readers | one record per group; rejection is final; FIFO service of servable records only |
| **Trainer client** `trainer_client.py` | none; iterates the store's records | `fetch` | a batch matches its filter and holds no rejected group |
| **Contracts** `contracts.py` | immutable pydantic models | constructors that raise | the rejection rule of decisions, lengths of trajectories, positive limits |
| **Validity pipeline** `validators.py`, `opbc.py`, `mismatch_metrics.py`, `verifier.py` | none | ordered checks, log-ratio statistics, thresholds to a decision | the first failing check gives the reason; thresholds partition the budgets |
| **Feedback** `feedback.py` | counters per worker, engine and policy; seen group ids | `ingest`, `ingest_all`, readers | each group counted once, and under one worker, engine and policy |
| **Pool reload** `pool_reload.py` | last acknowledgement per worker, digest per version | `record_ack`; `has_quorum`, `pool_active_version`, `is_worker_aligned` read | a version has one digest; the active version has a quorum |
| **Policy registry** `registry.py` | `<version>.json`, `latest.json` on disk | `publish`, `latest` | `latest` names a version that is there |
| **Dispatcher** `dispatcher.py` | none | `choose_worker`, `make_assignment` | the worker serves what it is assigned |
| **Marketplace simulation** `observatory/marketplace_simulation.py` | threads of simulated workers over one broker and store, a start barrier, a result list under a lock | fetch a lease, produce, validate, decide, submit | every job is finished or accounted for |
| **Capture pipeline** `logprob_capture_proxy.py`, both drivers, `merge_probes_into_trajectories.py`, `hermes_agent_runner.py` | requests in flight; a sidecar of probe records that all runs append to, the drivers' ShareGPT file, trajectory files, agent logs | proxy a request, record, answer; run a task; merge; resume a runner | a log-probability lands on the answer it was sampled for; a trajectory tells one run of its own task |
| **Token extraction, pairing** `hermes_token_extraction.py`, `fill_prompt_token_ids.py`, `build_hermes_dense_input.py`, both `pair_*.py` | trajectory files, rollouts and index files | fill in, extract, build, pair | rollout and trainer are compared token by token, layer by layer |
| **GPU runners** `run_*.py`, launch scripts | score and trace files | score, trace | they score the response's tokens at their own positions |
| **Observatory labs** `observatory/*_lab.py`, `endpoint_probe.py` | report directories | parse, compare, write | only what is comparable is compared |
| **Dashboards** `observatory/*_dashboard.py`, `publish_dashboards.py` | per kind a data file and a page; `docs/` | aggregate, write, publish | pages, data and index agree; the latest runs are shown |
| **CLI, examples** | none | arguments, demonstrations | nothing of their own |

Interactions. Workers call the broker through the SDK, from threads of their
own; the broker calls the store inside its lock; trainers read (and count
servings in) the same store without that lock; validators and OPBC produce the
decision a worker submits; trainers report on groups they were served to
feedback; pool reload tells which policy versions workers hold, and dispatch is
meant to be gated by it. Files alone connect the capture scripts to the builder
and the trainers, these to the pairing scripts, reports to dashboards and
dashboards to the published site.

Hard behaviours. Late calls of workers that lost their lease; sweeps that read
the clock before they wait for the lock; workers that die, revive or never
appear; heartbeats that arrive late and out of order; retries of a job under
the same key; exceptions in the middle of a method; records that change state
while a trainer iterates over them; servings that start again at the head.
Requests that outlive the driver that sent them; records of earlier runs in the
same file; jobs, builders and publications killed between two files; files of
different generations read together.
`PROJECT.json` lists each under "hazards" at its line, with the property that
would catch it.

## 2. Modules

| Module | Models | Role |
|---|---|---|
| `LiveStore` | `livestore.py` | component; `records` is the OrderedDict as a sequence |
| `WorkerBroker` | `worker_broker.py`, parts of `contracts.py` | component; instantiates `LiveStore` on its own variable `records` as `Store` |
| `JobMarket` | what the broker promises about jobs | abstract specification |
| `BrokerMarket` | | refinement mapping from the broker to `JobMarket` |
| `TrainerClient` | `trainer_client.py` | component; instantiates `LiveStore` on the records it iterates over |
| `PolicyRollout` | `registry.py`, `pool_reload.py`, `dispatcher.py` | composes the three on the way of a policy to the workers |
| `Validity` | `validators.py`, `opbc.py`, parts of `contracts.py` | pure operators |
| `MarketplaceSimulation` | `observatory/marketplace_simulation.py` | composes worker threads, `WorkerBroker` and `Validity` |
| `TrainingLoop` | `feedback.py`, `examples/fake_trainer.py` | composes `LiveStore` (EXTENDS) with trainers that report on what they were served |
| `CapturePipeline` | the proxy, `minimal_agent_driver.py`, `remote_capture_driver.py`, the merge, `hermes_agent_runner.py` | composes five programs over the files they share |
| `MismatchReports` | extraction, fill, builder, GPU scripts, pairing scripts, the labs' comparisons | composes six programs over the files they share |
| `DashboardPublishing` | labs as writers of reports, `observatory/*_dashboard.py`, `publish_dashboards.py` | composes labs, dashboard commands and the publication |
| `WorkerBrokerProofs` | | theorems of `WorkerBroker` and the refinement of `JobMarket` |
| `TrainingLoopProofs` | | theorems of `LiveStore` and of `TrainingLoop`, which extends it |
| `TrainerClientProofs`, `PolicyRolloutProofs`, `CapturePipelineProofs`, `MismatchReportsProofs`, `DashboardPublishingProofs` | | theorems of the module in their name |
| `ValidityProofs` | | theorems of `Validity` and, resting on them, of `MarketplaceSimulation` |
| `MC...` | | values of the constants for TLC |

Definitions marked `(mutant)` are slips the definition after them might have
had. No specification uses them; they show that each checked property can be
violated by a wrong program.

### LiveStore

`Submit`, `Transition` and `GetBatch` are the three methods that change state;
guards are the conditions under which the method does not raise. The payload of
a group, free-text reasons and timestamps are left out. Serving counts are
bounded by `MaxServed` and batch sizes by `MaxBatch`.

### WorkerBroker

| Code | Model |
|---|---|
| `_workers`, `_heartbeats`, `_dead_workers` | `workers` (manifest or `NoManifest`), `heartbeats` (`last_seen_at` or `Never`), `dead` |
| `_jobs` (OrderedDict) | `jobs` (content) and `queue` (insertion order of its keys) |
| `_leased_job_ids` | `leasedJobs` |
| `_leases` | `leases`, a sequence; an id (a uuid4) is a position |
| `_idempotency_keys` | `keyOf` |
| `_store` | `records`, changed only through `Store!Submit` |
| `_audit` | `workerAudit`, `leaseAudit`: the last event about each worker and each lease |
| local `ref_now` of a sweep | `refNow` |
| wall clock | `clock`, advanced by `Tick` |

Each public method runs under the lock and is one action: `RegisterWorker`,
`Heartbeat`, `SubmitJob`, `AcquireLease`, `SubmitGroup`, `ReportFailure`,
`ReapExpired`, `AbandonStaleWorkers`. A call that raises changes nothing and is
no step; in particular `store.submit` raises before `submit_group` has assigned
anything. The two sweeps read the clock *before* they take the lock, so
`StartSweep` reads it and the sweep follows after any number of other steps;
one sweep of each kind is in flight at a time. A heartbeat carries the time at
which the worker made it and may arrive up to `BeatDelay` late, hence also out
of order. Clients are arbitrary: any worker may call anything with any lease at
any time. `worker_health` is the operator `WorkerHealth`, used by properties.

Left out: the failures list, `closed_at` and failure details, assignment ids,
the copies of job fields in the lease that nothing reads, and the timestamps of
audit entries. The wall clock is assumed not to go backwards.

`JobMarket` states the promise without leases: a job is unknown, open, with
exactly one worker, or finished with a group of its own. `BrokerMarket` reads
the holder of a job off its leases and checks `Market!Spec`.

### TrainerClient

`fetch` takes no lock. Its scanning loop reads one record per step (`Scan`,
`ScanEnds`), its counting loop increments one `served_count` per step
(`CountServed`), then the batch is returned (`Return`). `Submit` and
`Transition` of the store happen at any moment. If the store has grown and the
iterator has a record left to give, Python raises, and so does the call
(`ScanRaises`). Each iteration is atomic, which an interpreter with a global
lock guarantees for the few attribute reads it makes and for the increment (no
thread switch falls between the load and the store of `x.a += 1` since Python
3.10). `steady` (what a call could have picked at every moment of it) and
`delivered` (how often a record was in a returned batch) are history variables.
Of a group only the policy version, lag and precision the filter reads are
kept. Trainers pull through `fetch` alone, so `get_batch` is not called here.

### PolicyRollout

| Code | Model |
|---|---|
| `<version>.json`, `latest.json` | `files`, `latest`: a manifest, `Torn` or `NoFile` |
| the call of `publish` | `publishing`: the manifest and how many of its four file operations are done |
| `_acks` (insertion-ordered dict) | `acks`, and `ackOrder` for the order of its keys |
| `_digest_by_version` | `digestOf` |
| what a worker's engine has loaded | `loaded` (external) |
| `Assignment`s made | `assignments` |

`write_text` truncates, then writes, so `publish` is `StartPublish`,
`WriteVersion`, `TruncateLatest` and `WriteLatest`, and the publisher may die
before each of the last three. The trainer publishes versions in ascending
order and may publish the newest again; workers load whatever `latest.json`
names and acknowledge what they loaded at any later time, so acknowledgements
arrive late and out of order. `Dispatch` chooses from a list of heartbeats and
assigns work of the latest version.

### Validity

`Validate` gives the reason of the first failing check of
`validate_group_against_lease`, or `Clean`; `ComputeReport` and `Decide` are
`compute_budget_report` and `decide_group`. Log-probabilities are integers, `Exp`
is a constant operator, and ratios stay fractions that are compared by
cross-multiplication, with thresholds in percent, so nothing is rounded. Of the
report only what `decide_group` reads is kept. There is no NaN.

### MarketplaceSimulation

A thread is in one of the stages `started`, `barrier`, `fetch`, `judge`,
`submit`, `note`, `returned`; between two stages it touches shared state once:
the barrier, the clock, the broker or the list of submissions. The broker is an
instance of `WorkerBroker` on the same variables, of which only `AcquireLease`,
`SubmitGroup` and `Tick` are used: nobody reaps. `_make_group` and
`_train_logprobs_for` are kept value by value, in tenths. Lease ids stand for
group ids (the code derives one from the other), jobs for their keys. Nothing
says how long a thread sleeps, so a lease may run out between fetch and
judgement, which the code's thirty seconds make unlikely but not impossible.
The random jitter of honest log-probabilities is below the scale. The default
thresholds of `BudgetPolicy` are the ones used.

### TrainingLoop

`Ingest` is `FeedbackAggregator.ingest`: a group seen before is ignored, another
one counts in the tables of its worker, its engine and its policy, as `_bump`
counts it. A trainer reports on any group the store has served (`Report`), with
any verdict and as often as it likes, which is what a trainer that restarts does.
The sums of observed statistics are bumped together with the counts and are
left out. The other steps are the store's.

### CapturePipeline

| Code | Model |
|---|---|
| the driver's or runner's process | `driver`: its kind, what it has left to do, the current conversation |
| requests at the proxy's threads | `requests`, which live on when the driver has given up |
| `probes.jsonl` | `sidecar`: per record the key (a hash of the first user message or a number), the turn, and which answer it was taken from |
| the drivers' output file | `sharegpt` |
| trajectory files | `trajectories`: `Absent`, `Torn` or the steps |

An answer is known by task, turn, run, number of tool calls and whether it came
with log-probabilities; it never changes, so "the probes of this answer" can be
said. The proxy answers, records and passes on in three steps; anything may
happen between them, and a timeout, a server error, a killed driver or a
killed merge counts against `MaxFaults`. `SendThroughProxy` is one loop iteration
of the minimal driver, `AskDirectly` of the remote one, which records by itself.
A driver starts with the whole task list or, with `--task-id`, with one task
(`TaskChoices`), and `driver.todo` is what it has left of it.
`StartMerge` reads both files and joins them as a whole, then files are written
one by one. The runner passes over every task whose file exists, whole or not.
`DigitHash` says for which tasks the hash of the prompt consists of digits and
is therefore taken for a number, as `_coerce_prompt_index` does. Request bodies,
HTTP framing and what tools compute are left out.

### MismatchReports

Tokens are tuples of role, task, turn and place, so two tokens are equal just when
they are the same token; a context is the sequence of tokens before a position.
The *score* of a token is the pair of the token and the context the model had
seen, a *routing decision* the context and the layer: two sides of a report are
comparable when these agree, and no number needs to be invented. `Header` stands
for system prompt and tool list, which the drivers send and
`_build_prior_messages` does not know. Every file names the build or capture it
was made from, as a history variable. `Capture` replaces the trajectories of a
precision at any time; `Fill`, `Build`/`WriteIndex`, the copy of an operator,
`StartJob`/`WriteScores`/`WriteRoutes` and `StartPairing`/`WriteReport` are the
programs, of which builder, job and pairing may be killed between their
files. One builder, one job and one pairing run at a time. A file is replaced in
one step: what a reader sees of a torn JSON file is an exception, which is no step.

### DashboardPublishing

A report is known by what it is about and when its directory last changed;
`Advance` writes the file that was opened, or creates the page beside it. Dense
and router reports replace an earlier one in place. A dashboard command loads all
reports of its kind at once and fails unless they are whole, then opens and
writes first the data file, then the page. The publication goes through the
cards and reads `runs/` three times for each, writes the index, looks for the
latest agent pages, removes the old ones and copies them one by one, those of a pair in the order of their tasks. All of
these run beside each other (one command and one publication at a time) and may
be killed between any two steps; a file that is copied while it is being written
is not whole. One copy is one step. The statistics of a report are its number;
count, sum and maximum stand for the means and worst values of
`engine_pair_aggregates`. `runs/` is not in the repository, so a fresh checkout
has `docs/` without it.

## 3. Runs

| Run | Shows |
|---|---|
| `livestore` | one record per group, retained and never resurrected from REJECTED; FIFO service; the feedback counts the first verdict on each served group, in all three tables alike |
| `leases` | lease promise, finality, dead workers, audit trail and the sweeps' timing with two workers, one job, three leases and late beats |
| `market` | key table, store and queue with two jobs and two keys, contents replaced at any time; the broker implements `JobMarket` |
| `liveness` | every lease ends, silent workers die, asking nothing of the workers; a selective job and two kinds of workers |
| `never_heard_of` | *violated*: a worker without any heartbeat never dies, see findings |
| `trainer_fetch` | a batch answers its query and skips nothing it could have picked all along, whatever changes during the call; serving counts equal what two concurrent trainers received |
| `trainer_disturbed` | *violated*: a submission breaks a concurrent fetch, see findings |
| `rollout` | crashes of the publisher and republication: `latest` has its file, a version keeps its digest; the search for the active version finds a quorum exactly when there is one |
| `simulation` | every group gets the verdict that the profile of its worker asks for unless its lease had run out; the final report accounts for every job; the simulation ends |
| `capture` | with requests that outlive their driver, one sidecar for two runs of any drivers, and crashes: answers in a conversation are recorded, probes and results belong to the answers and calls they are shown with, a trajectory tells one run of its task |
| `reports` | with trajectories captured anew, builds and jobs of different generations and crashes: whatever is compared within one generation are the same tokens in the same context and the same layers; index and rollouts number the same turns; the three ways to a turn's tokens agree |
| `publish` | the published page, data and tiles are in the order of their builds and agree where they are of one; the latest run is shown unless labs overlapped |

Bounds. `MaxTime` is the horizon of the clock and `MaxLeases` the number of
leases issued; `AcquireLease` issues only leases whose deadline lies within the
horizon. Three leases of one job suffice for a lease that is lost, one that is
lost in another way and one that is finished, with late calls on all of them;
two workers for every race between the holder and another; one tick more than a
time-out for every boundary (`>=` for deadlines, `>` for heartbeats). The store
is checked with three groups, so that one can be skipped, one served and one
cut off by the batch size. Workers and groups are interchangeable in the safety
runs (symmetry); the liveness runs use no symmetry. `MaxServed` lets a fetch
start only while no record is served that often, which bounds the counters
without cutting a call short; two calls still overlap on one record. Two
groups, a query for one, for both, a strict one and one for another policy let
a batch be filled, cut off, left short or empty. Two trainers suffice for a race
on a count. Two versions and two digests suffice for a version republished with
another checkpoint after a newer one; three workers for a majority and for a
quorum of each version. In the simulation two threads of any two profiles race
for three jobs, so that one thread may do all, and one may return while the
other still works; leases last one tick of two, so that each may run out or
not; `MCExp` is exact at zero and huge at the clamp, the only two ratios that
occur. In `capture` two tasks of up to two turns, two runs, one prompt whose hash
is all digits, tool calls in pairs and two faults let a late record of one run
meet the answers of another and a merge see both. In `reports` two captures of
two tasks cover turns without probes, without prompts, without routing and a
task without trajectory, a message of two tokens that starts or ends a response,
and two layers; two builds and two jobs give every pair of generations, one
pairing each outcome. In `publish` four starts in all, of reports, dashboards and
publications, admit two builds or two reports beside a publication, three
replicates, and reports replaced between two builds; two tasks share a file
name. Deadlock checking is on except in `simulation`, `capture`, `reports` and
`publish`, which end when everything allowed has been started: the other models
never stop, since a worker can always register.

Fairness (`Fairness` in `WorkerBroker`): time passes and somebody keeps calling
the two sweeps. Nothing is asked of workers. No code in the repository calls
the sweeps outside tests, so liveness is conditional on a deployment with a
maintenance loop; weak fairness is enough
because nothing disables a sweep once it is started, and the lock is released
by every method.

Fairness of `MarketplaceSimulation`: every thread that can move does so in the
end, and so does the main thread, which is what the interpreter's scheduler
gives threads that only wait for locks held briefly. For the judgement it is
stated on the stage alone (`LeaveJudgement`), which is enabled exactly when
`JudgeGroup` is, so that TLC need not judge a group to know it. `Tick` has no
fairness. `SimulationEnds` also says that no submission is ever refused: the
thread would be stuck.

### Disagreements

Two are shown by a run:

* `WorkersNeverHeardOfDie`: the comment at `worker_broker.py:407-408` says a
  worker without heartbeat is declared dead once the registry has held it
  longer than the TTL; line 409 skips it without any such test.
* `FetchesAreNotDisturbed`: `livestore.py:62-64` calls the store safe to use
  across the registry, the dispatcher and the trainer client; `fetch` bypasses
  its lock and raises when a group is submitted during its scan.

The others were met while modelling, and the models follow the code:

* `contracts.py:150-153` gives the idempotency key the purpose that retries do
  not produce duplicate work; `acquire_lease` never looks at the keys, so a job
  under a finished key is leased, worked on, refused at submission and, after
  its lease has expired, leased again.
* `livestore.py:12-13` says rejected groups are never served; `fetch` checks the
  state in one loop and counts and returns in another, so a rejection in between
  comes too late.
* `pool_reload.py:53-54` promises the highest version with k acks; without
  candidates, `pool_active_version` tries versions in the reverse order of the
  workers in `_acks`, which a late ack of an older version puts first. (The
  method's own docstring advises callers to pass a list.)
* `fill_prompt_token_ids.py:6-7` speaks of the exact prompt; the prior messages it
  renders have neither the system prompt nor the tools that both drivers send.
  `DenseReportsCompareAlike` therefore allows the two contexts of a filled
  prompt to differ by `Header`.
* `run_id` is `<engine>-<task>` (`hermes_agent_runner.py:271`), so an index built
  before a new capture still finds its trajectories by `run_id` and joins the
  new ones. The routing comparison is stated for trajectories that are still
  those the index was built from.
* `_engine_filter.py:54-59` says blocked pairs never reach the rendered HTML; the
  dense page falls back to figures over all pairs when there is no headline
  pair (`dense_dashboard.py:386-392`), and so do the figures of the index
  (`publish_dashboards.py:147,155`).
* The tiles of the index lead to the dense and router pages also when these were
  not there to be copied.

## 4. Proofs

`WorkerBrokerProofs` assumes only `BrokerAssumption` and `StoreAssumption`.

* `TypeCorrect`: `TypeOK` is inductive only together with `QueueListsJobsOnce`
  (that a queued job is a known one makes the content copied into a lease a job
  specification); `QueueListsOnce` states the latter alone.
* `PromiseKept`: `LeasePromise` is inductive given types. `KindsOfSteps` first
  reduces every action to one of four things it can do to leases and leased
  jobs: nothing, issue one for a free job, submit one in progress, or close a
  set of those in progress. Its second conjunct, that `leasedJobs` are exactly
  the jobs of holding leases, is what the first needs when a lease is issued.
* `SubmittedOnce`: the four conjuncts of `SubmittedOncePerKey` are inductive
  together: that a bound key has a submitted lease and that stored groups are
  those of submitted leases exclude the second submission.
* `DeadHaveNoWork`, `EndOnce`: from types, action by action.
* `AuditIsFaithful`: `AuditTellsTheState` is split into what the log says of
  workers (`WorkersAudited`) and of leases (`LeasesAudited`), each inductive given
  types. The latter is that a lease's last event is the one that belongs to its
  state, and follows from `KindsOfSteps` and the lemmas on ending leases.
* `Refinement` (from `MarketAssumption` too): the refinement mapping chooses a
  lease, so `JobFacts` first restates it without choice: `MarketInv` (types,
  queue, lease promise and key table) leaves a job with at most one lease that
  counts, and holder and product are read off that one. Then a submitted job maps
  to `Enqueue` or, if it was known, a stutter; `AcquireLease` to `Grant`,
  `SubmitGroup` to `Deliver` or a stutter for a key that is bound, a failure report
  and each sweep to `HandBack` of the jobs it frees, everything else to a stutter.
  `JobUntouched` says that a job none of whose leases changes keeps its holder.
* `OnlyTheOverdue`: needs that `ref_now` never lies in the future
  (`RefNowInductive`) and that being overdue at an earlier time means being
  overdue now.

`TrainingLoopProofs` proves all four properties of the store from
`StoreAssumption`, for any way to use it (`Spec` of `LiveStore`), and that the loop
is such a way (`TheLoopUsesTheStore`). `TypeOK` and `OneTypedRecordPerGroup` are inductive; the two
action properties follow from them action by action. The work is in the lemmas
on `GetBatch`, which say that a batch holds servable positions only and every
servable position before its last one, from the cardinality bound in `Batch`.

`TrainerClientProofs` proves `TrainerClient` from `ClientAssumption`, which asks for
finitely many trainers (without it the number of deliveries has no meaning).
`BatchesAnswer` rests on `FetchInv`, one invariant per call and phase: the batch
lists increasing positions behind the iterator, of groups of the version asked for
(`BatchOK`); while scanning, whatever the call could have picked at every moment of
it is ahead of the iterator or in the batch (`ScanOK`); after it, what was left out
lies behind a full batch (`NothingSkipped`). That a filter only reads what a
record keeps, and that the store never shortens or reorders the records, is what
makes these hold while others submit and transition.
`ServedAccountsForDelivered` counts: `served_count` of a record is the number of
deliveries plus the number of calls that have counted it and not yet returned.
`CountAdds` and `ReturnMoves` say how a step moves one call between these.

`PolicyRolloutProofs` proves from `RolloutAssumption` that types are kept, that
`Pinned` is inductive (an ack is recorded only if it agrees with the pinned
digest, or pins it), and that `LatestHasAFile` follows from the stronger
`VersionFileFirst`, which also says that a publication past its first step has
its file, so that crashes and later publications cannot undo it.
`QuorumDecides` proves `ActiveIffQuorum` from types and `OrderListsAckers`, that the
order in which versions are looked at lists just the workers that acknowledged:
every acknowledged version has a first place in it, these places differ, and the
version with a quorum whose place is last is the one the search returns. The
library has no greatest element of a finite set of naturals; it is proved from
the well-foundedness of the naturals and of finite subsets.

`ValidityProofs` is about the two functions that judge a group, and about the
threads that use them, for any `Exp`:

* `decide_group`: `TrainIffWithinBudget` (plain training is recommended exactly
  when no limit is exceeded, although the limits sit in four branches) and
  `DecideIsMonotone` (a report that exceeds every limit another exceeds gets no
  milder action). Both reduce `Decide` to which of the sets of reasons are empty,
  and these to the limits.
* The contract check: `FirstFailureDecides` and `CleanIffHonoured`, which says that
  the early returns together let through just the groups that honour their lease
  (`Honours`), and that the reason is never "none" where a check fails: the tenth
  check takes its reason from the first defective trajectory.
* The simulation, from `SimulationAssumption`, for any workers, jobs and TTL:
  `ValidatorFits` computes the check for each profile, through
  `FirstFailureDecides`. `SimulationInv` says that a thread at work holds its own
  lease, and that what it has decided, and what the store holds, was judged under
  that lease at some time up to now (`AtWork`, `JudgedInTime`); the instance of
  `WorkerBroker` matters only in that leases stay what they are (`FetchEffect`,
  `SubmitEffect`). `SimulationTypeCorrect` and `ToxicAreRejected` follow for any
  `Exp`. `EveryVerdictFits` (`VerdictsFitProfiles`) needs to know what the budget
  makes of the three groups that pass the check, which is a fold over their
  tokens: `CleanAsIntended` is its hypothesis, about three fixed groups and `Exp`
  alone. With the `Exp` of `MCMarketplaceSimulation` it is true, as the run of
  `VerdictsFitProfiles` shows: each of these groups is stored in it before its
  lease runs out.
* `EveryJobIsAnsweredFor` (`ReportAddsUp`): the report counts the list of submissions,
  the audit log and the store at different times. `LedgerInv` keeps these books
  in step while threads are between them. Every job is leased once, and no thread
  returns before all of them are (`JobsLedger`). As many leases are audited as
  submitted as there are groups (`AuditLedger`). Every lease is at work or answered
  for in the store, and a group in the store is noted in the list or about to be,
  status by status (`DecisionLedger`). When all threads have returned, nothing is
  at work or to be noted, and the books are equal. The totals of the report are sums
  over bags; `SumOfBag` takes the fold they are defined by apart and shows
  that such a sum is the number of places of the sequence.

`TrainingLoopProofs` also proves `FeedbackCountsOnce`, from `FeedbackAssumption` alone,
for any groups, workers, trainers and reasons. The inductive invariant says that
`seen` is exactly the set of groups with a first verdict, that it is finite, and
that every tally of a table entry is the cardinality of the part of `seen` it names
(the groups under that key, those accepted, those refused for a reason). A first
report adds one new element to some of these parts, a duplicate adds none; the
assumption that a missing reason is not a trainer's reason keeps an accepted
group out of the tallies by reason.

`CapturePipelineProofs` proves all four invariants of `CapturePipeline` from
`CaptureAssumption`, for any number of tasks, runs, turns and faults. That an answer
in a conversation is in the sidecar (`AnswersAreCaptured`) is not inductive: the
driver takes in what its request brought, and the request must have been recorded
before. `CaptureInv` has four parts. `Typed` is the shape of processes and files.
`DriverOnTrack` says that a driver works on each task once and has a turn left for
the one at hand, which bounds turns and conversations. `OneRequest` says that of all
requests that are still alive, those of earlier runs and of turns given up included,
at most the one the driver waits for can be taken in; it needs `DriverOnTrack` to
exclude an abandoned request for a task that comes again. `CapturedFirst` is the
property for captured requests, the conversation at hand and the output file.

What a trajectory file tells is fixed when the merge reads its input, long after the
answers were given, so the other three properties need to know that the past stays
as it is. An answer is of the `Past` when its turn is over and no request for it is
alive; it then stays so (`PastStays`), and the sidecar gains no record of it any more
(`RecordsStay`). `PipelineInv` adds to `CaptureInv`

* `SidecarFits`: a record is under its task's hash, or a driver wrote it itself and
  its answer is of the past;
* `RecordsFit`: the messages of the driver and every record it wrote tell one run of
  one task turn by turn (`Tells`), of answers of the past that the sidecar has under
  no other key than the record's own, and end as the record says (`EndsWell`);
* `ListsFit`: the i-th record is of the i-th task, or the driver was left with one
  task out of several, and then the merge refuses its file for its length;
* `FilesFit`: the three properties for all files, the pending ones of a merge included.

The merge itself is a fold. `AdaptedInOrder` takes it apart: from the definition of
`FoldLeft` in the community modules, with the adapter in the place of its operator, it
derives the sequence of intermediate results, and `Adapted` goes along that sequence
by least counterexample (`LeastNatural`, from the library's well-founded order of the
numbers), which replaces the induction theorems. `ProbesOfStep` then says why the
probes are the answer's: records that agree in kind of key and turn are one record, or
`HasDuplicate` would have refused the merge.

`MismatchReportsProofs` proves all five invariants of `MismatchReports` from
`ReportsAssumption`, for any tasks, precisions, layers and scripts and any number of
runs of the stages. None of the five is inductive, for a file does not say what
the directory looked like that it was made from. `ReportsInv` is that there is a
history (`EveryFileIsExplained`): a list `taken` of captures and a list `made` of the
directories that builds have read, such that

* every trajectory, in use or read by a build, is what the capture of its number left
  for its task, with some prompts filled in (`DirectoryOf`, `CapturedOrFilled`);
* rollouts, indexes (also one that is still to be written), the FSDP scripts' input,
  the file a job has read, scores and traces are computed from `made` of their build
  (`RolloutsFile`, `IndexFile`, `ScoresFile`, `RoutesFile`);
* every report, written or pending, satisfies `GoodReport`, which is what the types
  and the two comparisons say of it.

A capture and a build append to one list each, and what was explained by the shorter
list is by the longer one (`DirectoryStays`, `FilesStay`). The reports are then a matter
of operators. `TurnHas` says that what a step has for the trainers follows from
`taken` but for its prompt, which is missing, the captured one or the prior
messages. `KeepsTurns` and `EntriesMade` say that kept and skipped turns are all turns
of the directory, each once, and that entry *i* of index and rollouts file mean the
same one. `ScoresCompare` and `RoutesCompare` do the arithmetic of positions: the
prediction of the *i*-th response token has seen the prompt and *i* - 1 tokens of the
response on both sides, and the last R of the P + R - 1 positions FSDP traces are the
R positions Megatron and the proxy look at (`LastRoutes`). A Megatron trace that lacks a
layer has rows that are too short, and `MoePairs` refuses it unless there is none to
lack (`WindowFits`, `EveryLayer`).

Turns are picked from sequences that are put together of others. `Flattened` says
what `FlattenSeq` of the community modules gives (its members, without repetition if
the parts are disjoint, as many as parts only if every part has one), and
`Selected` the same of `SelectIn`. The model defines `SelectIn` with `FlattenSeq`
and does not use `SelectSeq` of the standard modules, of which the prover knows no
definition.

`DashboardPublishingProofs` proves all three properties of `DashboardPublishing`
from `PublishingAssumption`, for any subjects, cards, tiles and any number of runs.
`PublishingInv` consists of

* `ReportsOK`: reports are finitely many, each of its own run, and no two
  directories changed at the same time, so "the latest" is unique;
* `Shapes`: the records and functions that programs and files are;
* `BuildsInOrder`: files are of builds that were started, and a page is never newer
  than its data. `CardsInOrder` carries this through a publication, step by step:
  between the copy of a page and the reading of its data a dashboard command may
  only have replaced the data by later ones (`DataIsReplacedByLater`);
* `ContentsFit`: there is a function `made` from builds to what they loaded, such
  that pages, data, payload and tiles, in `runs/` and in `docs/`, are computed from
  `made` of their build. The model has no such history; the existential makes "of
  the same build" imply "of the same reports", and `StartBuild` extends it;
* `PagesOK`: published and pending agent pages are together those of the scan, each
  of a latest report, and a report that was found stays there.

`SiteAgrees`, `LatestShown` and `PublishingTypeCorrect` follow. That tile and page
agree uses that a blocked pair has no tile (assumed, as `publish_dashboards.py`
lays it out) and that counting rows is counting their numbers (`Numbers`).

Assumptions on constants only say which sets the constants are from, that null
values are not among the real ones, and that finite things are finite; TLC
evaluates every one of them on the runs.

Every safety property that a passing run checks, invariant or action property, is
a theorem. Only model-checked:

* all liveness (out of the prover's reach);
* `CleanAsIntended`, a hypothesis of `EveryVerdictFits`: for the `Exp` of
  `MCMarketplaceSimulation` a computation, folds over three groups of tokens;
* the two runs that end in a violation, which are about one behaviour each.

TLC cannot check `ReportsInv` and `ContentsFit` as they stand, since they speak of
histories the models do not have; it checks what follows from them.

## 5. Plan

Left to do: `ComputeReport` of `Validity` over enumerated groups against a reference
definition, beyond the profiles of the simulation.

## 6. Not modelled

* The numbers: statistics of `mismatch_metrics.py`, of the labs and of the
  tokenwise verifier are floating-point sums, of which the models keep what they
  are computed from. NaN is not modelled.
* The comparison of two agents' trajectories (`compute_trajectory_divergence`) and
  the probing of an endpoint: one report computed from its inputs, without state.
* The inside of the GPU runners: torch, Megatron and vLLM with their hooks and
  patches, process launching on hosts; `run_vllm_rollout.py` and `run_moe_router.py`
  as standalone experiments.
* Rendering: wording, layout, charts, style, the glossary and the static file
  server. Argument parsing.
* `marketplace_real.py` and `three_workers_demo.py`, which run modelled components
  one after the other on recorded or made-up data.
* Torn JSON files between the capture scripts (a reader raises); two builders,
  two dashboard commands or two publications at once, which no script starts.

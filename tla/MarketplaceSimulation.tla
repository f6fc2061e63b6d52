----------------------- MODULE MarketplaceSimulation -----------------------
(***************************************************************************)
(* run_simulation (observatory/marketplace_simulation.py): one thread per   *)
(* worker takes leases from the broker, makes a group as its profile has    *)
(* it, judges it (Validity), submits it and notes the decision in a list    *)
(* under a lock, until there is no lease for it; the main thread joins them *)
(* and reports.  A step is what a thread does between two accesses to what  *)
(* the threads share: the barrier, the clock, the broker and the list.      *)
(*                                                                          *)
(* Log-probabilities are in tenths; the jitter of honest ones rounds to 0.  *)
(***************************************************************************)
EXTENDS Validity

CONSTANTS
  Workers,
  NumJobs,
  LeaseTTL,
  MaxTime,     \* bound: leases issued at 0 may expire within it
  NoManifest, NoJob, NoGroup, NoEvent, Never,   \* of WorkerBroker
  NoDecision, NoResult

VARIABLES
  clock, workers, heartbeats, dead, jobs, queue, leasedJobs, leases, keyOf,
  records, refNow, workerAudit, leaseAudit,     \* of WorkerBroker
  profile,     \* the behaviour of each worker
  stage,       \* where each thread is
  lease,       \* the lease each thread works on; 0 for none
  decision,    \* what it decided about its group
  submissions, \* the list out
  result       \* what run_simulation returns

Profiles == {"honest", "noisy", "stale", "toxic_tokenizer", "toxic_precision",
             "toxic_no_logprobs", "toxic_version_drift"}
Stages == {"started", "barrier", "fetch", "judge", "submit", "note", "returned"}
Jobs == 1 .. NumJobs

ASSUME SimulationAssumption ==
  /\ Workers # {} /\ IsFiniteSet(Workers)
  /\ NumJobs \in Nat /\ LeaseTTL \in Nat \ {0} /\ MaxTime \in Nat
  /\ {Clean, NoReason} \cap RejectionReason = {}

\* A job is leased at most once, its key is its own, and the group made under
\* a lease has the id of the lease.
Broker == INSTANCE WorkerBroker WITH
  Keys <- Jobs, Groups <- Jobs, MaxLeases <- NumJobs,
  RejectionReasons <- RejectionReason, Manifests <- {}, JobSpecs <- {},
  DecisionPool <- {}, HeartbeatTTL <- 4 * LeaseTTL, BeatDelay <- 0,
  MaxBatch <- 0, MaxServed <- 0

brokerVars == <<clock, workers, heartbeats, dead, jobs, queue, leasedJobs, leases,
                keyOf, records, refNow, workerAudit, leaseAudit>>
vars == <<brokerVars, profile, stage, lease, decision, submissions, result>>

----------------------------------------------------------------------------
\* What the workers are given and what they make

WorkerManifest == [precisions |-> {"bf16"}, quantizations |-> {},
                   context |-> 8192, engine |-> "vllm"]

Job(j) == [key |-> j, precision |-> "bf16", quantization |-> "",
           context |-> 4096, engines |-> {"vllm"}]

Manifest == [version |-> "v0001", digest |-> "sim-ckpt", tokenizer |-> "tok-honest"]

\* What the validator reads of a lease.
ContractUntil(expires) ==
  [version |-> "v0001", precision |-> "bf16", quantization |-> "",
   size |-> 2, context |-> 4096, expires |-> expires]

Logprobs(p) == CASE p = "noisy"             -> <<-4, -3, -250>>
                 [] p = "toxic_no_logprobs" -> <<0, 0, 0>>
                 [] OTHER                   -> <<-4, -3, -5>>

MakeGroup(p) ==
  [version      |-> IF p = "toxic_version_drift" THEN "v9999" ELSE "v0001",
   digest       |-> "sim-ckpt",
   tokenizer    |-> IF p = "toxic_tokenizer" THEN "tok-INVALID" ELSE "tok-honest",
   precision    |-> IF p = "toxic_precision" THEN "fp16" ELSE "bf16",
   quantization |-> "",
   prompt       |-> 4,
   lag          |-> IF p = "stale" THEN 12 ELSE 1,
   trajectories |-> [i \in 1 .. 2 |-> [k \in 1 .. 3 |->
                      [logprob |-> Logprobs(p)[k], action |-> TRUE, tool |-> FALSE]]]]

TrainLogprobs(group) ==
  FlattenSeq([i \in DOMAIN group.trajectories |->
    [k \in 1 .. Len(SelectSeq(group.trajectories[i], IsPolicyToken)) |->
       <<-4, -3, -5>>[((k - 1) % 3) + 1]]])

DefaultPolicy == [clamp |-> 200, minEss |-> 30, replayEss |-> 60,
                  maxClipped |-> 10, maxLag |-> 8, replayLag |-> 4,
                  veto |-> 300, maxFlip |-> 15]

\* _decide_for_clean_group
DecideForCleanGroup(group) ==
  Decide(ComputeReport(group, TrainLogprobs(group), NoFlipRate, DefaultPolicy),
         DefaultPolicy)

\* What a worker decides about its group.
Judge(group, expires, now) ==
  LET reason == Validate(group, ContractUntil(expires), Manifest, now)
  IN  IF reason # Clean THEN Reject(reason) ELSE DecideForCleanGroup(group)

----------------------------------------------------------------------------
\* The worker threads

Goto(w, s) == stage' = [stage EXCEPT ![w] = s]

ReachBarrier(w) ==
  /\ stage[w] = "started"
  /\ Goto(w, "barrier")
  /\ UNCHANGED <<brokerVars, profile, lease, decision, submissions, result>>

AllArrived_StillThere == \A w \in Workers : stage[w] = "barrier"  \* (mutant)

AllArrived == \A w \in Workers : stage[w] # "started"

PassBarrier(w) ==
  /\ stage[w] = "barrier" /\ AllArrived
  /\ Goto(w, "fetch")
  /\ UNCHANGED <<brokerVars, profile, lease, decision, submissions, result>>

FetchLease(w) ==
  /\ stage[w] = "fetch"
  /\ Broker!AcquireLease(w)
  /\ lease' = [lease EXCEPT ![w] = Len(leases) + 1]
  /\ Goto(w, "judge")
  /\ UNCHANGED <<profile, decision, submissions, result>>

\* fetch_lease returns None, and the thread returns for good.
FetchNothing(w) ==
  /\ stage[w] = "fetch"
  /\ Broker!Eligible(w) = {}
  /\ Goto(w, "returned")
  /\ UNCHANGED <<brokerVars, profile, lease, decision, submissions, result>>

LeaveJudgement(w) == stage[w] = "judge" /\ Goto(w, "submit")

\* The group is made and judged at the time read for the validator.
JudgeGroup(w) ==
  /\ LeaveJudgement(w)
  /\ decision' = [decision EXCEPT ![w] =
       Judge(MakeGroup(profile[w]), leases[lease[w]].expires, clock)]
  /\ UNCHANGED <<brokerVars, profile, lease, submissions, result>>

\* If the broker or the store refused the group, the thread would die here.
SubmitGroup(w) ==
  /\ stage[w] = "submit"
  /\ Broker!SubmitGroup(w, lease[w], lease[w],
       [status |-> decision[w].status, rejection |-> decision[w].rejection])
  /\ Goto(w, "note")
  /\ UNCHANGED <<profile, lease, decision, submissions, result>>

NoteDecision(w) ==
  /\ stage[w] = "note"
  /\ submissions' = Append(submissions,
       [worker |-> w, profile |-> profile[w], decision |-> decision[w]])
  /\ Goto(w, "fetch")
  /\ lease' = [lease EXCEPT ![w] = 0]
  /\ decision' = [decision EXCEPT ![w] = NoDecision]
  /\ UNCHANGED <<brokerVars, profile, result>>

----------------------------------------------------------------------------
\* The main thread and time

AllReturned_NoWorkLeft == leasedJobs = Jobs  \* (mutant)

AllReturned == \A w \in Workers : stage[w] = "returned"

\* The threads are joined, then the decisions, the store and the audit log
\* are counted; a Counter is a bag.
ReportResult ==
  LET decisions == [i \in DOMAIN submissions |-> submissions[i].decision]
  IN  /\ AllReturned /\ result = NoResult
      /\ result' = [submissions |-> Len(submissions),
           byAction   |-> ToBag([i \in DOMAIN submissions |->
                            <<submissions[i].profile, decisions[i].action>>]),
           rejections |-> ToBag([i \in DOMAIN decisions |-> decisions[i].rejection]),
           byState    |-> ToBag([i \in DOMAIN records |-> records[i].state]),
           audit      |-> ToBag(leaseAudit)]
      /\ UNCHANGED <<brokerVars, profile, stage, lease, decision, submissions>>

\* Time passes at any point; later leases keep their deadline in the horizon.
Tick ==
  /\ clock + LeaseTTL < MaxTime
  /\ Broker!Tick
  /\ UNCHANGED <<profile, stage, lease, decision, submissions, result>>

\* The state after _build_workers and the submission of the jobs, when the
\* main thread has made the threads.
Init ==
  /\ clock = 0
  /\ workers = [w \in Workers |-> WorkerManifest]
  /\ heartbeats = [w \in Workers |-> 0]
  /\ dead = {}
  /\ jobs = [j \in Jobs |-> Job(j)]
  /\ queue = [j \in Jobs |-> j]
  /\ leasedJobs = {}
  /\ leases = << >>
  /\ keyOf = [j \in Jobs |-> NoGroup]
  /\ records = << >>
  /\ refNow = [s \in Broker!Sweeps |-> Never]
  /\ workerAudit = [w \in Workers |-> "worker_registered"]
  /\ leaseAudit = << >>
  /\ profile \in [Workers -> Profiles]
  /\ stage = [w \in Workers |-> "started"]
  /\ lease = [w \in Workers |-> 0]
  /\ decision = [w \in Workers |-> NoDecision]
  /\ submissions = << >>
  /\ result = NoResult

\* The steps of a thread that touch what is shared.
SharedStep(w) ==
  \/ ReachBarrier(w)
  \/ PassBarrier(w)
  \/ FetchLease(w)
  \/ FetchNothing(w)
  \/ SubmitGroup(w)
  \/ NoteDecision(w)

Next == (\E w \in Workers : SharedStep(w) \/ JudgeGroup(w)) \/ ReportResult \/ Tick

\* The threads run: none of them is kept from its next step for ever.
Spec == /\ Init /\ [][Next]_vars
        /\ \A w \in Workers : WF_vars(SharedStep(w)) /\ WF_stage(LeaveJudgement(w))
        /\ WF_vars(ReportResult)

----------------------------------------------------------------------------
\* Properties

DecisionType == [status : Broker!Store!GroupStatus,
                 action : {"train", "train_with_correction", "replay",
                           "quarantine", "reject"},
                 rejection : RejectionReason \cup {NoReason},
                 reasons : SUBSET {"within_budget", "high_clipped_fraction",
                   "low_ess", "replay_tier_lag", "replay_tier_ess",
                   "stale_policy_lag", "veto_threshold_exceeded",
                   "high_router_flip_rate"}]

\* Types, with the rule of GroupDecision (contracts.py:348-356): a decision
\* has a rejection reason exactly when it rejects, and then no others.
TypeOK ==
  /\ profile \in [Workers -> Profiles]
  /\ stage \in [Workers -> Stages]
  /\ lease \in [Workers -> 0 .. Len(leases)]
  /\ decision \in [Workers -> DecisionType \cup {NoDecision}]
  /\ \A w \in Workers : decision[w] # NoDecision =>
       /\ Broker!Store!Typed(decision[w].status, decision[w].rejection)
       /\ decision[w].status = "rejected" <=> decision[w].reasons = {}
  /\ submissions \in Seq([worker : Workers, profile : Profiles,
                          decision : DecisionType])

\* The verdict each profile is written to provoke (marketplace_simulation.py:
\* 59-68, tests/test_marketplace_simulation.py:42-89).
Intended(p) ==
  CASE p = "honest"              -> <<"accepted", NoReason>>
    [] p = "noisy"               -> <<"correctable", NoReason>>
    [] p = "stale"               -> <<"quarantined", NoReason>>
    [] p = "toxic_tokenizer"     -> <<"rejected", "tokenizer_mismatch">>
    [] p = "toxic_precision"     -> <<"rejected", "precision_mismatch">>
    [] p = "toxic_no_logprobs"   -> <<"rejected", "missing_logprobs">>
    [] p = "toxic_version_drift" -> <<"rejected", "policy_version_mismatch">>

\* Whatever the interleaving, a stored group is judged as the profile of the
\* worker that made it asks for, unless its lease had run out.
VerdictsFitProfiles ==
  \A i \in DOMAIN records :
    LET l == records[i].group
    IN  \/ <<records[i].state, records[i].rejection>>
             = Intended(profile[leases[l].worker])
        \/ records[i].rejection = "expired_lease" /\ Broker!IsExpired(l, clock)

\* A Counter answers 0 for what it never counted.
Copies(e, bag) == IF e \in DOMAIN bag THEN bag[e] ELSE 0

\* Every job is answered for in the report: one submission of each, one entry
\* of the audit log for each, and the store agrees with the decisions counted
\* (tests/test_marketplace_simulation.py:35-37, 91-113).
ReportAddsUp ==
  result # NoResult =>
    LET Acted(as) == SumFunctionOnSet(result.byAction,
                       {k \in DOMAIN result.byAction : k[2] \in as})
    IN  /\ result.submissions = NumJobs
        /\ Copies("lease_submitted", result.audit) = NumJobs
        /\ Copies("rejected", result.byState) = Acted({"reject"})
        /\ Copies("rejected", result.byState) =
             NumJobs - Copies(NoReason, result.rejections)
        /\ Copies("quarantined", result.byState) = Acted({"quarantine"})
        /\ Copies("correctable", result.byState) = Acted({"train_with_correction"})
        /\ Copies("accepted", result.byState) = Acted({"train", "replay"})

\* The simulation ends: no thread is stuck at the barrier or dies of a refused
\* submission, none returns while it is needed, and the report is made.
SimulationEnds == <>(result # NoResult)
=============================================================================

---------------------------- MODULE WorkerBroker ----------------------------
(***************************************************************************)
(* LocalWorkerBroker (worker_broker.py): the registry of workers, their     *)
(* heartbeats, the job queue, the leases and the audit log, all behind one  *)
(* re-entrant lock.  Every public method is one action, except the two      *)
(* sweeps: reap_expired and abandon_stale_workers read the clock before     *)
(* they wait for the lock, so a sweep is a StartSweep step and, any time    *)
(* later, the sweep itself, working with the time it read.  A call that     *)
(* raises changes nothing and is not a step.                                *)
(*                                                                          *)
(* uuid4 lease ids are the positions in the sequence leases.  Of the audit  *)
(* log the model keeps the last event recorded about each worker and about  *)
(* each lease.  A definition marked (mutant) is a slip the definition after *)
(* it might have had; no specification uses it.                             *)
(***************************************************************************)
EXTENDS Integers, Sequences

CONSTANTS
  Workers, Jobs, Keys, Groups, RejectionReasons,
  Manifests,          \* the capability declarations a worker may publish
  JobSpecs,           \* the contents a RolloutJob may have
  DecisionPool,       \* the decisions workers bring with their groups
  NoManifest, NoJob, NoGroup, NoReason, NoEvent,   \* "not in the dict", None
  Never,              \* no heartbeat yet; no sweep under way
  LeaseTTL,           \* lease_ttl_s
  HeartbeatTTL,       \* heartbeat_ttl_s
  BeatDelay,          \* bound: how late a heartbeat reaches the broker
  MaxTime,            \* bound: the horizon of the clock
  MaxLeases,          \* bound: how many leases are issued
  MaxBatch, MaxServed \* bounds of LiveStore, which this module never reaches

VARIABLES
  clock,        \* wall clock, read by every method
  workers,      \* _workers: the manifest of each registered worker
  heartbeats,   \* _heartbeats: last_seen_at of the beat on record
  dead,         \* _dead_workers
  jobs,         \* _jobs: the content of each known job
  queue,        \* _jobs: the insertion order of its keys
  leasedJobs,   \* _leased_job_ids
  leases,       \* _leases, in the order they were issued
  keyOf,        \* _idempotency_keys: the group each key is bound to
  records,      \* the records of the LiveStore behind the broker
  refNow,       \* ref_now of each sweep under way
  workerAudit,  \* _audit: the last event about each worker
  leaseAudit    \* _audit: the last event about each lease

Store == INSTANCE LiveStore

Time == 0 .. MaxTime
Sweeps == {"reap", "abandon"}
LeaseState == {"issued", "submitted", "expired", "abandoned", "failed"}
WorkerEvents == {"worker_registered", "worker_revived", "worker_marked_dead"}

ManifestType == [precisions : SUBSET STRING, quantizations : SUBSET STRING,
                 context : Nat, engine : STRING]
JobType == [key : Keys, precision : STRING, quantization : STRING,
            context : Nat, engines : SUBSET STRING]

ASSUME BrokerAssumption ==
  /\ LeaseTTL \in Nat \ {0}      \* expires_at is strictly after issued_at
  /\ {HeartbeatTTL, BeatDelay, MaxTime, MaxLeases} \subseteq Nat
  /\ Never \notin Int
  /\ NoManifest \notin Manifests
  /\ NoJob \notin JobSpecs
  /\ NoGroup \notin Groups
  /\ NoEvent \notin WorkerEvents
  /\ \A spec \in JobSpecs : spec.key \in Keys
  /\ DecisionPool \subseteq Store!Decisions

workerVars == <<workers, heartbeats, dead, workerAudit>>
jobVars == <<jobs, queue>>
leaseVars == <<leasedJobs, leases, leaseAudit>>
storeVars == <<keyOf, records>>
timeVars == <<clock, refNow>>
vars == <<workerVars, jobVars, leaseVars, storeVars, timeVars>>

----------------------------------------------------------------------------
\* Helpers

Registered(w) == workers[w] # NoManifest
Known(j) == jobs[j] # NoJob
Issued(l) == leases[l].state = "issued"
Submitted(l) == leases[l].state = "submitted"

\* _capabilities_match; "" is a quantization class that is not required and
\* the empty set of engines allows every engine.
CapabilitiesMatch(job, manifest) ==
  /\ job.precision \in manifest.precisions
  /\ job.context <= manifest.context
  /\ job.quantization # "" => job.quantization \in manifest.quantizations
  /\ job.engines # {} => manifest.engine \in job.engines

\* RolloutLease.is_expired at time now.
IsExpired(l, now) == now >= leases[l].expires

\* age > heartbeat_ttl_s, for a worker with a beat on record.
IsStale(w, now) == heartbeats[w] # Never /\ now - heartbeats[w] > HeartbeatTTL

\* worker_health
WorkerHealth(w, now) ==
  CASE w \in dead                              -> "dead"
    [] w \notin dead /\ heartbeats[w] = Never  -> "unknown"
    [] w \notin dead /\ IsStale(w, now)        -> "stale"
    [] OTHER                                   -> "active"

MayAcquire_DeadToo(w) == Registered(w)  \* (mutant)

\* Who may be given work, and who may end lease l.
MayAcquire(w) == Registered(w) /\ w \notin dead

MayEnd_AnyState(w, l) == Registered(w) /\ leases[l].worker = w  \* (mutant)

MayEnd(w, l) == Registered(w) /\ leases[l].worker = w /\ Issued(l)

KeyAdmits_Any(l, g) == l \in DOMAIN leases /\ g \in Groups  \* (mutant)

\* The key of lease l is free, or bound to this very group.
KeyAdmits(l, g) == keyOf[leases[l].key] \in {NoGroup, g}

ExpiredLeases_OfSeenWorkers(now) ==  \* (mutant)
  {l \in DOMAIN leases : /\ Issued(l) /\ IsExpired(l, now)
                         /\ heartbeats[leases[l].worker] # Never}

\* What the two sweeps, working with time now, take as overdue.
ExpiredLeases(now) == {l \in DOMAIN leases : Issued(l) /\ IsExpired(l, now)}

LapsedWorkers_NeverSeenToo(now) ==  \* (mutant)
  {w \in Workers : /\ Registered(w) /\ w \notin dead
                   /\ heartbeats[w] = Never \/ IsStale(w, now)}

LapsedWorkers_Leasing(now) ==  \* (mutant)
  {w \in Workers : /\ Registered(w) /\ w \notin dead /\ IsStale(w, now)
                   /\ \E l \in DOMAIN leases : leases[l].worker = w}

\* A worker without a heartbeat is skipped, however long it is registered.
LapsedWorkers(now) ==
  {w \in Workers : Registered(w) /\ w \notin dead /\ IsStale(w, now)}

Eligible_LeasedToo(w) ==  \* (mutant)
  {i \in DOMAIN queue : CapabilitiesMatch(jobs[queue[i]], workers[w])}

\* The places in the queue of the jobs acquire_lease may give to w.
Eligible(w) == {i \in DOMAIN queue :
                  /\ queue[i] \notin leasedJobs
                  /\ CapabilitiesMatch(jobs[queue[i]], workers[w])}

\* The leases of L end in state s without a group: the records are closed,
\* the jobs go back to the queue and every ending is audited.
Close(L, s, event) ==
  /\ leases' = [l \in DOMAIN leases |->
                  IF l \in L THEN [leases[l] EXCEPT !.state = s] ELSE leases[l]]
  /\ leaseAudit' = [l \in DOMAIN leaseAudit |->
                      IF l \in L THEN event ELSE leaseAudit[l]]
  /\ leasedJobs' = leasedJobs \ {leases[l].job : l \in L}

NewLease_WholeJob(w, j) ==  \* (mutant)
  [job |-> jobs[j], worker |-> w, key |-> jobs[j].key,
   expires |-> clock + LeaseTTL, state |-> "issued", group |-> NoGroup]

NewLease(w, j) ==
  [job |-> j, worker |-> w, key |-> jobs[j].key, expires |-> clock + LeaseTTL,
   state |-> "issued", group |-> NoGroup]

BeatEvent_Silent(w) == workerAudit[w]  \* (mutant)

\* The audit entry of a beat: only a revival is recorded.
BeatEvent(w) == IF w \in dead THEN "worker_revived" ELSE workerAudit[w]

QueueWith_Appended(j) == Append(queue, j)  \* (mutant)

\* A known job id keeps its place in the OrderedDict.
QueueWith(j) == IF Known(j) THEN queue ELSE Append(queue, j)

----------------------------------------------------------------------------
\* What clients of the broker call

RegisterWorker(w, manifest) ==
  /\ workers' = [workers EXCEPT ![w] = manifest]
  /\ dead' = dead \ {w}
  /\ workerAudit' = [workerAudit EXCEPT ![w] = "worker_registered"]
  /\ UNCHANGED <<heartbeats, jobVars, leaseVars, storeVars, timeVars>>

\* The beat carries the time at which the worker made it.
Heartbeat(w, lastSeen) ==
  /\ Registered(w)
  /\ lastSeen <= clock
  /\ heartbeats' = [heartbeats EXCEPT ![w] = lastSeen]
  /\ dead' = dead \ {w}
  /\ workerAudit' = [workerAudit EXCEPT ![w] = BeatEvent(w)]
  /\ UNCHANGED <<workers, jobVars, leaseVars, storeVars, timeVars>>

\* A known job id gets the new content and keeps its place, and its lease.
SubmitJob(j, spec) ==
  /\ jobs' = [jobs EXCEPT ![j] = spec]
  /\ queue' = QueueWith(j)
  /\ UNCHANGED <<workerVars, leaseVars, storeVars, timeVars>>

\* The first eligible job of the queue, if there is one.  The two bounds end
\* the issuing of leases; every deadline lies within the horizon.
AcquireLease(w) ==
  /\ Len(leases) < MaxLeases /\ clock + LeaseTTL <= MaxTime
  /\ MayAcquire(w)
  /\ \E i \in Eligible(w) :
       /\ \A k \in Eligible(w) : i <= k
       /\ leasedJobs' = leasedJobs \cup {queue[i]}
       /\ leases' = Append(leases, NewLease(w, queue[i]))
  /\ leaseAudit' = Append(leaseAudit, "lease_issued")
  /\ UNCHANGED <<workerVars, jobVars, storeVars, timeVars>>

\* The store refuses a group it already holds before the broker has changed
\* anything.  Neither the deadline nor the worker's health is looked at, and
\* the job stays in leasedJobs for good.
SubmitGroup(w, l, g, decision) ==
  /\ MayEnd(w, l)
  /\ KeyAdmits(l, g)
  /\ Store!Submit(g, decision)
  /\ keyOf' = [keyOf EXCEPT ![leases[l].key] = g]
  /\ leases' = [leases EXCEPT ![l].state = "submitted", ![l].group = g]
  /\ leaseAudit' = [leaseAudit EXCEPT ![l] = "lease_submitted"]
  /\ UNCHANGED <<workerVars, jobVars, leasedJobs, timeVars>>

ReportFailure(w, l) ==
  /\ MayEnd(w, l)
  /\ Close({l}, "failed", "lease_failed")
  /\ UNCHANGED <<workerVars, jobVars, storeVars, timeVars>>

----------------------------------------------------------------------------
\* Maintenance

\* ref_now is read; the lock is not held yet.
StartSweep(s) ==
  /\ refNow[s] = Never
  /\ refNow' = [refNow EXCEPT ![s] = clock]
  /\ UNCHANGED <<clock, workerVars, jobVars, leaseVars, storeVars>>

ReapExpired ==
  /\ refNow["reap"] # Never
  /\ Close(ExpiredLeases(refNow["reap"]), "expired", "lease_expired")
  /\ refNow' = [refNow EXCEPT !["reap"] = Never]
  /\ UNCHANGED <<clock, workerVars, jobVars, storeVars>>

AbandonStaleWorkers ==
  LET stale == LapsedWorkers(refNow["abandon"])
  IN  /\ refNow["abandon"] # Never
      /\ dead' = dead \cup stale
      /\ workerAudit' = [w \in Workers |-> IF w \in stale
                           THEN "worker_marked_dead" ELSE workerAudit[w]]
      /\ Close({l \in DOMAIN leases : Issued(l) /\ leases[l].worker \in stale},
               "abandoned", "lease_abandoned")
      /\ refNow' = [refNow EXCEPT !["abandon"] = Never]
      /\ UNCHANGED <<clock, workers, heartbeats, jobVars, storeVars>>

Tick ==
  /\ clock < MaxTime
  /\ clock' = clock + 1
  /\ UNCHANGED <<refNow, workerVars, jobVars, leaseVars, storeVars>>

----------------------------------------------------------------------------

Init ==
  /\ clock = 0
  /\ workers = [w \in Workers |-> NoManifest]
  /\ heartbeats = [w \in Workers |-> Never]
  /\ dead = {}
  /\ jobs = [j \in Jobs |-> NoJob]
  /\ queue = << >>
  /\ leasedJobs = {}
  /\ leases = << >>
  /\ keyOf = [k \in Keys |-> NoGroup]
  /\ Store!Init
  /\ refNow = [s \in Sweeps |-> Never]
  /\ workerAudit = [w \in Workers |-> NoEvent]
  /\ leaseAudit = << >>

Next ==
  \/ \E w \in Workers :
       \/ \E manifest \in Manifests : RegisterWorker(w, manifest)
       \/ \E t \in Time : t >= clock - BeatDelay /\ Heartbeat(w, t)
       \/ AcquireLease(w)
       \/ \E l \in DOMAIN leases :
            \/ \E g \in Groups, d \in DecisionPool : SubmitGroup(w, l, g, d)
            \/ ReportFailure(w, l)
  \/ \E j \in Jobs, spec \in JobSpecs : SubmitJob(j, spec)
  \/ \E s \in Sweeps : StartSweep(s)
  \/ ReapExpired
  \/ AbandonStaleWorkers
  \/ Tick

Spec == Init /\ [][Next]_vars

\* Time passes and somebody keeps calling the two sweeps.  Nothing is asked
\* of the workers: they may stop at any point.
Fairness ==
  /\ WF_vars(Tick)
  /\ \A s \in Sweeps : WF_vars(StartSweep(s))
  /\ WF_vars(ReapExpired)
  /\ WF_vars(AbandonStaleWorkers)

FairSpec == Spec /\ Fairness

----------------------------------------------------------------------------
\* Properties

Lease == [job : Jobs, worker : Workers, key : Keys, expires : Int,
          state : LeaseState, group : Groups \cup {NoGroup}]

\* The audit event a lease in state s was closed (or issued) with.
LeaseEvent == [s \in LeaseState |->
  CASE s = "issued"    -> "lease_issued"
    [] s = "submitted" -> "lease_submitted"
    [] s = "expired"   -> "lease_expired"
    [] s = "abandoned" -> "lease_abandoned"
    [] s = "failed"    -> "lease_failed"]

\* Type invariant of the broker and of the store behind it.
TypeOK ==
  /\ clock \in Nat
  /\ workers \in [Workers -> Manifests \cup {NoManifest}]
  /\ heartbeats \in [Workers -> Int \cup {Never}]
  /\ dead \subseteq Workers
  /\ jobs \in [Jobs -> JobSpecs \cup {NoJob}]
  /\ queue \in Seq(Jobs)
  /\ leasedJobs \subseteq Jobs
  /\ leases \in Seq(Lease)
  /\ keyOf \in [Keys -> Groups \cup {NoGroup}]
  /\ Store!TypeOK
  /\ refNow \in [Sweeps -> Int \cup {Never}]
  /\ workerAudit \in [Workers -> WorkerEvents \cup {NoEvent}]
  /\ leaseAudit \in Seq({LeaseEvent[s] : s \in LeaseState})

\* A lease that still counts for its job: work in progress or work done.
Holds(l) == Issued(l) \/ Submitted(l)

\* A lease is the promise that exactly one worker may produce the group of
\* the job (contracts.py:207): whatever workers, sweeps and late calls do,
\* no two leases of one job are in progress or done, and the jobs kept from
\* the queue are exactly those that have such a lease.
LeasePromise ==
  /\ \A l, m \in DOMAIN leases :
       Holds(l) /\ Holds(m) /\ leases[l].job = leases[m].job => l = m
  /\ leasedJobs = {leases[l].job : l \in {m \in DOMAIN leases : Holds(m)}}

\* The idempotency key lets duplicate submissions be deduplicated
\* (contracts.py:207-210).  Broker and store agree: a key is bound exactly to
\* the group of the one lease that was submitted under it, every stored group
\* came in through one lease, and no submitted group is missing.
SubmittedOncePerKey ==
  /\ \A l, m \in DOMAIN leases :
       Submitted(l) /\ Submitted(m)
         /\ (leases[l].key = leases[m].key \/ leases[l].group = leases[m].group)
       => l = m
  /\ \A l \in DOMAIN leases :
       Submitted(l) => keyOf[leases[l].key] = leases[l].group
  /\ \A k \in Keys : keyOf[k] # NoGroup =>
       \E l \in DOMAIN leases : Submitted(l) /\ leases[l].key = k
  /\ Store!Stored = {leases[l].group : l \in {m \in DOMAIN leases : Submitted(m)}}

\* A dead worker holds no work: its leases were abandoned when it was marked
\* dead and it gets none until a heartbeat or a registration revives it, so
\* nothing it computed before can be submitted afterwards ("old leases stay
\* ABANDONED", worker_broker.py:181-184).
DeadHoldNothing ==
  \A w \in dead : Registered(w) /\ \A l \in DOMAIN leases :
                    leases[l].worker = w => ~ Issued(l)

\* The trail is preserved even after the lease record is garbage collected
\* (worker_broker.py:394-396): from the audit log alone one can tell which
\* workers are registered, which are dead, and how each lease stands.
AuditTellsTheState ==
  /\ \A w \in Workers : Registered(w) <=> workerAudit[w] # NoEvent
  /\ dead = {w \in Workers : workerAudit[w] = "worker_marked_dead"}
  /\ Len(leaseAudit) = Len(leases)
  /\ \A l \in DOMAIN leases : leaseAudit[l] = LeaseEvent[leases[l].state]

\* The job queue lists every known job once, and a leased job is a known one.
QueueListsJobsOnce ==
  /\ \A i, k \in DOMAIN queue : queue[i] = queue[k] => i = k
  /\ {queue[i] : i \in DOMAIN queue} = {j \in Jobs : Known(j)}
  /\ leasedJobs \subseteq {j \in Jobs : Known(j)}

\* Leases end once: a closed lease never changes again, and an issued one
\* keeps its worker, its job and its deadline until it is closed.
LeasesEndOnce ==
  [][\A l \in DOMAIN leases :
       /\ ~ Issued(l) => leases'[l] = leases[l]
       /\ leases'[l].job = leases[l].job /\ leases'[l].worker = leases[l].worker
       /\ leases'[l].expires = leases[l].expires
    ]_leases

\* Sweeps act on a time that may be long past when they get the lock, and
\* still take nothing away too early: a lease expires only at or after its
\* deadline, and a worker is declared dead, and loses its leases, only when
\* its health is STALE now, by the heartbeat on record now.
SweepsTakeOnlyTheOverdue ==
  [][/\ \A l \in DOMAIN leases : Issued(l) =>
          /\ leases'[l].state = "expired" => IsExpired(l, clock)
          /\ leases'[l].state = "abandoned" =>
               WorkerHealth(leases[l].worker, clock) = "stale"
     /\ \A w \in dead' \ dead : WorkerHealth(w, clock) = "stale"
    ]_vars

\* A lease is always given back in the end: by its worker, or by the sweeps.
\* This does not depend on the worker doing anything at all.
EveryLeaseEnds ==
  \A l \in 1 .. MaxLeases :
    (l \in DOMAIN leases /\ Issued(l)) ~> (l \in DOMAIN leases /\ ~ Issued(l))

\* A worker that falls silent is found out: a heartbeat made early enough in
\* the horizon is followed by another one or by the worker's death.
SilentWorkersDie ==
  \A w \in Workers : \A t \in Time : t + HeartbeatTTL < MaxTime =>
    (heartbeats[w] = t ~> (heartbeats[w] # t \/ w \in dead))

\* The same for a worker that never sent a heartbeat, as the comment in
\* abandon_stale_workers has it: "only declare dead if the registry has held
\* the worker longer than the heartbeat TTL" (worker_broker.py:407-408).
WorkersNeverHeardOfDie ==
  \A w \in Workers :
    (Registered(w) /\ heartbeats[w] = Never)
      ~> (heartbeats[w] # Never \/ w \in dead)
=============================================================================

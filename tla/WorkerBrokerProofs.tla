------------------------- MODULE WorkerBrokerProofs -------------------------
(***************************************************************************)
(* Safety of the broker for every number of workers, jobs, keys, groups and *)
(* leases, every TTL and every horizon; and that every behaviour of it is   *)
(* one of the abstract market of JobMarket.                                 *)
(***************************************************************************)
EXTENDS BrokerMarket, SequenceTheorems, TLAPS

Audited == {LeaseEvent[s] : s \in LeaseState}

\* A function on an initial interval is a sequence of that length.
LEMMA FunctionIsSeq ==
  ASSUME NEW S, NEW n \in Nat, NEW f \in [1 .. n -> S]
  PROVE  f \in Seq(S) /\ Len(f) = n
<1>1. f \in Seq(S)
  BY SeqDef
<1> QED
  BY <1>1

\* Every lease on record has the type of a lease.
LEMMA LeaseAt ==
  ASSUME TypeOK, NEW l \in DOMAIN leases
  PROVE  /\ l \in 1 .. Len(leases)
         /\ leases[l] \in Lease
<1>1. leases \in Seq(Lease)
  BY DEF TypeOK
<1> QED
  BY <1>1, LenProperties, ElementOfSeq

\* A lease that ends in state s is a lease.
LEMMA EndedLease ==
  ASSUME NEW r \in Lease, NEW s \in LeaseState
  PROVE  [r EXCEPT !.state = s] \in Lease
BY DEF Lease

\* Closing leases keeps their number and every type.
LEMMA CloseType ==
  ASSUME TypeOK, NEW L, NEW s \in LeaseState, NEW event \in Audited,
         Close(L, s, event)
  PROVE  /\ leases' \in Seq(Lease)
         /\ Len(leases') = Len(leases)
         /\ leaseAudit' \in Seq(Audited)
         /\ leasedJobs' \subseteq Jobs
<1>1. leases \in Seq(Lease) /\ leaseAudit \in Seq(Audited) /\ leasedJobs \subseteq Jobs
  BY DEF TypeOK, Audited
<1>2. Len(leases) \in Nat /\ Len(leaseAudit) \in Nat
  BY <1>1
<1>3. leases' \in [1 .. Len(leases) -> Lease]
  <2>1. \A l \in DOMAIN leases :
          (IF l \in L THEN [leases[l] EXCEPT !.state = s] ELSE leases[l]) \in Lease
    BY LeaseAt, EndedLease
  <2>2. DOMAIN leases = 1 .. Len(leases)
    BY <1>1
  <2> QED
    BY <2>1, <2>2 DEF Close
<1>4. leaseAudit' \in [1 .. Len(leaseAudit) -> Audited]
  BY <1>1 DEF Close
<1>5. leasedJobs' \subseteq Jobs
  BY <1>1 DEF Close
<1> QED
  BY <1>2, <1>3, <1>4, <1>5, FunctionIsSeq

\* The audit entry of every way a lease can stand.
LEMMA EventOf ==
  /\ LeaseEvent["issued"] = "lease_issued"
  /\ LeaseEvent["submitted"] = "lease_submitted"
  /\ LeaseEvent["expired"] = "lease_expired"
  /\ LeaseEvent["abandoned"] = "lease_abandoned"
  /\ LeaseEvent["failed"] = "lease_failed"
BY DEF LeaseEvent, LeaseState

LEMMA EventsAudited ==
  {"lease_issued", "lease_submitted", "lease_expired", "lease_abandoned",
   "lease_failed"} \subseteq Audited
<1>1. \A s \in LeaseState : LeaseEvent[s] \in Audited
  BY DEF Audited
<1> QED
  BY <1>1, EventOf DEF LeaseState

-----------------------------------------------------------------------------
\* Types

\* The submissions of a worker keep the types of broker and store.
LEMMA SubmitGroupType ==
  ASSUME TypeOK, NEW w \in Workers, NEW l \in DOMAIN leases,
         NEW g \in Groups, NEW d \in DecisionPool, SubmitGroup(w, l, g, d)
  PROVE  TypeOK'
<1>1. l \in 1 .. Len(leases) /\ leases[l] \in Lease /\ leases[l].key \in Keys
  BY LeaseAt DEF Lease
<1>2. records' \in Seq(Store!Record)
  <2>1. d \in Store!Decisions
    BY BrokerAssumption
  <2>2. Store!NewRecord(g, d) \in Store!Record
    BY <2>1 DEF Store!NewRecord, Store!Record, Store!Decisions
  <2> QED
    BY <2>2 DEF SubmitGroup, Store!Submit, TypeOK, Store!TypeOK
<1>3. leases' \in Seq(Lease)
  <2>1. [[leases[l] EXCEPT !.state = "submitted"] EXCEPT !.group = g] \in Lease
    BY <1>1 DEF Lease, LeaseState
  <2>2. leases' = [leases EXCEPT ![l] =
            [[leases[l] EXCEPT !.state = "submitted"] EXCEPT !.group = g]]
    BY <1>1 DEF SubmitGroup, TypeOK
  <2> QED
    BY <1>1, <2>1, <2>2 DEF TypeOK
<1>4. leaseAudit' \in Seq(Audited)
  <2>1. leaseAudit \in Seq(Audited) /\ "lease_submitted" \in Audited
    BY EventsAudited DEF TypeOK, Audited
  <2>2. leaseAudit' = [leaseAudit EXCEPT ![l] = "lease_submitted"]
    BY DEF SubmitGroup
  <2>3. leaseAudit' \in [1 .. Len(leaseAudit) -> Audited]
    BY <2>1, <2>2, LenProperties
  <2>4. Len(leaseAudit) \in Nat
    BY <2>1
  <2> QED
    BY <2>3, <2>4, FunctionIsSeq
<1>5. keyOf' \in [Keys -> Groups \cup {NoGroup}]
  BY <1>1 DEF SubmitGroup, TypeOK
<1> QED
  BY <1>2, <1>3, <1>4, <1>5
  DEF SubmitGroup, TypeOK, Audited, Store!TypeOK, workerVars, jobVars, timeVars

\* Every sweep and every failure report keeps the types.
LEMMA CloseKeepsTypes ==
  ASSUME TypeOK, NEW L, NEW s \in LeaseState, NEW event \in Audited,
         Close(L, s, event),
         clock' = clock, workers' = workers, heartbeats' = heartbeats,
         dead' \subseteq Workers, jobs' = jobs, queue' = queue, keyOf' = keyOf,
         records' = records, refNow' \in [Sweeps -> Int \cup {Never}],
         workerAudit' \in [Workers -> WorkerEvents \cup {NoEvent}]
  PROVE  TypeOK'
BY CloseType DEF TypeOK, Audited, Store!TypeOK

\* TypeOK alone is not inductive: a lease takes its key from the content of a
\* queued job, so it has to be known that the queue lists known jobs only.
LEMMA TypeInductive == TypeOK /\ QueueListsJobsOnce /\ [Next]_vars => TypeOK'
<1> SUFFICES ASSUME TypeOK, QueueListsJobsOnce, [Next]_vars PROVE TypeOK'
  OBVIOUS
<1> USE DEF jobVars, leaseVars, storeVars, timeVars, workerVars
<1>1. ASSUME NEW w \in Workers, NEW manifest \in Manifests,
             RegisterWorker(w, manifest)
      PROVE  TypeOK'
  BY <1>1 DEF RegisterWorker, TypeOK, WorkerEvents, Store!TypeOK
<1>2. ASSUME NEW w \in Workers, NEW t \in Time, Heartbeat(w, t)
      PROVE  TypeOK'
  BY <1>2 DEF Heartbeat, BeatEvent, TypeOK, WorkerEvents, Time, Store!TypeOK
<1>3. ASSUME NEW w \in Workers, AcquireLease(w)
      PROVE  TypeOK'
  <2> PICK i \in Eligible(w) :
             /\ leasedJobs' = leasedJobs \cup {queue[i]}
             /\ leases' = Append(leases, NewLease(w, queue[i]))
    BY <1>3 DEF AcquireLease
  <2>1. queue[i] \in Jobs /\ jobs[queue[i]] \in JobSpecs
    BY DEF Eligible, QueueListsJobsOnce, Known, TypeOK
  <2>2. NewLease(w, queue[i]) \in Lease
    BY <2>1, BrokerAssumption DEF NewLease, Lease, LeaseState, TypeOK
  <2>3. leaseAudit' \in Seq(Audited)
    BY <1>3, EventsAudited DEF AcquireLease, TypeOK, Audited
  <2>4. leases' \in Seq(Lease) /\ leasedJobs' \subseteq Jobs
    BY <2>1, <2>2 DEF TypeOK
  <2> QED
    BY <1>3, <2>3, <2>4 DEF AcquireLease, TypeOK, Audited, Store!TypeOK
<1>4. ASSUME NEW w \in Workers, NEW l \in DOMAIN leases, NEW g \in Groups,
             NEW d \in DecisionPool, SubmitGroup(w, l, g, d)
      PROVE  TypeOK'
  BY <1>4, SubmitGroupType
<1>5. ASSUME NEW w \in Workers, NEW l \in DOMAIN leases, ReportFailure(w, l)
      PROVE  TypeOK'
  BY <1>5, CloseKeepsTypes, EventsAudited DEF ReportFailure, TypeOK, LeaseState
<1>6. ASSUME NEW j \in Jobs, NEW spec \in JobSpecs, SubmitJob(j, spec)
      PROVE  TypeOK'
  BY <1>6 DEF SubmitJob, QueueWith, TypeOK, Store!TypeOK
<1>7. ASSUME NEW s \in Sweeps, StartSweep(s)
      PROVE  TypeOK'
  BY <1>7 DEF StartSweep, TypeOK, Store!TypeOK
<1>8. CASE ReapExpired
  BY <1>8, CloseKeepsTypes, EventsAudited DEF ReapExpired, TypeOK, LeaseState
<1>9. CASE AbandonStaleWorkers
  <2>1. dead' \subseteq Workers
    BY <1>9 DEF AbandonStaleWorkers, LapsedWorkers, TypeOK
  <2>2. workerAudit' \in [Workers -> WorkerEvents \cup {NoEvent}]
    BY <1>9 DEF AbandonStaleWorkers, WorkerEvents, TypeOK
  <2> QED
    BY <1>9, <2>1, <2>2, CloseKeepsTypes, EventsAudited
    DEF AbandonStaleWorkers, TypeOK, LeaseState
<1>10. CASE Tick
  BY <1>10 DEF Tick, TypeOK, Store!TypeOK
<1>11. CASE UNCHANGED vars
  BY <1>11 DEF vars, TypeOK, Store!TypeOK
<1> QED
  BY <1>1, <1>2, <1>3, <1>4, <1>5, <1>6, <1>7, <1>8, <1>9, <1>10, <1>11 DEF Next

\* The queue is disturbed only by new jobs and by new leases.
LEMMA QueueInductive ==
  TypeOK /\ QueueListsJobsOnce /\ [Next]_vars => QueueListsJobsOnce'
<1> SUFFICES ASSUME TypeOK, QueueListsJobsOnce, [Next]_vars
             PROVE  QueueListsJobsOnce'
  OBVIOUS
<1> USE DEF QueueListsJobsOnce, Known
<1>1. CASE UNCHANGED jobVars /\ leasedJobs' \subseteq leasedJobs
  BY <1>1 DEF jobVars
<1>2. ASSUME NEW w \in Workers, AcquireLease(w)
      PROVE  QueueListsJobsOnce'
  BY <1>2 DEF AcquireLease, Eligible, jobVars
<1>3. ASSUME NEW j \in Jobs, NEW spec \in JobSpecs, SubmitJob(j, spec)
      PROVE  QueueListsJobsOnce'
  <2>1. /\ jobs' = [jobs EXCEPT ![j] = spec] /\ spec # NoJob
        /\ leasedJobs' = leasedJobs
    BY <1>3, BrokerAssumption DEF SubmitJob, leaseVars
  <2>2. CASE Known(j)
    BY <1>3, <2>1, <2>2 DEF SubmitJob, QueueWith, TypeOK
  <2>3. CASE ~ Known(j)
    <3>1. /\ queue \in Seq(Jobs) /\ queue' = Append(queue, j)
          /\ \A i \in DOMAIN queue : queue[i] # j
      BY <1>3, <2>3 DEF SubmitJob, QueueWith, TypeOK
    <3>2. /\ DOMAIN queue' = DOMAIN queue \cup {Len(queue) + 1}
          /\ queue'[Len(queue) + 1] = j
          /\ \A i \in DOMAIN queue : queue'[i] = queue[i]
      BY <3>1
    <3>3. {k \in Jobs : Known(k)}' = {k \in Jobs : Known(k)} \cup {j}
      BY <2>1 DEF TypeOK
    <3> QED
      BY <2>1, <3>1, <3>2, <3>3
  <2> QED
    BY <2>2, <2>3
<1>4. ASSUME NEW L, NEW s, NEW event, Close(L, s, event), UNCHANGED jobVars
      PROVE  QueueListsJobsOnce'
  BY <1>1, <1>4 DEF Close
<1>5. ASSUME NEW w \in Workers, NEW manifest \in Manifests,
             RegisterWorker(w, manifest)
      PROVE  QueueListsJobsOnce'
  BY <1>1, <1>5 DEF RegisterWorker, leaseVars
<1>6. ASSUME NEW w \in Workers, NEW t \in Time, Heartbeat(w, t)
      PROVE  QueueListsJobsOnce'
  BY <1>1, <1>6 DEF Heartbeat, leaseVars
<1>7. ASSUME NEW w \in Workers, NEW l \in DOMAIN leases, NEW g \in Groups,
             NEW d \in DecisionPool, SubmitGroup(w, l, g, d)
      PROVE  QueueListsJobsOnce'
  BY <1>1, <1>7 DEF SubmitGroup
<1>8. ASSUME NEW w \in Workers, NEW l \in DOMAIN leases, ReportFailure(w, l)
      PROVE  QueueListsJobsOnce'
  BY <1>4, <1>8 DEF ReportFailure
<1>9. ASSUME NEW s \in Sweeps, StartSweep(s)
      PROVE  QueueListsJobsOnce'
  BY <1>1, <1>9 DEF StartSweep, leaseVars
<1>10. CASE ReapExpired
  BY <1>4, <1>10 DEF ReapExpired
<1>11. CASE AbandonStaleWorkers
  BY <1>4, <1>11 DEF AbandonStaleWorkers
<1>12. CASE Tick
  BY <1>1, <1>12 DEF Tick, leaseVars
<1>13. CASE UNCHANGED vars
  BY <1>1, <1>13 DEF vars, leaseVars
<1> QED
  BY <1>2, <1>3, <1>5, <1>6, <1>7, <1>8, <1>9, <1>10, <1>11, <1>12, <1>13
  DEF Next

\* The type invariant of the broker and the job queue listing every known job
\* once hold in every state, whatever workers, sweeps and clients do.
THEOREM TypeCorrect == Spec => [](TypeOK /\ QueueListsJobsOnce)
<1>1. Init => TypeOK /\ QueueListsJobsOnce
  BY DEF Init, TypeOK, Sweeps, Store!Init, Store!TypeOK, QueueListsJobsOnce, Known
<1> QED
  BY <1>1, TypeInductive, QueueInductive, PTL DEF Spec

\* A job submitted any number of times has one place in the queue, and a job
\* that is leased is a known one.
THEOREM QueueListsOnce == Spec => []QueueListsJobsOnce
BY TypeCorrect, PTL

-----------------------------------------------------------------------------
\* Leases

\* How a lease may end without a group.
Endings == {"expired", "abandoned", "failed"}

\* The leases of L, all of them issued, end without a group.
EndWithoutGroup(L, s) ==
  /\ \A l \in L : Issued(l)
  /\ Close(L, s, LeaseEvent[s])
  /\ UNCHANGED storeVars

\* What a step can do to the leases and to the store.
LeaseSteps ==
  \/ UNCHANGED <<leaseVars, storeVars>>
  \/ \E w \in Workers : AcquireLease(w)
  \/ \E w \in Workers, l \in DOMAIN leases, g \in Groups, d \in DecisionPool :
       SubmitGroup(w, l, g, d)
  \/ \E L \in SUBSET DOMAIN leases, s \in Endings : EndWithoutGroup(L, s)

\* The actions of the broker fall into four kinds.
LEMMA KindsOfSteps == [Next]_vars => LeaseSteps
<1> SUFFICES ASSUME [Next]_vars PROVE LeaseSteps
  OBVIOUS
<1>1. ASSUME NEW w \in Workers, NEW l \in DOMAIN leases, ReportFailure(w, l)
      PROVE  LeaseSteps
  <2>1. EndWithoutGroup({l}, "failed")
    BY <1>1, EventOf DEF ReportFailure, EndWithoutGroup, MayEnd
  <2> QED
    BY <2>1 DEF LeaseSteps, Endings
<1>2. CASE ReapExpired
  <2>1. EndWithoutGroup(ExpiredLeases(refNow["reap"]), "expired")
    BY <1>2, EventOf DEF ReapExpired, EndWithoutGroup, ExpiredLeases
  <2> QED
    BY <2>1 DEF LeaseSteps, Endings, ExpiredLeases
<1>3. CASE AbandonStaleWorkers
  <2> DEFINE L == {l \in DOMAIN leases :
                     Issued(l) /\ leases[l].worker \in LapsedWorkers(refNow["abandon"])}
  <2>1. EndWithoutGroup(L, "abandoned")
    BY <1>3, EventOf DEF AbandonStaleWorkers, EndWithoutGroup
  <2> QED
    BY <2>1 DEF LeaseSteps, Endings
<1>4. ASSUME \/ \E w \in Workers, manifest \in Manifests : RegisterWorker(w, manifest)
             \/ \E w \in Workers, t \in Time : Heartbeat(w, t)
             \/ \E j \in Jobs, spec \in JobSpecs : SubmitJob(j, spec)
             \/ \E s \in Sweeps : StartSweep(s)
             \/ Tick
             \/ UNCHANGED vars
      PROVE  UNCHANGED <<leaseVars, storeVars>>
  BY <1>4 DEF RegisterWorker, Heartbeat, SubmitJob, StartSweep, Tick, vars
<1> QED
  BY <1>1, <1>2, <1>3, <1>4 DEF Next, LeaseSteps

\* The promise survives every step: a job is given out only when it is not
\* in leasedJobs, hence has no lease that holds it, and it is freed only
\* when the one lease that held it ends.
LEMMA PromiseInductive == TypeOK /\ LeasePromise /\ LeaseSteps => LeasePromise'
<1> SUFFICES ASSUME TypeOK, LeasePromise, LeaseSteps PROVE LeasePromise'
  OBVIOUS
<1> USE DEF LeasePromise, Holds, Issued, Submitted
<1>1. CASE UNCHANGED <<leaseVars, storeVars>>
  BY <1>1 DEF leaseVars
<1>2. ASSUME NEW w \in Workers, AcquireLease(w) PROVE LeasePromise'
  <2> PICK i \in Eligible(w) :
             /\ leasedJobs' = leasedJobs \cup {queue[i]}
             /\ leases' = Append(leases, NewLease(w, queue[i]))
    BY <1>2 DEF AcquireLease
  <2> DEFINE n == Len(leases) + 1
  <2>1. /\ DOMAIN leases' = DOMAIN leases \cup {n} /\ n \notin DOMAIN leases
        /\ \A l \in DOMAIN leases : leases'[l] = leases[l]
        /\ leases'[n] = NewLease(w, queue[i])
    BY DEF TypeOK
  <2>2. leases'[n].job = queue[i] /\ leases'[n].state = "issued"
    BY <2>1 DEF NewLease
  <2>3. \A l \in DOMAIN leases : Holds(l) => leases[l].job # queue[i]
    BY DEF Eligible
  <2>4. \A l \in DOMAIN leases : Holds(l)' <=> Holds(l)
    BY <2>1
  <2> QED
    BY <2>1, <2>2, <2>3, <2>4
<1>3. ASSUME NEW w \in Workers, NEW l \in DOMAIN leases, NEW g \in Groups,
             NEW d \in DecisionPool, SubmitGroup(w, l, g, d)
      PROVE  LeasePromise'
  <2>1. /\ DOMAIN leases' = DOMAIN leases /\ leasedJobs' = leasedJobs
        /\ \A m \in DOMAIN leases : leases'[m].job = leases[m].job
        /\ \A m \in DOMAIN leases : Holds(m)' <=> Holds(m)
    BY <1>3, LeaseAt DEF SubmitGroup, MayEnd, TypeOK, Lease
  <2> QED
    BY <2>1
<1>4. ASSUME NEW L \in SUBSET DOMAIN leases, NEW s \in Endings,
             EndWithoutGroup(L, s)
      PROVE  LeasePromise'
  <2>1. /\ DOMAIN leases' = DOMAIN leases
        /\ \A m \in DOMAIN leases : leases'[m].job = leases[m].job
        /\ \A m \in DOMAIN leases : Holds(m)' <=> Holds(m) /\ m \notin L
    BY <1>4, LeaseAt DEF EndWithoutGroup, Close, Endings, Lease
  <2>2. leasedJobs' = leasedJobs \ {leases[l].job : l \in L}
    BY <1>4 DEF EndWithoutGroup, Close
  <2>3. \A l \in L : Holds(l)
    BY <1>4 DEF EndWithoutGroup
  <2> QED
    BY <2>1, <2>2, <2>3
<1> QED
  BY <1>1, <1>2, <1>3, <1>4 DEF LeaseSteps

\* A lease is the promise that exactly one worker may produce the group of
\* its job: in no state do two leases of one job count, and the jobs withheld
\* from the queue are exactly those a lease holds.
THEOREM PromiseKept == Spec => []LeasePromise
<1>1. Init => LeasePromise
  BY DEF Init, LeasePromise
<1> QED
  BY <1>1, TypeCorrect, KindsOfSteps, PromiseInductive, PTL DEF Spec

\* A key is bound when a lease is submitted under it, and the store holds the
\* group from then on, so the key admits no second lease.
LEMMA KeysInductive ==
  TypeOK /\ SubmittedOncePerKey /\ LeaseSteps => SubmittedOncePerKey'
<1> SUFFICES ASSUME TypeOK, SubmittedOncePerKey, LeaseSteps
             PROVE  SubmittedOncePerKey'
  OBVIOUS
<1> USE DEF SubmittedOncePerKey, Submitted
<1>1. CASE UNCHANGED <<leaseVars, storeVars>>
  BY <1>1 DEF leaseVars, storeVars, Store!Stored
<1>2. ASSUME NEW w \in Workers, AcquireLease(w) PROVE SubmittedOncePerKey'
  <2> PICK i \in Eligible(w) : leases' = Append(leases, NewLease(w, queue[i]))
    BY <1>2 DEF AcquireLease
  <2> DEFINE n == Len(leases) + 1
  <2>1. /\ DOMAIN leases' = DOMAIN leases \cup {n} /\ n \notin DOMAIN leases
        /\ \A l \in DOMAIN leases : leases'[l] = leases[l]
        /\ leases'[n].state = "issued"
    BY DEF TypeOK, NewLease
  <2>2. keyOf' = keyOf /\ Store!Stored' = Store!Stored
    BY <1>2 DEF AcquireLease, storeVars, Store!Stored
  <2>3. {m \in DOMAIN leases : Submitted(m)}' = {m \in DOMAIN leases : Submitted(m)}
    BY <2>1
  <2> QED
    BY <2>1, <2>2, <2>3
<1>3. ASSUME NEW w \in Workers, NEW l \in DOMAIN leases, NEW g \in Groups,
             NEW d \in DecisionPool, SubmitGroup(w, l, g, d)
      PROVE  SubmittedOncePerKey'
  <2> DEFINE k == leases[l].key
  <2>1. /\ DOMAIN leases' = DOMAIN leases
        /\ leases'[l].state = "submitted" /\ leases'[l].group = g
        /\ leases'[l].key = k
        /\ \A m \in DOMAIN leases \ {l} : leases'[m] = leases[m]
        /\ ~ Submitted(l)
    <3> DEFINE r == [leases[l] EXCEPT !.state = "submitted", !.group = g]
    <3>1. /\ leases[l] \in Lease /\ leases[l].state = "issued"
          /\ leases' = [leases EXCEPT ![l] = r]
      BY <1>3, LeaseAt DEF SubmitGroup, MayEnd, Issued
    <3>2. r.state = "submitted" /\ r.group = g /\ r.key = k
      BY <3>1 DEF Lease
    <3>3. leases \in Seq(Lease)
      BY DEF TypeOK
    <3> HIDE DEF r
    <3> QED
      BY <3>1, <3>2, <3>3
  <2>2. k \in Keys /\ g # NoGroup
    BY LeaseAt, BrokerAssumption DEF Lease
  <2>3. keyOf' = [keyOf EXCEPT ![k] = g] /\ keyOf[k] \in {NoGroup, g}
    BY <1>3 DEF SubmitGroup, KeyAdmits
  <2>4. g \notin Store!Stored /\ Store!Stored' = Store!Stored \cup {g}
    <3>1. records \in Seq(Store!Record) /\ records' = Append(records, Store!NewRecord(g, d))
      BY <1>3 DEF SubmitGroup, Store!Submit, TypeOK, Store!TypeOK
    <3>2. /\ DOMAIN records' = DOMAIN records \cup {Len(records) + 1}
          /\ \A i \in DOMAIN records : records'[i] = records[i]
          /\ records'[Len(records) + 1].group = g
      BY <3>1 DEF Store!NewRecord
    <3> QED
      BY <1>3, <3>2 DEF SubmitGroup, Store!Submit, Store!Stored
  <2>5. keyOf[k] = NoGroup
    BY <2>2, <2>3, <2>4
  <2>6. \A m \in DOMAIN leases : Submitted(m) => leases[m].key # k /\ leases[m].group # g
    <3>1. NoGroup \notin Store!Stored
      <4>1. Store!Stored \subseteq Groups
        <5>1. \A i \in DOMAIN records : records[i] \in Store!Record
          BY DEF TypeOK, Store!TypeOK
        <5> QED
          BY <5>1 DEF Store!Stored, Store!Record
      <4> QED
        BY <4>1, BrokerAssumption
    <3>2. \A m \in DOMAIN leases : Submitted(m) => leases[m].group \in Store!Stored
      OBVIOUS
    <3> QED
      BY <2>4, <2>5, <3>1, <3>2
  <2>7. {m \in DOMAIN leases : Submitted(m)}' = {m \in DOMAIN leases : Submitted(m)} \cup {l}
    BY <2>1
  <2>8. /\ keyOf'[k] = g
        /\ \A key \in Keys \ {k} : keyOf'[key] = keyOf[key]
    BY <2>2, <2>3 DEF TypeOK
  <2>9. \A m, o \in DOMAIN leases' :
          Submitted(m)' /\ Submitted(o)'
            /\ (leases'[m].key = leases'[o].key \/ leases'[m].group = leases'[o].group)
          => m = o
    BY <2>1, <2>6
  <2>10. \A m \in DOMAIN leases' : Submitted(m)' => keyOf'[leases'[m].key] = leases'[m].group
    <3>1. \A m \in DOMAIN leases : leases[m].key \in Keys
      BY LeaseAt DEF Lease
    <3> QED
      BY <2>1, <2>6, <2>8, <3>1
  <2>11. \A key \in Keys : keyOf'[key] # NoGroup =>
           \E m \in DOMAIN leases' : Submitted(m)' /\ leases'[m].key = key
    BY <2>1, <2>8
  <2>12. Store!Stored' =
           {leases'[m].group : m \in {o \in DOMAIN leases : Submitted(o)}'}
    BY <2>1, <2>4, <2>7
  <2> QED
    BY <2>9, <2>10, <2>11, <2>12
<1>4. ASSUME NEW L \in SUBSET DOMAIN leases, NEW s \in Endings,
             EndWithoutGroup(L, s)
      PROVE  SubmittedOncePerKey'
  <2>1. /\ DOMAIN leases' = DOMAIN leases
        /\ \A m \in DOMAIN leases : /\ leases'[m].key = leases[m].key
                                    /\ leases'[m].group = leases[m].group
        /\ \A m \in DOMAIN leases : Submitted(m)' <=> Submitted(m)
    BY <1>4, LeaseAt DEF EndWithoutGroup, Close, Endings, Lease, Issued
  <2>2. keyOf' = keyOf /\ Store!Stored' = Store!Stored
    BY <1>4 DEF EndWithoutGroup, storeVars, Store!Stored
  <2>3. {m \in DOMAIN leases : Submitted(m)}' = {m \in DOMAIN leases : Submitted(m)}
    BY <2>1
  <2> QED
    BY <2>1, <2>2, <2>3
<1> QED
  BY <1>1, <1>2, <1>3, <1>4 DEF LeaseSteps

\* Broker and store never disagree about what was submitted: one lease per
\* key, one lease per group, and no group in the store without its lease.
THEOREM SubmittedOnce == Spec => []SubmittedOncePerKey
<1>1. Init => SubmittedOncePerKey
  BY DEF Init, SubmittedOncePerKey, Store!Init, Store!Stored
<1> QED
  BY <1>1, TypeCorrect, KindsOfSteps, KeysInductive, PTL DEF Spec

-----------------------------------------------------------------------------
\* Workers and time

\* Marking a worker dead and abandoning its leases is one step, and a dead
\* worker gets no lease, so the two never come apart.
LEMMA DeadInductive ==
  TypeOK /\ DeadHoldNothing /\ [Next]_vars => DeadHoldNothing'
<1> SUFFICES ASSUME TypeOK, DeadHoldNothing, [Next]_vars PROVE DeadHoldNothing'
  OBVIOUS
<1> USE DEF DeadHoldNothing, Registered, Issued
<1>1. CASE UNCHANGED leases /\ dead' \subseteq dead /\ UNCHANGED workers
  BY <1>1
<1>2. ASSUME NEW w \in Workers, NEW manifest \in Manifests,
             RegisterWorker(w, manifest)
      PROVE  DeadHoldNothing'
  BY <1>2 DEF RegisterWorker, leaseVars, TypeOK
<1>3. ASSUME NEW w \in Workers, NEW t \in Time, Heartbeat(w, t)
      PROVE  DeadHoldNothing'
  BY <1>1, <1>3 DEF Heartbeat, leaseVars
<1>4. ASSUME NEW w \in Workers, AcquireLease(w)
      PROVE  DeadHoldNothing'
  <2> PICK i \in Eligible(w) : leases' = Append(leases, NewLease(w, queue[i]))
    BY <1>4 DEF AcquireLease
  <2>1. /\ DOMAIN leases' = DOMAIN leases \cup {Len(leases) + 1}
        /\ \A l \in DOMAIN leases : leases'[l] = leases[l]
        /\ leases'[Len(leases) + 1].worker = w
    BY DEF TypeOK, NewLease
  <2> QED
    BY <1>4, <2>1 DEF AcquireLease, MayAcquire, workerVars
<1>5. ASSUME NEW w \in Workers, NEW l \in DOMAIN leases, NEW g \in Groups,
             NEW d \in DecisionPool, SubmitGroup(w, l, g, d)
      PROVE  DeadHoldNothing'
  <2>1. /\ DOMAIN leases' = DOMAIN leases
        /\ \A m \in DOMAIN leases : leases'[m].worker = leases[m].worker
        /\ \A m \in DOMAIN leases : Issued(m)' => Issued(m)
    BY <1>5, LeaseAt DEF SubmitGroup, TypeOK, Lease
  <2> QED
    BY <1>5, <2>1 DEF SubmitGroup, workerVars
<1>6. ASSUME NEW L, NEW s \in Endings, NEW event, Close(L, s, event)
      PROVE  /\ DOMAIN leases' = DOMAIN leases
             /\ \A m \in DOMAIN leases : leases'[m].worker = leases[m].worker
             /\ \A m \in DOMAIN leases : Issued(m)' <=> Issued(m) /\ m \notin L
  BY <1>6, LeaseAt DEF Close, Lease, Endings
<1>7. ASSUME NEW w \in Workers, NEW l \in DOMAIN leases, ReportFailure(w, l)
      PROVE  DeadHoldNothing'
  <2>1. Close({l}, "failed", "lease_failed") /\ UNCHANGED <<dead, workers>>
    BY <1>7 DEF ReportFailure, workerVars
  <2>2. "failed" \in Endings
    BY DEF Endings
  <2>3. /\ DOMAIN leases' = DOMAIN leases
        /\ \A m \in DOMAIN leases : leases'[m].worker = leases[m].worker
        /\ \A m \in DOMAIN leases : Issued(m)' => Issued(m)
    BY <1>6, <2>1, <2>2
  <2> QED
    BY <2>1, <2>3
<1>8. ASSUME NEW j \in Jobs, NEW spec \in JobSpecs, SubmitJob(j, spec)
      PROVE  DeadHoldNothing'
  BY <1>1, <1>8 DEF SubmitJob, leaseVars, workerVars
<1>9. ASSUME NEW s \in Sweeps, StartSweep(s)
      PROVE  DeadHoldNothing'
  BY <1>1, <1>9 DEF StartSweep, leaseVars, workerVars
<1>10. CASE ReapExpired
  <2> DEFINE L == ExpiredLeases(refNow["reap"])
  <2>1. Close(L, "expired", "lease_expired") /\ UNCHANGED <<dead, workers>>
    BY <1>10 DEF ReapExpired, workerVars
  <2> HIDE DEF L
  <2>2. "expired" \in Endings
    BY DEF Endings
  <2>3. /\ DOMAIN leases' = DOMAIN leases
        /\ \A m \in DOMAIN leases : leases'[m].worker = leases[m].worker
        /\ \A m \in DOMAIN leases : Issued(m)' => Issued(m)
    BY <1>6, <2>1, <2>2
  <2> QED
    BY <2>1, <2>3
<1>11. CASE AbandonStaleWorkers
  <2> DEFINE stale == LapsedWorkers(refNow["abandon"])
  <2>1. \A w \in stale : Registered(w)
    BY DEF LapsedWorkers
  <2>2. /\ dead' = dead \cup stale /\ workers' = workers
        /\ Close({l \in DOMAIN leases : Issued(l) /\ leases[l].worker \in stale},
                 "abandoned", "lease_abandoned")
    BY <1>11 DEF AbandonStaleWorkers
  <2> HIDE DEF stale
  <2> QED
    BY <1>6, <2>1, <2>2 DEF Endings
<1>12. CASE Tick
  BY <1>1, <1>12 DEF Tick, leaseVars, workerVars
<1>13. CASE UNCHANGED vars
  BY <1>1, <1>13 DEF vars, leaseVars, workerVars
<1> QED
  BY <1>2, <1>3, <1>4, <1>5, <1>7, <1>8, <1>9, <1>10, <1>11, <1>12, <1>13
  DEF Next

\* A dead worker is a registered one without work: whatever it computed
\* before it was found dead cannot be submitted under its old leases.
THEOREM DeadHaveNoWork == Spec => []DeadHoldNothing
<1>1. Init => DeadHoldNothing
  BY DEF Init, DeadHoldNothing
<1> QED
  BY <1>1, TypeCorrect, DeadInductive, PTL DEF Spec

\* Leases end once: no step touches a closed lease, and an issued lease keeps
\* its worker, its job and its deadline until it is closed.
THEOREM EndOnce == Spec => LeasesEndOnce
<1> DEFINE A == \A l \in DOMAIN leases :
                  /\ ~ Issued(l) => leases'[l] = leases[l]
                  /\ leases'[l].job = leases[l].job
                  /\ leases'[l].worker = leases[l].worker
                  /\ leases'[l].expires = leases[l].expires
<1>1. TypeOK /\ LeaseSteps => A
  <2> SUFFICES ASSUME TypeOK, LeaseSteps PROVE A
    OBVIOUS
  <2> USE DEF Issued
  <2>1. CASE UNCHANGED <<leaseVars, storeVars>>
    BY <2>1 DEF leaseVars
  <2>2. ASSUME NEW w \in Workers, AcquireLease(w) PROVE A
    BY <2>2 DEF AcquireLease, TypeOK
  <2>3. ASSUME NEW w \in Workers, NEW l \in DOMAIN leases, NEW g \in Groups,
               NEW d \in DecisionPool, SubmitGroup(w, l, g, d)
        PROVE  A
    BY <2>3, LeaseAt DEF SubmitGroup, MayEnd, TypeOK, Lease
  <2>4. ASSUME NEW L \in SUBSET DOMAIN leases, NEW s \in Endings,
               EndWithoutGroup(L, s)
        PROVE  A
    BY <2>4, LeaseAt DEF EndWithoutGroup, Close, Lease
  <2> QED
    BY <2>1, <2>2, <2>3, <2>4 DEF LeaseSteps
<1>2. TypeOK /\ LeaseSteps =>
        [\A l \in DOMAIN leases :
           /\ ~ Issued(l) => leases'[l] = leases[l]
           /\ leases'[l].job = leases[l].job /\ leases'[l].worker = leases[l].worker
           /\ leases'[l].expires = leases[l].expires
        ]_leases
  BY <1>1
<1> HIDE DEF A
<1> QED
  BY <1>2, TypeCorrect, KindsOfSteps, PTL DEF Spec, LeasesEndOnce

-----------------------------------------------------------------------------
\* The audit log

\* What the log says about workers.
WorkersAudited ==
  /\ \A w \in Workers : Registered(w) <=> workerAudit[w] # NoEvent
  /\ dead = {w \in Workers : workerAudit[w] = "worker_marked_dead"}

\* What it says about leases.
LeasesAudited ==
  /\ Len(leaseAudit) = Len(leases)
  /\ \A l \in DOMAIN leases : leaseAudit[l] = LeaseEvent[leases[l].state]

LEMMA WorkersAuditedInductive ==
  TypeOK /\ WorkersAudited /\ [Next]_vars => WorkersAudited'
<1> SUFFICES ASSUME TypeOK, WorkersAudited, [Next]_vars PROVE WorkersAudited'
  OBVIOUS
<1> USE DEF WorkersAudited, Registered
<1>1. CASE UNCHANGED workerVars
  BY <1>1 DEF workerVars
<1>2. ASSUME NEW w \in Workers, NEW manifest \in Manifests,
             RegisterWorker(w, manifest)
      PROVE  WorkersAudited'
  BY <1>2, BrokerAssumption DEF RegisterWorker, TypeOK, WorkerEvents
<1>3. ASSUME NEW w \in Workers, NEW t \in Time, Heartbeat(w, t)
      PROVE  WorkersAudited'
  <2>1. CASE w \in dead
    BY <1>3, <2>1, BrokerAssumption DEF Heartbeat, BeatEvent, TypeOK, WorkerEvents
  <2>2. CASE w \notin dead
    BY <1>3, <2>2 DEF Heartbeat, BeatEvent, TypeOK
  <2> QED
    BY <2>1, <2>2
<1>4. CASE AbandonStaleWorkers
  <2> DEFINE stale == LapsedWorkers(refNow["abandon"])
  <2>1. /\ dead' = dead \cup stale /\ UNCHANGED workers
        /\ workerAudit' = [w \in Workers |-> IF w \in stale
                             THEN "worker_marked_dead" ELSE workerAudit[w]]
    BY <1>4 DEF AbandonStaleWorkers
  <2>2. stale \subseteq {w \in Workers : Registered(w)}
    BY DEF LapsedWorkers
  <2>3. NoEvent # "worker_marked_dead"
    BY BrokerAssumption DEF WorkerEvents
  <2> HIDE DEF stale
  <2> QED
    BY <2>1, <2>2, <2>3
<1>5. ASSUME \/ \E w \in Workers : AcquireLease(w)
             \/ \E w \in Workers, l \in DOMAIN leases, g \in Groups,
                   d \in DecisionPool : SubmitGroup(w, l, g, d)
             \/ \E w \in Workers, l \in DOMAIN leases : ReportFailure(w, l)
             \/ \E j \in Jobs, spec \in JobSpecs : SubmitJob(j, spec)
             \/ \E s \in Sweeps : StartSweep(s)
             \/ ReapExpired
             \/ Tick
             \/ UNCHANGED vars
      PROVE  UNCHANGED workerVars
  BY <1>5 DEF AcquireLease, SubmitGroup, ReportFailure, SubmitJob, StartSweep,
              ReapExpired, Tick, vars
<1> QED
  BY <1>1, <1>2, <1>3, <1>4, <1>5 DEF Next

LEMMA LeasesAuditedInductive ==
  TypeOK /\ LeasesAudited /\ LeaseSteps => LeasesAudited'
<1> SUFFICES ASSUME TypeOK, LeasesAudited, LeaseSteps PROVE LeasesAudited'
  OBVIOUS
<1> USE DEF LeasesAudited
<1>1. /\ leases \in Seq(Lease) /\ leaseAudit \in Seq(Audited)
      /\ Len(leases) \in Nat
      /\ DOMAIN leases = 1 .. Len(leases) /\ DOMAIN leaseAudit = DOMAIN leases
  BY LenProperties DEF TypeOK, Audited
<1>2. CASE UNCHANGED <<leaseVars, storeVars>>
  BY <1>2 DEF leaseVars
<1>3. ASSUME NEW w \in Workers, AcquireLease(w) PROVE LeasesAudited'
  <2> DEFINE n == Len(leases) + 1
  <2> PICK i \in Eligible(w) : leases' = Append(leases, NewLease(w, queue[i]))
    BY <1>3 DEF AcquireLease
  <2>1. leaseAudit' = Append(leaseAudit, "lease_issued")
    BY <1>3 DEF AcquireLease
  <2>2. /\ Len(leases') = n /\ DOMAIN leases' = DOMAIN leases \cup {n}
        /\ \A l \in DOMAIN leases : leases'[l] = leases[l]
        /\ leases'[n].state = "issued"
    BY <1>1 DEF NewLease
  <2>3. /\ Len(leaseAudit') = n
        /\ \A l \in DOMAIN leases : leaseAudit'[l] = leaseAudit[l]
        /\ leaseAudit'[n] = "lease_issued"
    BY <1>1, <2>1
  <2> QED
    BY <2>2, <2>3, EventOf
<1>4. ASSUME NEW w \in Workers, NEW l \in DOMAIN leases, NEW g \in Groups,
             NEW d \in DecisionPool, SubmitGroup(w, l, g, d)
      PROVE  LeasesAudited'
  <2>1. /\ Len(leases') = Len(leases) /\ DOMAIN leases' = DOMAIN leases
        /\ leases'[l].state = "submitted"
        /\ \A m \in DOMAIN leases \ {l} : leases'[m] = leases[m]
    BY <1>1, <1>4, LeaseAt DEF SubmitGroup, Lease
  <2>2. /\ Len(leaseAudit') = Len(leaseAudit)
        /\ leaseAudit'[l] = "lease_submitted"
        /\ \A m \in DOMAIN leases \ {l} : leaseAudit'[m] = leaseAudit[m]
    <3>1. leaseAudit' = [leaseAudit EXCEPT ![l] = "lease_submitted"]
      BY <1>4 DEF SubmitGroup
    <3> QED
      BY <1>1, <3>1
  <2> QED
    BY <2>1, <2>2, EventOf
<1>5. ASSUME NEW L \in SUBSET DOMAIN leases, NEW s \in Endings,
             EndWithoutGroup(L, s)
      PROVE  LeasesAudited'
  <2>1. Close(L, s, LeaseEvent[s])
    BY <1>5 DEF EndWithoutGroup
  <2>2. /\ DOMAIN leases' = DOMAIN leases
        /\ \A l \in L : leases'[l].state = s
        /\ \A l \in DOMAIN leases \ L : leases'[l] = leases[l]
    BY <2>1, LeaseAt DEF Close, Lease
  <2>3. /\ DOMAIN leaseAudit' = DOMAIN leaseAudit
        /\ \A l \in L : leaseAudit'[l] = LeaseEvent[s]
        /\ \A l \in DOMAIN leases \ L : leaseAudit'[l] = leaseAudit[l]
    BY <1>1, <2>1 DEF Close
  <2>4. Len(leases') = Len(leases) /\ Len(leaseAudit') = Len(leaseAudit)
    <3>1. LeaseEvent[s] \in Audited /\ s \in LeaseState
      BY DEF Endings, LeaseState, Audited
    <3>2. Len(leases') = Len(leases) /\ leaseAudit' \in Seq(Audited)
      BY <2>1, <3>1, CloseType
    <3> QED
      BY <1>1, <2>3, <3>2, LenProperties
  <2> QED
    BY <2>2, <2>3, <2>4
<1> QED
  BY <1>2, <1>3, <1>4, <1>5 DEF LeaseSteps

\* Nothing is lost from the trail: whatever happens, the last event recorded
\* about a worker tells whether it is registered and whether it is dead, and
\* the last one about a lease tells how it stands.
THEOREM AuditIsFaithful == Spec => []AuditTellsTheState
<1>1. Init => WorkersAudited /\ LeasesAudited
  BY BrokerAssumption DEF Init, WorkersAudited, LeasesAudited, Registered, WorkerEvents
<1>2. WorkersAudited /\ LeasesAudited => AuditTellsTheState
  BY DEF WorkersAudited, LeasesAudited, AuditTellsTheState
<1> QED
  BY <1>1, <1>2, TypeCorrect, KindsOfSteps, WorkersAuditedInductive,
     LeasesAuditedInductive, PTL
  DEF Spec

-----------------------------------------------------------------------------
\* Sweeps

\* The time a sweep works with has passed.
RefNowHasPassed == \A s \in Sweeps : refNow[s] # Never => refNow[s] <= clock

\* A sweep keeps the time it read until it is done, and the clock goes on.
LEMMA RefNowInductive ==
  TypeOK /\ RefNowHasPassed /\ [Next]_vars => RefNowHasPassed'
<1> SUFFICES ASSUME TypeOK, RefNowHasPassed, [Next]_vars PROVE RefNowHasPassed'
  OBVIOUS
<1> USE DEF RefNowHasPassed
<1>1. CASE UNCHANGED timeVars
  BY <1>1 DEF timeVars
<1>2. ASSUME NEW s \in Sweeps, StartSweep(s) PROVE RefNowHasPassed'
  BY <1>2 DEF StartSweep, TypeOK
<1>3. CASE ReapExpired
  BY <1>3 DEF ReapExpired, TypeOK, Sweeps
<1>4. CASE AbandonStaleWorkers
  BY <1>4 DEF AbandonStaleWorkers, TypeOK, Sweeps
<1>5. CASE Tick
  BY <1>5 DEF Tick, TypeOK
<1>6. ASSUME \/ \E w \in Workers, manifest \in Manifests : RegisterWorker(w, manifest)
             \/ \E w \in Workers, t \in Time : Heartbeat(w, t)
             \/ \E w \in Workers : AcquireLease(w)
             \/ \E w \in Workers, l \in DOMAIN leases, g \in Groups,
                   d \in DecisionPool : SubmitGroup(w, l, g, d)
             \/ \E w \in Workers, l \in DOMAIN leases : ReportFailure(w, l)
             \/ \E j \in Jobs, spec \in JobSpecs : SubmitJob(j, spec)
             \/ UNCHANGED vars
      PROVE  UNCHANGED timeVars
  BY <1>6 DEF RegisterWorker, Heartbeat, AcquireLease, SubmitGroup,
              ReportFailure, SubmitJob, vars
<1> QED
  BY <1>1, <1>2, <1>3, <1>4, <1>5, <1>6 DEF Next

\* What was stale when a sweep read the clock is stale when it gets the lock.
LEMMA StaleNow ==
  ASSUME TypeOK, RefNowHasPassed, refNow["abandon"] # Never,
         NEW w \in LapsedWorkers(refNow["abandon"])
  PROVE  WorkerHealth(w, clock) = "stale"
<1>1. /\ refNow["abandon"] \in Int /\ refNow["abandon"] <= clock /\ clock \in Int
      /\ heartbeats[w] \in Int /\ HeartbeatTTL \in Int
  BY BrokerAssumption DEF TypeOK, RefNowHasPassed, LapsedWorkers, IsStale, Sweeps
<1>2. w \notin dead /\ IsStale(w, clock) /\ heartbeats[w] # Never
  BY <1>1 DEF LapsedWorkers, IsStale
<1> QED
  BY <1>2 DEF WorkerHealth

\* However long a sweep waits for the lock after it has read the clock, it
\* takes away no lease before its deadline and buries no worker whose
\* recorded heartbeat is still fresh.
THEOREM OnlyTheOverdue == Spec => SweepsTakeOnlyTheOverdue
<1>1. TypeOK /\ RefNowHasPassed /\ [Next]_vars =>
        [/\ \A l \in DOMAIN leases : Issued(l) =>
              /\ leases'[l].state = "expired" => IsExpired(l, clock)
              /\ leases'[l].state = "abandoned" =>
                   WorkerHealth(leases[l].worker, clock) = "stale"
         /\ \A w \in dead' \ dead : WorkerHealth(w, clock) = "stale"
        ]_vars
  <2> SUFFICES ASSUME TypeOK, RefNowHasPassed, Next
               PROVE  /\ \A l \in DOMAIN leases : Issued(l) =>
                           /\ leases'[l].state = "expired" => IsExpired(l, clock)
                           /\ leases'[l].state = "abandoned" =>
                                WorkerHealth(leases[l].worker, clock) = "stale"
                      /\ \A w \in dead' \ dead : WorkerHealth(w, clock) = "stale"
    BY DEF vars
  <2> DEFINE Kept == /\ \A l \in DOMAIN leases : Issued(l) =>
                          leases'[l].state \notin {"expired", "abandoned"}
                     /\ dead' \subseteq dead
  <2>1. ASSUME UNCHANGED leases, dead' \subseteq dead
        PROVE  Kept
    BY <2>1 DEF Issued
  <2>2. ASSUME NEW w \in Workers, AcquireLease(w)
        PROVE  Kept
    BY <2>2 DEF AcquireLease, TypeOK, workerVars, Issued
  <2>3. ASSUME NEW w \in Workers, NEW l \in DOMAIN leases, NEW g \in Groups,
               NEW d \in DecisionPool, SubmitGroup(w, l, g, d)
        PROVE  Kept
    BY <2>3, LeaseAt DEF SubmitGroup, TypeOK, workerVars, Issued, Lease
  <2>4. ASSUME NEW w \in Workers, NEW l \in DOMAIN leases, ReportFailure(w, l)
        PROVE  Kept
    BY <2>4, LeaseAt DEF ReportFailure, Close, workerVars, Issued, Lease
  <2>5. ASSUME \/ \E w \in Workers, manifest \in Manifests : RegisterWorker(w, manifest)
               \/ \E w \in Workers, t \in Time : Heartbeat(w, t)
               \/ \E j \in Jobs, spec \in JobSpecs : SubmitJob(j, spec)
               \/ \E s \in Sweeps : StartSweep(s)
               \/ Tick
        PROVE  Kept
    BY <2>1, <2>5 DEF RegisterWorker, Heartbeat, SubmitJob, StartSweep, Tick,
                      leaseVars, workerVars
  <2>6. CASE Kept
    BY <2>6
  <2>7. CASE ReapExpired
    <3>1. \A l \in ExpiredLeases(refNow["reap"]) : IsExpired(l, clock)
      <4>1. \A l \in DOMAIN leases : leases[l].expires \in Int
        BY LeaseAt DEF Lease
      <4> QED
        BY <2>7, <4>1 DEF ReapExpired, ExpiredLeases, IsExpired, TypeOK,
                          RefNowHasPassed, Sweeps
    <3>2. \A l \in DOMAIN leases :
            leases'[l].state = IF l \in ExpiredLeases(refNow["reap"])
                               THEN "expired" ELSE leases[l].state
      BY <2>7, LeaseAt DEF ReapExpired, Close, Lease
    <3>3. dead' = dead
      BY <2>7 DEF ReapExpired, workerVars
    <3> QED
      BY <3>1, <3>2, <3>3 DEF Issued
  <2>8. CASE AbandonStaleWorkers
    <3> DEFINE stale == LapsedWorkers(refNow["abandon"])
               L == {l \in DOMAIN leases : Issued(l) /\ leases[l].worker \in stale}
    <3>1. \A w \in stale : WorkerHealth(w, clock) = "stale"
      BY <2>8, StaleNow DEF AbandonStaleWorkers
    <3>2. dead' = dead \cup stale /\ Close(L, "abandoned", "lease_abandoned")
      BY <2>8 DEF AbandonStaleWorkers
    <3> HIDE DEF stale
    <3>3. \A l \in DOMAIN leases :
            leases'[l].state = IF l \in L THEN "abandoned" ELSE leases[l].state
      BY <3>2, LeaseAt DEF Close, Lease
    <3> QED
      BY <3>1, <3>2, <3>3 DEF Issued
  <2> QED
    BY <2>2, <2>3, <2>4, <2>5, <2>6, <2>7, <2>8 DEF Next
<1>2. Init => RefNowHasPassed
  BY DEF Init, RefNowHasPassed
<1> QED
  BY <1>1, <1>2, TypeCorrect, RefNowInductive, PTL
  DEF Spec, SweepsTakeOnlyTheOverdue

-----------------------------------------------------------------------------
\* The refinement of JobMarket

\* What the mapping relies on.
MarketInv ==
  /\ TypeOK
  /\ QueueListsJobsOnce
  /\ LeasePromise
  /\ SubmittedOncePerKey

LEMMA MarketInvHolds == Spec => []MarketInv
BY TypeCorrect, PromiseKept, SubmittedOnce, PTL DEF MarketInv

\* The mapping without choice: an unknown job has no lease that counts, a
\* known one is open without such a lease, and the lease tells who has it.
JobFacts ==
  \A j \in Jobs :
    /\ ~ Known(j) => HoldingLeases(j) = {} /\ HolderOf(j) = Unknown
    /\ Known(j) /\ HoldingLeases(j) = {} => HolderOf(j) = Open
    /\ HoldingLeases(j) = {} => ProductOf(j) = NoGroup
    /\ \A l \in HoldingLeases(j) :
         /\ Known(j)
         /\ HolderOf(j) = IF Issued(l) THEN leases[l].worker ELSE Finished
         /\ ProductOf(j) = IF Submitted(l) THEN leases[l].group ELSE NoGroup

LEMMA Mapping == MarketInv => JobFacts
<1> SUFFICES ASSUME MarketInv, NEW j \in Jobs
             PROVE  /\ ~ Known(j) => HoldingLeases(j) = {} /\ HolderOf(j) = Unknown
                    /\ Known(j) /\ HoldingLeases(j) = {} => HolderOf(j) = Open
                    /\ HoldingLeases(j) = {} => ProductOf(j) = NoGroup
                    /\ \A l \in HoldingLeases(j) :
                         /\ Known(j)
                         /\ HolderOf(j) = IF Issued(l) THEN leases[l].worker
                                                       ELSE Finished
                         /\ ProductOf(j) = IF Submitted(l) THEN leases[l].group
                                                           ELSE NoGroup
  BY DEF JobFacts
<1>1. HoldingLeases(j) # {} => Known(j)
  <2> SUFFICES ASSUME NEW l \in HoldingLeases(j) PROVE Known(j)
    OBVIOUS
  <2>1. j \in leasedJobs
    BY DEF MarketInv, LeasePromise, HoldingLeases
  <2> QED
    BY <2>1 DEF MarketInv, QueueListsJobsOnce
<1>2. ASSUME NEW l \in HoldingLeases(j)
      PROVE  LeaseOf(j) = l
  <2>1. \A h \in HoldingLeases(j) : h = l
    BY DEF MarketInv, LeasePromise, HoldingLeases
  <2> QED
    BY <2>1 DEF LeaseOf
<1>3. ASSUME NEW l \in HoldingLeases(j)
      PROVE  /\ HolderOf(j) = IF Issued(l) THEN leases[l].worker ELSE Finished
             /\ ProductOf(j) = IF Submitted(l) THEN leases[l].group ELSE NoGroup
  BY <1>1, <1>2 DEF HolderOf, ProductOf
<1>4. HoldingLeases(j) = {} => ProductOf(j) = NoGroup
  BY DEF ProductOf
<1>5. ~ Known(j) => HolderOf(j) = Unknown
  BY DEF HolderOf
<1>6. Known(j) /\ HoldingLeases(j) = {} => HolderOf(j) = Open
  BY DEF HolderOf
<1> QED
  BY <1>1, <1>3, <1>4, <1>5, <1>6

\* Only submit_job changes the jobs, and it changes nothing else.
LEMMA JobsChange ==
  [Next]_vars => \/ UNCHANGED jobs
                 \/ \E j \in Jobs, spec \in JobSpecs : SubmitJob(j, spec)
BY DEF Next, vars, jobVars, RegisterWorker, Heartbeat, AcquireLease, SubmitGroup,
       ReportFailure, StartSweep, ReapExpired, AbandonStaleWorkers, Tick

-----------------------------------------------------------------------------
\* The state of the market.
Holder == [j \in Jobs |-> HolderOf(j)]
Product == [j \in Jobs |-> ProductOf(j)]

\* A step that leaves the leases and the known jobs alone changes nothing.
LEMMA Stutter ==
  ASSUME UNCHANGED <<leases, jobs>>
  PROVE  Holder' = Holder /\ Product' = Product
BY DEF Holder, Product, HolderOf, ProductOf, HoldingLeases, LeaseOf, Known,
       Issued, Submitted, Holds

\* Nor does a step that changes none of the leases that count for a job.
LEMMA JobUntouched ==
  ASSUME JobFacts, JobFacts', UNCHANGED jobs, NEW k \in Jobs,
         HoldingLeases(k)' = HoldingLeases(k),
         \A l \in HoldingLeases(k) : leases'[l] = leases[l]
  PROVE  HolderOf(k)' = HolderOf(k) /\ ProductOf(k)' = ProductOf(k)
<1>1. CASE HoldingLeases(k) = {}
  BY <1>1 DEF HolderOf, ProductOf, Known
<1>2. ASSUME NEW l \in HoldingLeases(k)
      PROVE  HolderOf(k)' = HolderOf(k) /\ ProductOf(k)' = ProductOf(k)
  BY DEF JobFacts, Issued, Submitted
<1> QED
  BY <1>1, <1>2

\* A job is enqueued when submit_job hears of it for the first time.
LEMMA SubmitJobEnqueues ==
  ASSUME MarketInv, JobFacts, JobFacts', NEW j \in Jobs, NEW spec \in JobSpecs,
         SubmitJob(j, spec)
  PROVE  Market!Enqueue(j) \/ (Holder' = Holder /\ Product' = Product)
<1>1. /\ UNCHANGED leases /\ jobs' = [jobs EXCEPT ![j] = spec] /\ spec # NoJob
      /\ jobs \in [Jobs -> JobSpecs \cup {NoJob}]
  BY BrokerAssumption DEF SubmitJob, leaseVars, MarketInv, TypeOK
<1>2. \A i \in Jobs : /\ HoldingLeases(i)' = HoldingLeases(i)
                     /\ LeaseOf(i)' = LeaseOf(i)
                     /\ ProductOf(i)' = ProductOf(i)
  BY <1>1 DEF HoldingLeases, LeaseOf, ProductOf, Holds, Issued, Submitted
<1>3. \A i \in Jobs : Known(i)' <=> Known(i) \/ i = j
  BY <1>1 DEF Known
<1>4. \A i \in Jobs : Known(i) => HolderOf(i)' = HolderOf(i)
  BY <1>1, <1>2, <1>3 DEF HolderOf, Issued
<1>5. \A i \in Jobs : ~ Known(i) /\ i # j => HolderOf(i)' = HolderOf(i)
  BY <1>3 DEF HolderOf
<1>6. Product' = Product
  BY <1>2 DEF Product
<1>7. CASE Known(j)
  BY <1>4, <1>5, <1>6, <1>7 DEF Holder
<1>8. CASE ~ Known(j)
  <2>1. HolderOf(j) = Unknown /\ HolderOf(j)' = Open
    BY <1>2, <1>3, <1>8 DEF JobFacts
  <2>2. Holder' = [Holder EXCEPT ![j] = Open]
    BY <1>4, <1>5, <2>1 DEF Holder
  <2> QED
    BY <1>6, <2>1, <2>2 DEF Market!Enqueue, Holder, Product
<1> QED
  BY <1>7, <1>8

\* acquire_lease grants an open job to the worker that calls it.
LEMMA AcquireGrants ==
  ASSUME MarketInv, JobFacts, JobFacts', NEW w \in Workers, AcquireLease(w)
  PROVE  \E j \in Jobs : Market!Grant(j, w)
<1> PICK i \in Eligible(w) : leases' = Append(leases, NewLease(w, queue[i]))
  BY DEF AcquireLease
<1> PICK j \in Jobs : j = queue[i]
  BY DEF Eligible, MarketInv, TypeOK
<1> PICK n \in Nat : n = Len(leases) + 1
  BY DEF MarketInv, TypeOK
<1>1. Known(j) /\ j \notin leasedJobs
  BY DEF Eligible, MarketInv, QueueListsJobsOnce
<1>2. /\ DOMAIN leases' = DOMAIN leases \cup {n} /\ n \notin DOMAIN leases
      /\ \A l \in DOMAIN leases : leases'[l] = leases[l]
      /\ leases'[n].job = j /\ leases'[n].worker = w
      /\ leases'[n].state = "issued" /\ leases'[n].group = NoGroup
  BY DEF MarketInv, TypeOK, NewLease
<1>3. UNCHANGED jobs
  BY DEF AcquireLease, jobVars
<1>4. HoldingLeases(j) = {}
  BY <1>1 DEF MarketInv, LeasePromise, HoldingLeases
<1>5. n \in HoldingLeases(j)' /\ Issued(n)' /\ ~ Submitted(n)'
  BY <1>2 DEF HoldingLeases, Holds, Issued, Submitted
<1>6. \A k \in Jobs \ {j} :
        /\ HoldingLeases(k)' = HoldingLeases(k)
        /\ HolderOf(k)' = HolderOf(k) /\ ProductOf(k)' = ProductOf(k)
  <2> SUFFICES ASSUME NEW k \in Jobs \ {j}
               PROVE  /\ HoldingLeases(k)' = HoldingLeases(k)
                      /\ HolderOf(k)' = HolderOf(k) /\ ProductOf(k)' = ProductOf(k)
    OBVIOUS
  <2>1. HoldingLeases(k)' = HoldingLeases(k)
    BY <1>2 DEF HoldingLeases, Holds, Issued, Submitted
  <2>2. \A l \in HoldingLeases(k) : leases'[l] = leases[l]
    BY <1>2 DEF HoldingLeases
  <2> QED
    BY <1>3, <2>1, <2>2, JobUntouched
<1>7. HolderOf(j) = Open /\ ProductOf(j) = NoGroup
  BY <1>1, <1>4 DEF JobFacts
<1>8. HolderOf(j)' = w /\ ProductOf(j)' = NoGroup
  BY <1>1, <1>2, <1>5 DEF JobFacts
<1>9. Holder' = [Holder EXCEPT ![j] = w] /\ Product' = Product
  BY <1>6, <1>7, <1>8 DEF Holder, Product
<1> QED
  BY <1>1, <1>7, <1>9 DEF Market!Grant, Holder, Product

\* submit_group delivers the group of a job that its worker still holds.
LEMMA SubmitDelivers ==
  ASSUME MarketInv, JobFacts, JobFacts', NEW w \in Workers,
         NEW l \in DOMAIN leases, NEW g \in Groups, NEW d \in DecisionPool,
         SubmitGroup(w, l, g, d)
  PROVE  \E j \in Jobs : Market!Deliver(j, g)
<1>1. leases[l] \in Lease /\ leases[l].worker = w /\ leases[l].state = "issued"
  BY LeaseAt DEF MarketInv, SubmitGroup, MayEnd, Issued
<1> PICK j \in Jobs : j = leases[l].job
  BY <1>1 DEF Lease
<1>2. /\ DOMAIN leases' = DOMAIN leases
      /\ leases'[l].state = "submitted" /\ leases'[l].group = g
      /\ leases'[l].job = j
      /\ \A m \in DOMAIN leases \ {l} : leases'[m] = leases[m]
  BY <1>1 DEF SubmitGroup, Lease
<1>3. UNCHANGED jobs
  BY DEF SubmitGroup, jobVars
<1>4. /\ l \in HoldingLeases(j) /\ Issued(l) /\ ~ Submitted(l)
      /\ l \in HoldingLeases(j)' /\ ~ Issued(l)' /\ Submitted(l)'
  BY <1>1, <1>2 DEF HoldingLeases, Holds, Issued, Submitted
<1>5. HolderOf(j) = w /\ ProductOf(j) = NoGroup
  BY <1>1, <1>4 DEF JobFacts
<1>6. HolderOf(j)' = Finished /\ ProductOf(j)' = g
  BY <1>2, <1>4 DEF JobFacts
<1>7. \A k \in Jobs \ {j} :
        HolderOf(k)' = HolderOf(k) /\ ProductOf(k)' = ProductOf(k)
  <2> SUFFICES ASSUME NEW k \in Jobs \ {j}
               PROVE  HolderOf(k)' = HolderOf(k) /\ ProductOf(k)' = ProductOf(k)
    OBVIOUS
  <2>1. HoldingLeases(k)' = HoldingLeases(k)
    BY <1>2 DEF HoldingLeases, Holds, Issued, Submitted
  <2>2. \A m \in HoldingLeases(k) : leases'[m] = leases[m]
    BY <1>2 DEF HoldingLeases
  <2> QED
    BY <1>3, <2>1, <2>2, JobUntouched
<1>8. \A k \in Jobs : ProductOf(k) # g
  <2> SUFFICES ASSUME NEW k \in Jobs, ProductOf(k) = g PROVE FALSE
    OBVIOUS
  <2>1. PICK m \in HoldingLeases(k) : Submitted(m) /\ leases[m].group = g
    BY BrokerAssumption DEF JobFacts
  <2>2. g \in Store!Stored
    BY <2>1 DEF MarketInv, SubmittedOncePerKey, HoldingLeases
  <2> QED
    BY <2>2 DEF SubmitGroup, Store!Submit
<1>9. Holder' = [Holder EXCEPT ![j] = Finished] /\ Product' = [Product EXCEPT ![j] = g]
  BY <1>6, <1>7 DEF Holder, Product
<1>10. g \notin {Product[k] : k \in Jobs}
  BY <1>8 DEF Product
<1> QED
  BY <1>5, <1>9, <1>10 DEF Market!Deliver, Market!Products, Holder, Product

\* Failure reports and sweeps hand back the jobs of the leases they end.
LEMMA EndingHandsBack ==
  ASSUME MarketInv, JobFacts, JobFacts', UNCHANGED jobs,
         NEW L \in SUBSET DOMAIN leases, NEW s \in Endings, EndWithoutGroup(L, s)
  PROVE  \E js \in SUBSET Jobs : Market!HandBack(js)
<1>1. /\ DOMAIN leases' = DOMAIN leases
      /\ \A m \in L : Issued(m) /\ leases[m] \in Lease /\ leases'[m].state = s
      /\ \A m \in DOMAIN leases \ L : leases'[m] = leases[m]
      /\ \A m \in DOMAIN leases : leases'[m].job = leases[m].job
  BY LeaseAt DEF MarketInv, EndWithoutGroup, Close, Lease
<1> PICK js \in SUBSET Jobs : js = {leases[l].job : l \in L}
  <2>1. {leases[l].job : l \in L} \in SUBSET Jobs
    BY <1>1 DEF Lease
  <2> QED
    BY <2>1
<1>2. ASSUME NEW j \in js
      PROVE  HolderOf(j) \in Workers /\ HolderOf(j)' = Open
             /\ ProductOf(j)' = ProductOf(j)
  <2> PICK l \in L : leases[l].job = j
    OBVIOUS
  <2>1. l \in HoldingLeases(j) /\ Issued(l) /\ ~ Submitted(l)
    BY <1>1 DEF HoldingLeases, Holds, Issued, Submitted
  <2>2. HolderOf(j) = leases[l].worker /\ ProductOf(j) = NoGroup /\ Known(j)
    BY <2>1 DEF JobFacts
  <2>3. \A m \in HoldingLeases(j) : m = l
    BY <2>1 DEF MarketInv, LeasePromise, HoldingLeases
  <2>4. HoldingLeases(j)' = {}
    BY <1>1, <2>3 DEF HoldingLeases, Holds, Issued, Submitted, Endings
  <2>5. Known(j)'
    BY <2>2 DEF Known
  <2> QED
    BY <1>1, <2>2, <2>4, <2>5 DEF JobFacts, Lease
<1>3. ASSUME NEW k \in Jobs \ js
      PROVE  HolderOf(k)' = HolderOf(k) /\ ProductOf(k)' = ProductOf(k)
  <2>1. \A m \in DOMAIN leases : leases[m].job = k => leases'[m] = leases[m]
    BY <1>1
  <2>2. HoldingLeases(k)' = HoldingLeases(k)
    BY <1>1, <2>1 DEF HoldingLeases, Holds, Issued, Submitted
  <2>3. \A m \in HoldingLeases(k) : leases'[m] = leases[m]
    BY <2>1 DEF HoldingLeases
  <2> QED
    BY <2>2, <2>3, JobUntouched
<1>4. /\ \A j \in js : Holder[j] \in Workers
      /\ Holder' = [j \in Jobs |-> IF j \in js THEN Open ELSE Holder[j]]
      /\ Product' = Product
  BY <1>2, <1>3 DEF Holder, Product
<1> QED
  BY <1>4 DEF Market!HandBack, Holder, Product

\* Every step of the broker is a step of the market or none.
LEMMA MarketStep ==
  MarketInv /\ JobFacts /\ JobFacts' /\ [Next]_vars =>
    [Market!Next]_<<Holder, Product>>
<1> SUFFICES ASSUME MarketInv, JobFacts, JobFacts', [Next]_vars
             PROVE  Market!Next \/ (Holder' = Holder /\ Product' = Product)
  OBVIOUS
<1>1. ASSUME NEW j \in Jobs, NEW spec \in JobSpecs, SubmitJob(j, spec)
      PROVE  Market!Next \/ (Holder' = Holder /\ Product' = Product)
  BY <1>1, SubmitJobEnqueues DEF Market!Next
<1>2. CASE UNCHANGED jobs
  <2>1. CASE UNCHANGED <<leaseVars, storeVars>>
    BY <1>2, <2>1, Stutter DEF leaseVars
  <2>2. ASSUME NEW w \in Workers, AcquireLease(w) PROVE Market!Next
    BY <2>2, AcquireGrants DEF Market!Next
  <2>3. ASSUME NEW w \in Workers, NEW l \in DOMAIN leases, NEW g \in Groups,
               NEW d \in DecisionPool, SubmitGroup(w, l, g, d)
        PROVE  Market!Next
    BY <2>3, SubmitDelivers DEF Market!Next
  <2>4. ASSUME NEW L \in SUBSET DOMAIN leases, NEW s \in Endings,
               EndWithoutGroup(L, s)
        PROVE  Market!Next
    BY <1>2, <2>4, EndingHandsBack DEF Market!Next
  <2> QED
    BY <2>1, <2>2, <2>3, <2>4, KindsOfSteps DEF LeaseSteps
<1> QED
  BY <1>1, <1>2, JobsChange

\* The broker implements the market: seen through its leases, every behaviour
\* is one in which a job is with one worker at a time, a finished job stays
\* finished with a group of its own, and work is only handed out when open.
THEOREM Refinement == Spec => ImplementsMarket
<1>1. Init => Market!Init
  BY DEF Init, Market!Init, HolderOf, ProductOf, HoldingLeases, Known
<1>2. MarketInv /\ MarketInv' /\ [Next]_vars =>
        [Market!Next]_<<[j \in Jobs |-> HolderOf(j)], [j \in Jobs |-> ProductOf(j)]>>
  <2>1. MarketInv' => JobFacts'
    BY Mapping, PTL
  <2> QED
    BY <2>1, Mapping, MarketStep DEF Holder, Product
<1> QED
  BY <1>1, <1>2, MarketInvHolds, PTL DEF Spec, ImplementsMarket, Market!Spec
=============================================================================

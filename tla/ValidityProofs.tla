--------------------------- MODULE ValidityProofs ---------------------------
(***************************************************************************)
(* What the contract check and every decision of Validity guarantee, for    *)
(* any group, any report, any policy and any function exp; and how the      *)
(* threads of MarketplaceSimulation use them, and that their report adds up,*)
(* for any number of workers and jobs and any lease_ttl_s.                  *)
(***************************************************************************)
EXTENDS MarketplaceSimulation, SequenceTheorems, FiniteSetTheorems, WellFoundedInduction,
        TLAPS

\* How severe the recommended actions are.
Severity == [train |-> 0, replay |-> 1, train_with_correction |-> 2,
             quarantine |-> 3, reject |-> 4]

\* GroupDecision._consistent_rejection (contracts.py:348-356).
Consistent(d) ==
  /\ d.status = "rejected" <=> d.rejection # NoReason
  /\ d.status = "rejected" => d.reasons = {}

\* No limit of the policy that other groups are trained without is exceeded.
WithinBudget(report, policy) ==
  /\ report.vetoed = 0
  /\ report.lag <= policy.replayLag /\ report.lag <= policy.maxLag
  /\ ~ Below(report.ess, policy.minEss) /\ ~ Below(report.ess, policy.replayEss)
  /\ ~ Above(report.clipped, policy.maxClipped)
  /\ report.flip # NoFlipRate => ~ Above(report.flip, policy.maxFlip)

\* A report that exceeds every limit the other one exceeds.
NoBetter(worse, report, policy) ==
  /\ report.vetoed > 0 => worse.vetoed > 0
  /\ report.lag > policy.maxLag => worse.lag > policy.maxLag
  /\ report.lag > policy.replayLag => worse.lag > policy.replayLag
  /\ Below(report.ess, policy.minEss) => Below(worse.ess, policy.minEss)
  /\ Below(report.ess, policy.replayEss) => Below(worse.ess, policy.replayEss)
  /\ Above(report.clipped, policy.maxClipped) => Above(worse.clipped, policy.maxClipped)
  /\ report.flip # NoFlipRate /\ Above(report.flip, policy.maxFlip)
       => worse.flip # NoFlipRate /\ Above(worse.flip, policy.maxFlip)

----------------------------------------------------------------------------
\* decide_group never builds a GroupDecision that its validator refuses, and
\* always gives a reason.
THEOREM DecideIsConsistent ==
  ASSUME NEW report \in Report, NEW policy \in BudgetPolicy
  PROVE  Consistent(Decide(report, policy)) /\ Decide(report, policy).reasons # {}
BY DEF Decide, Decision, Consistent

\* A group is recommended for plain training exactly when it exceeds no limit,
\* although the limits are spread over four branches.
THEOREM TrainIffWithinBudget ==
  ASSUME NEW report \in Report, NEW policy \in BudgetPolicy
  PROVE  Decide(report, policy).action = "train" <=> WithinBudget(report, policy)
<1> DEFINE quarantine == QuarantineReasons(report, policy)
           replay     == ReplayReasons(report, policy)
<1>1. /\ report.vetoed \in Nat /\ report.lag \in Nat
      /\ policy.maxLag \in Nat /\ policy.replayLag \in Nat
  BY DEF Report, BudgetPolicy
<1>2. quarantine = {} <=> /\ report.lag <= policy.maxLag
                          /\ ~ Below(report.ess, policy.minEss)
                          /\ report.flip # NoFlipRate => ~ Above(report.flip, policy.maxFlip)
  BY <1>1 DEF QuarantineReasons
<1>3. replay = {} <=> /\ report.lag <= policy.replayLag
                      /\ ~ Below(report.ess, policy.replayEss)
  BY <1>1 DEF ReplayReasons
<1>4. Decide(report, policy).action = "train" <=>
        /\ ~ report.vetoed > 0 /\ quarantine = {}
        /\ ~ Above(report.clipped, policy.maxClipped) /\ replay = {}
  BY DEF Decide, Decision
<1> QED
  BY <1>1, <1>2, <1>3, <1>4 DEF WithinBudget

\* A report that is no better never gets a milder decision: no limit, once
\* exceeded, is forgiven because another one is exceeded as well.
THEOREM DecideIsMonotone ==
  ASSUME NEW report \in Report, NEW worse \in Report, NEW policy \in BudgetPolicy,
         NoBetter(worse, report, policy)
  PROVE  Severity[Decide(report, policy).action]
           <= Severity[Decide(worse, policy).action]
<1>1. QuarantineReasons(report, policy) \subseteq QuarantineReasons(worse, policy)
  BY DEF QuarantineReasons, NoBetter
<1>2. ReplayReasons(report, policy) \subseteq ReplayReasons(worse, policy)
  BY DEF ReplayReasons, NoBetter
<1> DEFINE ActionOf(r) ==
             IF r.vetoed > 0 \/ QuarantineReasons(r, policy) # {} THEN "quarantine"
             ELSE IF Above(r.clipped, policy.maxClipped) THEN "train_with_correction"
             ELSE IF ReplayReasons(r, policy) # {} THEN "replay" ELSE "train"
<1>3. \A r : Decide(r, policy).action = ActionOf(r)
  BY DEF Decide, Decision
<1>4. /\ Severity["train"] = 0 /\ Severity["replay"] = 1
      /\ Severity["train_with_correction"] = 2 /\ Severity["quarantine"] = 3
  BY DEF Severity
<1>5. Severity[ActionOf(report)] <= Severity[ActionOf(worse)]
  BY <1>1, <1>2, <1>4 DEF NoBetter
<1> QED
  BY <1>3, <1>5

----------------------------------------------------------------------------
\* The contract check

LessThan == {p \in Nat \X Nat : p[1] < p[2]}

\* A set of natural numbers that is not empty has a minimum.
LEMMA Minimum ==
  ASSUME NEW T \in SUBSET Nat, T # {}
  PROVE  Min(T) \in T /\ \A m \in T : Min(T) <= m
<1>1. IsWellFoundedOn(LessThan, Nat)
  BY NatLessThanWellFounded DEF OpToRel, LessThan
<1>2. PICK n \in T : \A m \in T : ~ (<<m, n>> \in LessThan)
  BY <1>1, WFMin, Zenon
<1>3. ASSUME NEW m \in T PROVE n <= m
  <2>1. m \in Nat /\ n \in Nat
    OBVIOUS
  <2>2. m < n => <<m, n>> \in LessThan
    BY <2>1 DEF LessThan
  <2> QED
    BY <1>2, <2>1, <2>2
<1> QED
  BY <1>3 DEF Min

\* The reasons of the checks, in their order.
LEMMA Reasons ==
  ASSUME NEW group, NEW contract, NEW manifest, NEW now
  PROVE  LET checks == Checks(group, contract, manifest, now)
         IN  /\ DOMAIN checks = 1 .. 11
             /\ checks[1].reason = "expired_lease"
             /\ checks[2].reason = "policy_version_mismatch"
             /\ checks[3].reason = "mixed_policy_version"
             /\ checks[4].reason = "checkpoint_mismatch"
             /\ checks[5].reason = "tokenizer_mismatch"
             /\ checks[6].reason = "precision_mismatch"
             /\ checks[7].reason = "quantization_mismatch"
             /\ checks[8].reason = "group_size_mismatch"
             /\ checks[9].reason = "missing_token_ids"
             /\ Defective(group) # {} => checks[10].reason =
                  TrajectoryDefect(group.trajectories[Min(Defective(group))])
             /\ checks[11].reason = "context_overflow"
BY DEF Checks

\* What the checks look for, in their order.
FailWhen(checks, group, contract, manifest, now) ==
  /\ checks[1].fails <=> now >= contract.expires
  /\ checks[2].fails <=> group.version # contract.version
  /\ checks[3].fails <=> group.version # manifest.version
  /\ checks[4].fails <=> group.digest # manifest.digest
  /\ checks[5].fails <=> group.tokenizer # manifest.tokenizer
  /\ checks[6].fails <=> group.precision # contract.precision
  /\ checks[7].fails <=> group.quantization # contract.quantization
  /\ checks[8].fails <=> Len(group.trajectories) # contract.size
  /\ checks[9].fails <=> group.prompt = 0
  /\ checks[10].fails <=> Defective(group) # {}
  /\ checks[11].fails <=> Overflows(group, contract)

\* Each check fails on what it looks for.
LEMMA Failures ==
  ASSUME NEW group, NEW contract, NEW manifest, NEW now
  PROVE  FailWhen(Checks(group, contract, manifest, now),
                  group, contract, manifest, now)
<1> DEFINE checks == Checks(group, contract, manifest, now)
<1>1. /\ checks[1].fails = (now >= contract.expires)
      /\ checks[2].fails = (group.version # contract.version)
      /\ checks[3].fails = (group.version # manifest.version)
      /\ checks[4].fails = (group.digest # manifest.digest)
      /\ checks[5].fails = (group.tokenizer # manifest.tokenizer)
      /\ checks[6].fails = (group.precision # contract.precision)
      /\ checks[7].fails = (group.quantization # contract.quantization)
      /\ checks[8].fails = (Len(group.trajectories) # contract.size)
      /\ checks[9].fails = (group.prompt = 0)
      /\ checks[10].fails = (Defective(group) # {})
      /\ checks[11].fails = Overflows(group, contract)
  BY DEF Checks
<1> QED
  BY <1>1, Zenon DEF FailWhen

\* A failing check always has a reason to reject.
LEMMA ReasonOfCheck ==
  ASSUME NEW group, group.trajectories \in Seq(Seq(Token)),
         NEW contract, NEW manifest, NEW now, NEW i \in 1 .. 11,
         Checks(group, contract, manifest, now)[i].fails
  PROVE  Checks(group, contract, manifest, now)[i].reason \in RejectionReason
<1> DEFINE checks == Checks(group, contract, manifest, now)
<1>1. CASE i = 10
  <2>1. Defective(group) # {}
    BY <1>1, Failures DEF FailWhen
  <2>2. Defective(group) \in SUBSET Nat
    BY DEF Defective
  <2>3. Min(Defective(group)) \in Defective(group)
    BY <2>1, <2>2, Minimum
  <2>4. TrajectoryDefect(group.trajectories[Min(Defective(group))]) # Clean
    BY <2>3 DEF Defective
  <2>5. checks[10].reason = TrajectoryDefect(group.trajectories[Min(Defective(group))])
    BY <2>1, Reasons
  <2>6. TrajectoryDefect(group.trajectories[Min(Defective(group))]) \in RejectionReason
    BY <2>4 DEF TrajectoryDefect, RejectionReason
  <2> QED
    BY <1>1, <2>5, <2>6
<1>2. CASE i # 10
  <2>1. i \in {1, 2, 3, 4, 5, 6, 7, 8, 9, 11}
    BY <1>2
  <2> QED
    BY <2>1, Reasons DEF RejectionReason
<1> QED
  BY <1>1, <1>2

\* The first failing check decides, whatever else is wrong with the group
\* (validators.py:36-132 returns at the first failure).
THEOREM FirstFailureDecides ==
  ASSUME NEW group, NEW contract, NEW manifest, NEW now, NEW i \in 1 .. 11,
         Checks(group, contract, manifest, now)[i].fails,
         \A k \in 1 .. i - 1 : ~ Checks(group, contract, manifest, now)[k].fails
  PROVE  Validate(group, contract, manifest, now)
           = Checks(group, contract, manifest, now)[i].reason
<1> DEFINE checks  == Checks(group, contract, manifest, now)
           failing == {k \in DOMAIN checks : checks[k].fails}
<1>1. DOMAIN checks = 1 .. 11
  BY Reasons
<1>2. failing \in SUBSET Nat /\ i \in failing
  BY <1>1
<1>3. Min(failing) \in failing /\ Min(failing) <= i
  BY <1>2, Minimum
<1>4. Min(failing) = i
  BY <1>1, <1>2, <1>3
<1>5. Validate(group, contract, manifest, now) = checks[Min(failing)].reason
  BY <1>2 DEF Validate
<1> QED
  BY <1>4, <1>5

\* The conditions of the lease that validate_group_against_lease stands for.
Honours(group, contract, manifest, now) ==
  /\ now < contract.expires
  /\ group.version = contract.version /\ group.version = manifest.version
  /\ group.digest = manifest.digest /\ group.tokenizer = manifest.tokenizer
  /\ group.precision = contract.precision
  /\ group.quantization = contract.quantization
  /\ Len(group.trajectories) = contract.size
  /\ group.prompt > 0
  /\ \A i \in DOMAIN group.trajectories :
       /\ \E k \in DOMAIN group.trajectories[i] :
            group.trajectories[i][k].logprob # 0
       /\ group.prompt + Len(group.trajectories[i]) <= contract.context

\* The validator lets a group through exactly when it honours the lease in
\* every respect, and otherwise gives a reason the store can record: no
\* defect hides another one, and no path through the checks returns None for
\* a group with a defect.
THEOREM CleanIffHonoured ==
  ASSUME NEW group, group.trajectories \in Seq(Seq(Token)), group.prompt \in Nat,
         NEW contract, contract.expires \in Int, contract.context \in Nat,
         NEW manifest, NEW now \in Int
  PROVE  /\ Validate(group, contract, manifest, now) = Clean
              <=> Honours(group, contract, manifest, now)
         /\ Validate(group, contract, manifest, now) \in RejectionReason \cup {Clean}
<1> DEFINE checks  == Checks(group, contract, manifest, now)
           failing == {k \in DOMAIN checks : checks[k].fails}
<1> HIDE DEF checks
<1>1. DOMAIN checks = 1 .. 11 /\ FailWhen(checks, group, contract, manifest, now)
  BY Reasons, Failures DEF checks
<1>2. CASE failing = {}
  <2>1. Validate(group, contract, manifest, now) = Clean
    BY <1>2 DEF Validate, checks
  <2>2. \A k \in 1 .. 11 : ~ checks[k].fails
    BY <1>1, <1>2
  <2>3. Defective(group) = {} /\ ~ Overflows(group, contract)
    BY <1>1, <2>2 DEF FailWhen
  <2>4. ASSUME NEW i \in DOMAIN group.trajectories
        PROVE  /\ \E k \in DOMAIN group.trajectories[i] :
                    group.trajectories[i][k].logprob # 0
               /\ group.prompt + Len(group.trajectories[i]) <= contract.context
    <3>1. TrajectoryDefect(group.trajectories[i]) = Clean
      BY <2>3 DEF Defective
    <3>2. ~ Zero(group.trajectories[i])
      BY <3>1, SimulationAssumption DEF TrajectoryDefect, RejectionReason
    <3>3. ~ (group.prompt + Len(group.trajectories[i]) > contract.context)
      BY <2>3 DEF Overflows
    <3>4. Len(group.trajectories[i]) \in Nat
      BY ElementOfSeq, LenProperties
    <3> QED
      BY <3>2, <3>3, <3>4 DEF Zero
  <2>5. /\ ~ (now >= contract.expires)
        /\ group.version = contract.version /\ group.version = manifest.version
        /\ group.digest = manifest.digest /\ group.tokenizer = manifest.tokenizer
        /\ group.precision = contract.precision
        /\ group.quantization = contract.quantization
        /\ Len(group.trajectories) = contract.size
        /\ group.prompt # 0
    BY <1>1, <2>2 DEF FailWhen
  <2> QED
    BY <2>1, <2>4, <2>5 DEF Honours
<1>3. CASE failing # {}
  <2>1. failing \in SUBSET Nat
    BY <1>1
  <2>2. Min(failing) \in failing
    BY <1>3, <2>1, Minimum
  <2>3. Validate(group, contract, manifest, now) = checks[Min(failing)].reason
    BY <1>3 DEF Validate, checks
  <2>4. Validate(group, contract, manifest, now) \in RejectionReason
    BY <1>1, <2>2, <2>3, ReasonOfCheck DEF checks
  <2>5. ASSUME Honours(group, contract, manifest, now) PROVE FALSE
    <3>1. Defective(group) = {}
      <4>1. ASSUME NEW i \in DOMAIN group.trajectories
            PROVE  TrajectoryDefect(group.trajectories[i]) = Clean
        <5>1. PICK k \in DOMAIN group.trajectories[i] :
                group.trajectories[i][k].logprob # 0
          BY <2>5 DEF Honours
        <5> QED
          BY <5>1 DEF TrajectoryDefect, Zero
      <4> QED
        BY <4>1 DEF Defective
    <3>2. ~ Overflows(group, contract)
      <4>1. ASSUME NEW i \in DOMAIN group.trajectories
            PROVE  ~ (group.prompt + Len(group.trajectories[i]) > contract.context)
        <5>1. Len(group.trajectories[i]) \in Nat
          BY ElementOfSeq, LenProperties
        <5> QED
          BY <2>5, <5>1 DEF Honours
      <4> QED
        BY <4>1 DEF Overflows
    <3>3. /\ ~ (now >= contract.expires)
          /\ ~ (group.version # contract.version)
          /\ ~ (group.version # manifest.version)
          /\ ~ (group.digest # manifest.digest)
          /\ ~ (group.tokenizer # manifest.tokenizer)
          /\ ~ (group.precision # contract.precision)
          /\ ~ (group.quantization # contract.quantization)
          /\ ~ (Len(group.trajectories) # contract.size)
          /\ ~ (group.prompt = 0)
          /\ ~ (Defective(group) # {})
      BY <2>5, <3>1 DEF Honours
    <3>4. ASSUME NEW k \in {1, 2, 3, 4, 5, 6, 7, 8, 9, 10, 11}
          PROVE  ~ checks[k].fails
      BY <1>1, <3>2, <3>3 DEF FailWhen
    <3>5. Min(failing) \in {1, 2, 3, 4, 5, 6, 7, 8, 9, 10, 11}
      BY <1>1, <2>2
    <3> QED
      BY <2>2, <3>4, <3>5
  <2> QED
    <3>1. Clean \notin RejectionReason
      BY SimulationAssumption
    <3> QED
      BY <2>4, <2>5, <3>1, Zenon
<1> QED
  BY <1>2, <1>3

----------------------------------------------------------------------------
\* The groups of the simulation

Toxic == {"toxic_tokenizer", "toxic_precision", "toxic_no_logprobs",
          "toxic_version_drift"}

\* What a worker makes, as far as the contract check counts or compares.
LEMMA GroupTypes ==
  ASSUME NEW p \in Profiles
  PROVE  /\ MakeGroup(p).trajectories \in Seq(Seq(Token))
         /\ Len(MakeGroup(p).trajectories) = 2
         /\ MakeGroup(p).trajectories \in [1 .. 2 -> [1 .. 3 -> Token]]
         /\ \A i \in 1 .. 2, k \in 1 .. 3 :
              MakeGroup(p).trajectories[i][k].logprob = Logprobs(p)[k]
<1> DEFINE TokenAt(k) == [logprob |-> Logprobs(p)[k], action |-> TRUE, tool |-> FALSE]
           trajectories == [i \in 1 .. 2 |-> [k \in 1 .. 3 |-> TokenAt(k)]]
<1>1. \A k \in 1 .. 3 : Logprobs(p)[k] \in Int
  BY DEF Logprobs
<1>2. \A k \in 1 .. 3 : TokenAt(k) \in Token
  BY <1>1 DEF Token
<1>3. trajectories \in [1 .. 2 -> [1 .. 3 -> Token]]
  BY <1>2
<1>4. trajectories \in Seq(Seq(Token)) /\ Len(trajectories) = 2
  <2>1. \A i \in 1 .. 2 : trajectories[i] \in Seq(Token)
    BY <1>3, SeqDef
  <2>2. trajectories \in [1 .. 2 -> Seq(Token)]
    BY <2>1
  <2>3. trajectories \in Seq(Seq(Token))
    BY <2>2, SeqDef
  <2> QED
    BY <2>2, <2>3
<1>5. MakeGroup(p).trajectories = trajectories
  BY DEF MakeGroup
<1> QED
  BY <1>3, <1>4, <1>5

\* None of the checks before the trajectories are looked at fails for a group
\* that differs in no identity.
LEMMA IdentityChecks ==
  ASSUME NEW p \in Profiles, NEW expires \in Int, NEW now \in Int
  PROVE  LET checks == Checks(MakeGroup(p), ContractUntil(expires), Manifest, now)
         IN  /\ checks[1].fails <=> now >= expires
             /\ checks[2].fails <=> p = "toxic_version_drift"
             /\ checks[3].fails <=> p = "toxic_version_drift"
             /\ ~ checks[4].fails
             /\ checks[5].fails <=> p = "toxic_tokenizer"
             /\ checks[6].fails <=> p = "toxic_precision"
             /\ ~ checks[7].fails /\ ~ checks[8].fails /\ ~ checks[9].fails
<1> DEFINE group == MakeGroup(p)
           checks == Checks(group, ContractUntil(expires), Manifest, now)
<1>1. Len(group.trajectories) = 2
  BY GroupTypes
<1>2. /\ group.version # ContractUntil(expires).version <=> p = "toxic_version_drift"
      /\ group.version # Manifest.version <=> p = "toxic_version_drift"
      /\ group.digest = Manifest.digest
      /\ group.tokenizer # Manifest.tokenizer <=> p = "toxic_tokenizer"
      /\ group.precision # ContractUntil(expires).precision <=> p = "toxic_precision"
      /\ group.quantization = ContractUntil(expires).quantization
      /\ ContractUntil(expires).size = 2 /\ group.prompt = 4
      /\ ContractUntil(expires).expires = expires
  BY DEF MakeGroup, Manifest, ContractUntil
<1> HIDE DEF group, checks
<1>3. FailWhen(checks, group, ContractUntil(expires), Manifest, now)
  BY Failures DEF checks
<1>4. /\ checks[1].fails <=> now >= expires
      /\ checks[2].fails <=> p = "toxic_version_drift"
      /\ checks[3].fails <=> p = "toxic_version_drift"
      /\ ~ checks[4].fails
      /\ checks[5].fails <=> p = "toxic_tokenizer"
      /\ checks[6].fails <=> p = "toxic_precision"
      /\ ~ checks[7].fails /\ ~ checks[8].fails /\ ~ checks[9].fails
  BY <1>1, <1>2, <1>3 DEF FailWhen
<1> QED
  BY <1>4 DEF group, checks

\* Only a group without log-probabilities is defective, in every trajectory.
LEMMA TrajectoryChecks ==
  ASSUME NEW p \in Profiles
  PROVE  /\ p # "toxic_no_logprobs" => Defective(MakeGroup(p)) = {}
         /\ p = "toxic_no_logprobs" =>
              /\ Defective(MakeGroup(p)) = 1 .. 2
              /\ \A i \in 1 .. 2 :
                   TrajectoryDefect(MakeGroup(p).trajectories[i]) = "missing_logprobs"
<1> DEFINE trajectories == MakeGroup(p).trajectories
<1>1. /\ trajectories \in [1 .. 2 -> [1 .. 3 -> Token]]
      /\ \A i \in 1 .. 2, k \in 1 .. 3 : trajectories[i][k].logprob = Logprobs(p)[k]
  BY GroupTypes
<1> HIDE DEF trajectories
<1>2. \A i \in 1 .. 2 : DOMAIN trajectories[i] = 1 .. 3 /\ trajectories[i] # << >>
  BY <1>1
<1>3. CASE p # "toxic_no_logprobs"
  <2>1. Logprobs(p)[1] = -4
    BY <1>3 DEF Logprobs
  <2>2. \A i \in 1 .. 2 : ~ Zero(trajectories[i])
    BY <1>1, <1>2, <2>1 DEF Zero
  <2>3. \A i \in 1 .. 2 : TrajectoryDefect(trajectories[i]) = Clean
    BY <1>2, <2>2 DEF TrajectoryDefect
  <2> QED
    BY <1>1, <1>3, <2>3 DEF Defective, trajectories
<1>4. CASE p = "toxic_no_logprobs"
  <2>1. \A k \in 1 .. 3 : Logprobs(p)[k] = 0
    BY <1>4 DEF Logprobs
  <2>2. \A i \in 1 .. 2 : Zero(trajectories[i])
    BY <1>1, <1>2, <2>1 DEF Zero
  <2>3. \A i \in 1 .. 2 : TrajectoryDefect(trajectories[i]) = "missing_logprobs"
    BY <1>2, <2>2 DEF TrajectoryDefect
  <2>4. "missing_logprobs" # Clean
    BY SimulationAssumption DEF RejectionReason
  <2> QED
    BY <1>1, <1>4, <2>3, <2>4 DEF Defective, trajectories
<1> QED
  BY <1>3, <1>4

\* The contract check finds in each group what its profile put there.
LEMMA ValidatorFits ==
  ASSUME NEW p \in Profiles, NEW expires \in Int, NEW now \in Int
  PROVE  Validate(MakeGroup(p), ContractUntil(expires), Manifest, now)
           = IF now >= expires THEN "expired_lease"
             ELSE IF p \in Toxic THEN Intended(p)[2] ELSE Clean
<1> DEFINE group == MakeGroup(p)
           contract == ContractUntil(expires)
           checks == Checks(group, contract, Manifest, now)
           verdict == Validate(group, contract, Manifest, now)
<1> HIDE DEF group, contract
<1>1. /\ checks[1].fails <=> now >= expires
      /\ checks[2].fails <=> p = "toxic_version_drift"
      /\ checks[3].fails <=> p = "toxic_version_drift"
      /\ ~ checks[4].fails
      /\ checks[5].fails <=> p = "toxic_tokenizer"
      /\ checks[6].fails <=> p = "toxic_precision"
      /\ ~ checks[7].fails /\ ~ checks[8].fails /\ ~ checks[9].fails
  BY IdentityChecks DEF group, contract
<1>2. /\ p # "toxic_no_logprobs" => Defective(group) = {}
      /\ p = "toxic_no_logprobs" =>
           /\ Defective(group) = 1 .. 2
           /\ \A i \in 1 .. 2 :
                TrajectoryDefect(group.trajectories[i]) = "missing_logprobs"
  BY TrajectoryChecks DEF group
<1>3. CASE now >= expires
  <2>1. checks[1].fails
    BY <1>1, <1>3
  <2>2. verdict = checks[1].reason
    BY <2>1, FirstFailureDecides
  <2> QED
    BY <1>3, <2>2, Reasons DEF group, contract
<1>4. CASE now < expires /\ p = "toxic_version_drift"
  <2>1. checks[2].fails
    BY <1>1, <1>4
  <2>2. \A k \in 1 .. 1 : ~ checks[k].fails
    BY <1>1, <1>4
  <2>3. verdict = checks[2].reason
    BY <2>1, <2>2, FirstFailureDecides
  <2> QED
    BY <1>4, <2>3, Reasons DEF Toxic, Intended, group, contract
<1>5. CASE now < expires /\ p = "toxic_tokenizer"
  <2>1. checks[5].fails
    BY <1>1, <1>5
  <2>2. \A k \in 1 .. 4 : ~ checks[k].fails
    BY <1>1, <1>5
  <2>3. verdict = checks[5].reason
    BY <2>1, <2>2, FirstFailureDecides
  <2> QED
    BY <1>5, <2>3, Reasons DEF Toxic, Intended, group, contract
<1>6. CASE now < expires /\ p = "toxic_precision"
  <2>1. checks[6].fails
    BY <1>1, <1>6
  <2>2. \A k \in 1 .. 5 : ~ checks[k].fails
    BY <1>1, <1>6
  <2>3. verdict = checks[6].reason
    BY <2>1, <2>2, FirstFailureDecides
  <2> QED
    BY <1>6, <2>3, Reasons DEF Toxic, Intended, group, contract
<1>7. CASE now < expires /\ p = "toxic_no_logprobs"
  <2>1. checks[10].fails
    <3>1. FailWhen(checks, group, contract, Manifest, now)
      BY Failures
    <3>2. Defective(group) # {}
      BY <1>2, <1>7
    <3> HIDE DEF checks
    <3> QED
      BY <3>1, <3>2 DEF FailWhen
  <2>2. \A k \in 1 .. 9 : ~ checks[k].fails
    BY <1>1, <1>7
  <2>3. verdict = checks[10].reason
    BY <2>1, <2>2, FirstFailureDecides
  <2>4. Min(Defective(group)) \in 1 .. 2
    BY <1>2, <1>7, Minimum
  <2>5. checks[10].reason = TrajectoryDefect(group.trajectories[Min(Defective(group))])
    BY <1>2, <1>7, Reasons
  <2> QED
    BY <1>2, <1>7, <2>3, <2>4, <2>5 DEF Toxic, Intended, group, contract
<1>8. CASE now < expires /\ p \notin Toxic
  <2>1. /\ group.version = contract.version /\ group.version = Manifest.version
        /\ group.digest = Manifest.digest /\ group.tokenizer = Manifest.tokenizer
        /\ group.precision = contract.precision
        /\ group.quantization = contract.quantization
        /\ group.prompt = 4 /\ contract.size = 2 /\ contract.context = 4096
        /\ contract.expires = expires
    BY <1>8 DEF MakeGroup, Manifest, ContractUntil, Toxic, group, contract
  <2>2. /\ group.trajectories \in [1 .. 2 -> [1 .. 3 -> Token]]
        /\ group.trajectories \in Seq(Seq(Token)) /\ Len(group.trajectories) = 2
        /\ \A i \in 1 .. 2, k \in 1 .. 3 :
             group.trajectories[i][k].logprob = Logprobs(p)[k]
    BY GroupTypes DEF group
  <2>3. Logprobs(p)[1] = -4
    BY <1>8 DEF Logprobs, Toxic
  <2>4. ASSUME NEW i \in DOMAIN group.trajectories
        PROVE  /\ \E k \in DOMAIN group.trajectories[i] :
                    group.trajectories[i][k].logprob # 0
               /\ group.prompt + Len(group.trajectories[i]) <= contract.context
    <3>1. i \in 1 .. 2 /\ group.trajectories[i] \in [1 .. 3 -> Token]
      BY <2>2
    <3>2. Len(group.trajectories[i]) = 3
      <4>1. group.trajectories[i] \in Seq(Token)
        BY <2>2, ElementOfSeq, <3>1
      <4> QED
        BY <3>1, <4>1, LenProperties
    <3>3. group.trajectories[i][1].logprob # 0 /\ 1 \in DOMAIN group.trajectories[i]
      BY <2>2, <2>3, <3>1
    <3> QED
      BY <2>1, <3>2, <3>3
  <2>5. Honours(group, contract, Manifest, now)
    BY <1>8, <2>1, <2>2, <2>4 DEF Honours
  <2>6. /\ group.prompt \in Nat /\ contract.expires \in Int
        /\ contract.context \in Nat
    BY <2>1
  <2>7. verdict = Clean
    BY <2>2, <2>5, <2>6, CleanIffHonoured, Zenon
  <2> QED
    BY <1>8, <2>7 DEF group, contract
<1>9. p \in Toxic => p \in {"toxic_version_drift", "toxic_tokenizer",
                            "toxic_precision", "toxic_no_logprobs"}
  BY DEF Toxic
<1> QED
  BY <1>3, <1>4, <1>5, <1>6, <1>7, <1>8, <1>9

\* A decision as TypeOK asks for it.
GoodDecision(d) ==
  /\ d \in DecisionType
  /\ d.status = "rejected" <=> d.rejection # NoReason
  /\ d.status = "rejected" <=> d.reasons = {}

\* decide_group gives one whatever the report is.
LEMMA DecideIsGood ==
  ASSUME NEW report, NEW policy
  PROVE  /\ GoodDecision(Decide(report, policy))
         /\ Decide(report, policy).rejection = NoReason
<1> DEFINE d == Decide(report, policy)
           quarantine == QuarantineReasons(report, policy)
           replay == ReplayReasons(report, policy)
           AllReasons == {"within_budget", "high_clipped_fraction", "low_ess",
             "replay_tier_lag", "replay_tier_ess", "stale_policy_lag",
             "veto_threshold_exceeded", "high_router_flip_rate"}
<1>1. quarantine \subseteq AllReasons /\ replay \subseteq AllReasons
  BY DEF QuarantineReasons, ReplayReasons
<1> HIDE DEF quarantine, replay
<1>2. /\ d.status \in {"quarantined", "correctable", "accepted"}
      /\ d.action \in {"train", "train_with_correction", "replay", "quarantine"}
      /\ d.rejection = NoReason
      /\ d.reasons # {} /\ d.reasons \subseteq AllReasons
      /\ d = [status |-> d.status, action |-> d.action,
              rejection |-> d.rejection, reasons |-> d.reasons]
  BY <1>1 DEF Decide, Decision, quarantine, replay
<1> HIDE DEF d
<1>3. d \in DecisionType
  BY <1>2 DEF DecisionType, Broker!Store!GroupStatus
<1>4. GoodDecision(d)
  BY <1>2, <1>3 DEF GoodDecision
<1> QED
  BY <1>2, <1>4 DEF d

\* So does a worker about any group it makes.
LEMMA JudgeIsGood ==
  ASSUME NEW p \in Profiles, NEW expires \in Int, NEW now \in Int
  PROVE  GoodDecision(Judge(MakeGroup(p), expires, now))
<1> DEFINE reason == Validate(MakeGroup(p), ContractUntil(expires), Manifest, now)
<1>1. CASE reason = Clean
  BY <1>1, DecideIsGood DEF Judge, DecideForCleanGroup
<1>2. CASE reason # Clean
  <2>1. reason \in RejectionReason
    BY <1>2, ValidatorFits DEF Toxic, Intended, RejectionReason
  <2>2. Judge(MakeGroup(p), expires, now) = Reject(reason)
    BY <1>2 DEF Judge
  <2>3. reason # NoReason
    BY <2>1, SimulationAssumption
  <2> HIDE DEF reason
  <2>4. Reject(reason) \in DecisionType
    BY <2>1 DEF Reject, Decision, DecisionType, Broker!Store!GroupStatus
  <2>5. /\ Reject(reason).status = "rejected" /\ Reject(reason).rejection = reason
        /\ Reject(reason).reasons = {}
    BY DEF Reject, Decision
  <2> QED
    BY <2>2, <2>3, <2>4, <2>5 DEF GoodDecision
<1> QED
  BY <1>1, <1>2

----------------------------------------------------------------------------
\* The threads

\* What may have been decided about a group of profile p by the time now.
Verdicts(p, expires, now) == {Judge(MakeGroup(p), expires, t) : t \in 0 .. now}

\* What the threads share keeps its types, and no lease is issued beyond the
\* jobs.
SharedTypes ==
  /\ clock \in Nat
  /\ queue \in Seq(Jobs)
  /\ \A j \in Jobs : jobs[j].key \in Jobs
  /\ leases \in Seq(Broker!Lease) /\ Len(leases) <= NumJobs
  /\ records \in Seq(Broker!Store!Record)

\* A thread at work holds the lease it was given, and one that has judged
\* its group has done so by now.
AtWork(w) ==
  /\ stage[w] \in {"judge", "submit", "note"} =>
       lease[w] \in DOMAIN leases /\ leases[lease[w]].worker = w
  /\ stage[w] \in {"submit", "note"} =>
       decision[w] \in Verdicts(profile[w], leases[lease[w]].expires, clock)

\* A stored group was judged as its profile has it, under the lease it came in.
JudgedInTime(i) ==
  LET l == records[i].group
  IN  /\ l \in DOMAIN leases
      /\ \E d \in Verdicts(profile[leases[l].worker], leases[l].expires, clock) :
           records[i].state = d.status /\ records[i].rejection = d.rejection

SimulationInv ==
  /\ SharedTypes
  /\ TypeOK
  /\ \A w \in Workers : AtWork(w)
  /\ \A i \in DOMAIN records : JudgedInTime(i)

\* The leases on record stay what they are, whoever moves.
LeasesStay ==
  /\ Len(leases) <= Len(leases')
  /\ \A l \in DOMAIN leases :
       /\ l \in DOMAIN leases'
       /\ leases'[l].worker = leases[l].worker
       /\ leases'[l].expires = leases[l].expires

\* A lease on record has the type of a lease.
LEMMA LeaseTypes ==
  ASSUME SharedTypes
  PROVE  /\ Len(leases) \in Nat /\ DOMAIN leases = 1 .. Len(leases)
         /\ Len(leases) <= NumJobs
         /\ \A l \in DOMAIN leases : /\ leases[l] \in Broker!Lease /\ l \in Jobs
                                     /\ leases[l].worker \in Workers
                                     /\ leases[l].expires \in Int
<1>1. leases \in Seq(Broker!Lease) /\ Len(leases) <= NumJobs
  BY DEF SharedTypes
<1>2. Len(leases) \in Nat /\ DOMAIN leases = 1 .. Len(leases)
  BY <1>1, LenProperties
<1>3. ASSUME NEW l \in DOMAIN leases
      PROVE  /\ leases[l] \in Broker!Lease /\ l \in Jobs
             /\ leases[l].worker \in Workers /\ leases[l].expires \in Int
  <2>1. leases[l] \in Broker!Lease
    BY <1>1, <1>2, <1>3, ElementOfSeq
  <2>2. l \in Jobs
    BY <1>1, <1>2, <1>3, SimulationAssumption DEF Jobs
  <2> QED
    BY <2>1, <2>2 DEF Broker!Lease
<1> QED
  BY <1>1, <1>2, <1>3

\* A new lease disturbs no other one.
LEMMA FetchEffect ==
  ASSUME SimulationInv, NEW w \in Workers, FetchLease(w)
  PROVE  /\ SharedTypes' /\ LeasesStay
         /\ Len(leases') = Len(leases) + 1
         /\ leases'[Len(leases) + 1].worker = w
         /\ UNCHANGED <<clock, records, profile, decision, submissions>>
<1> USE DEF SimulationInv
<1>1. PICK i \in DOMAIN queue : leases' = Append(leases, Broker!NewLease(w, queue[i]))
  BY DEF FetchLease, Broker!AcquireLease, Broker!Eligible
<1>2. /\ UNCHANGED <<clock, queue, jobs, records, profile, decision, submissions>>
      /\ Len(leases) < NumJobs
  BY DEF FetchLease, Broker!AcquireLease, Broker!jobVars, Broker!storeVars,
         Broker!timeVars
<1>3. queue[i] \in Jobs
  BY ElementOfSeq, LenProperties DEF SharedTypes
<1>4. Broker!NewLease(w, queue[i]) \in Broker!Lease
  BY <1>3, SimulationAssumption
  DEF SharedTypes, Broker!NewLease, Broker!Lease, Broker!LeaseState
<1>5. leases \in Seq(Broker!Lease) /\ Len(leases) \in Nat
  BY LeaseTypes DEF SharedTypes
<1> DEFINE new == Broker!NewLease(w, queue[i])
<1>6. new.worker = w
  BY DEF Broker!NewLease
<1> HIDE DEF new
<1>7. /\ leases' \in Seq(Broker!Lease) /\ Len(leases') = Len(leases) + 1
      /\ \A l \in 1 .. Len(leases) : leases'[l] = leases[l]
      /\ leases'[Len(leases) + 1] = new
      /\ DOMAIN leases = 1 .. Len(leases) /\ DOMAIN leases' = 1 .. Len(leases) + 1
  BY <1>1, <1>4, <1>5 DEF new
<1>8. LeasesStay
  BY <1>5, <1>7 DEF LeasesStay
<1>9. SharedTypes'
  BY <1>2, <1>5, <1>7, SimulationAssumption DEF SharedTypes
<1> QED
  BY <1>2, <1>6, <1>7, <1>8, <1>9

\* A submission stores the group under the id of the lease.
LEMMA SubmitEffect ==
  ASSUME SimulationInv, NEW w \in Workers, SubmitGroup(w)
  PROVE  /\ SharedTypes' /\ LeasesStay
         /\ Len(leases') = Len(leases)
         /\ lease[w] \in DOMAIN leases /\ leases[lease[w]].worker = w
         /\ Len(records') = Len(records) + 1
         /\ \A i \in DOMAIN records : records'[i] = records[i]
         /\ records'[Len(records) + 1].group = lease[w]
         /\ records'[Len(records) + 1].state = decision[w].status
         /\ records'[Len(records) + 1].rejection = decision[w].rejection
         /\ DOMAIN records = 1 .. Len(records) /\ Len(records) \in Nat
         /\ DOMAIN records' = 1 .. Len(records) + 1
         /\ UNCHANGED <<clock, profile, lease, decision, submissions>>
<1> USE DEF SimulationInv
<1> DEFINE l == lease[w]
           d == [status |-> decision[w].status, rejection |-> decision[w].rejection]
           new == Broker!Store!NewRecord(l, d)
<1>1. /\ stage[w] = "submit"
      /\ records' = Append(records, new)
      /\ leases' = [leases EXCEPT ![l].state = "submitted", ![l].group = l]
      /\ UNCHANGED <<clock, queue, jobs, profile, lease, decision, submissions>>
  BY DEF SubmitGroup, Broker!SubmitGroup, Broker!Store!Submit, Broker!jobVars,
         Broker!timeVars
<1>2. /\ l \in DOMAIN leases /\ leases[l].worker = w /\ l \in Jobs
      /\ leases[l] \in Broker!Lease /\ leases[l].expires \in Int
      /\ profile[w] \in Profiles
  BY <1>1, LeaseTypes DEF AtWork, TypeOK
<1>3. decision[w] \in Verdicts(profile[w], leases[l].expires, clock)
  BY <1>1 DEF AtWork
<1>4. GoodDecision(decision[w])
  <2>1. PICK t \in 0 .. clock : decision[w] = Judge(MakeGroup(profile[w]), leases[l].expires, t)
    BY <1>3 DEF Verdicts
  <2>2. t \in Int /\ leases[l].expires \in Int /\ profile[w] \in Profiles
    BY <1>2
  <2>3. GoodDecision(Judge(MakeGroup(profile[w]), leases[l].expires, t))
    BY <2>2, JudgeIsGood, Zenon
  <2> QED
    BY <2>1, <2>3, Zenon
<1>5. new \in Broker!Store!Record
  BY <1>2, <1>4 DEF GoodDecision, DecisionType, Broker!Store!NewRecord, Broker!Store!Record
<1>6. /\ new.group = l /\ new.state = decision[w].status
      /\ new.rejection = decision[w].rejection
  BY DEF Broker!Store!NewRecord
<1> HIDE DEF new, d, l
<1>7. records \in Seq(Broker!Store!Record) /\ Len(records) \in Nat
  BY LenProperties DEF SharedTypes
<1>8. /\ records' \in Seq(Broker!Store!Record) /\ Len(records') = Len(records) + 1
      /\ \A i \in 1 .. Len(records) : records'[i] = records[i]
      /\ records'[Len(records) + 1] = new
      /\ DOMAIN records = 1 .. Len(records)
      /\ DOMAIN records' = 1 .. Len(records) + 1
  BY <1>1, <1>5, <1>7
<1>9. /\ leases \in Seq(Broker!Lease) /\ Len(leases) \in Nat
      /\ DOMAIN leases = 1 .. Len(leases)
  BY LeaseTypes DEF SharedTypes
<1>10. [leases[l] EXCEPT !.state = "submitted", !.group = l] \in Broker!Lease
  BY <1>2 DEF Broker!Lease, Broker!LeaseState
<1>11. leases' = [leases EXCEPT ![l] =
                   [leases[l] EXCEPT !.state = "submitted", !.group = l]]
  BY <1>1, <1>2
<1>12. /\ leases' \in Seq(Broker!Lease) /\ Len(leases') = Len(leases)
       /\ DOMAIN leases' = DOMAIN leases
  BY <1>2, <1>9, <1>10, <1>11
<1>13. \A k \in DOMAIN leases : /\ leases'[k].worker = leases[k].worker
                                /\ leases'[k].expires = leases[k].expires
  BY <1>2, <1>11 DEF Broker!Lease
<1>14. LeasesStay
  BY <1>9, <1>12, <1>13 DEF LeasesStay
<1>15. SharedTypes'
  BY <1>1, <1>8, <1>12 DEF SharedTypes
<1> QED
  BY <1>1, <1>2, <1>6, <1>7, <1>8, <1>12, <1>14, <1>15 DEF l

\* Leases that stay keep what was decided under them, as time goes on.
LEMMA VerdictsStay ==
  ASSUME SimulationInv, LeasesStay, clock' \in Nat, clock <= clock',
         NEW l \in DOMAIN leases, NEW p
  PROVE  Verdicts(p, leases[l].expires, clock)
           \subseteq Verdicts(p, leases'[l].expires, clock')
<1>1. 0 .. clock \subseteq 0 .. clock'
  BY DEF SimulationInv, SharedTypes
<1> QED
  BY <1>1 DEF Verdicts, LeasesStay

\* Every step keeps what is shared, and the leases.
LEMMA SharedStays ==
  ASSUME SimulationInv, [Next]_vars
  PROVE  /\ SharedTypes' /\ LeasesStay
         /\ clock' \in Nat /\ clock <= clock' /\ profile' = profile
<1>1. clock \in Nat /\ Len(leases) \in Nat /\ DOMAIN leases = 1 .. Len(leases)
  BY LeaseTypes DEF SimulationInv, SharedTypes
<1>2. ASSUME UNCHANGED <<brokerVars, profile>>
      PROVE  /\ SharedTypes' /\ LeasesStay
             /\ clock' \in Nat /\ clock <= clock' /\ profile' = profile
  BY <1>1, <1>2 DEF SimulationInv, SharedTypes, LeasesStay, brokerVars
<1>3. ASSUME NEW w \in Workers, FetchLease(w)
      PROVE  /\ SharedTypes' /\ LeasesStay
             /\ clock' \in Nat /\ clock <= clock' /\ profile' = profile
  BY <1>1, <1>3, FetchEffect
<1>4. ASSUME NEW w \in Workers, SubmitGroup(w)
      PROVE  /\ SharedTypes' /\ LeasesStay
             /\ clock' \in Nat /\ clock <= clock' /\ profile' = profile
  BY <1>1, <1>4, SubmitEffect
<1>5. ASSUME Tick
      PROVE  /\ SharedTypes' /\ LeasesStay
             /\ clock' \in Nat /\ clock <= clock' /\ profile' = profile
  BY <1>1, <1>5 DEF SimulationInv, SharedTypes, LeasesStay, Tick, Broker!Tick,
    Broker!jobVars, Broker!leaseVars, Broker!storeVars
<1> QED
  BY <1>2, <1>3, <1>4, <1>5 DEF Next, SharedStep, vars, ReachBarrier, PassBarrier,
    FetchNothing, JudgeGroup, NoteDecision, ReportResult

Submissions == [worker : Workers, profile : Profiles, decision : DecisionType]

ThreadsTyped ==
  /\ profile \in [Workers -> Profiles]
  /\ stage \in [Workers -> Stages]
  /\ lease \in [Workers -> 0 .. Len(leases)]
  /\ decision \in [Workers -> DecisionType \cup {NoDecision}]
  /\ \A w \in Workers : decision[w] # NoDecision => GoodDecision(decision[w])
  /\ submissions \in Seq(Submissions)

\* The type invariant in these terms, before and after a step.
LEMMA TypesByThread == (TypeOK <=> ThreadsTyped) /\ (TypeOK' <=> ThreadsTyped')
<1>1. TypeOK => \A w \in Workers : decision[w] # NoDecision => decision[w] \in DecisionType
  BY DEF TypeOK
<1>2. TypeOK' => \A w \in Workers : decision'[w] # NoDecision => decision'[w] \in DecisionType
  BY DEF TypeOK
<1>3. TypeOK <=> ThreadsTyped
  BY <1>1, Zenon
  DEF TypeOK, ThreadsTyped, GoodDecision, Submissions, Broker!Store!Typed
<1>4. TypeOK' <=> ThreadsTyped'
  BY <1>2, Zenon
  DEF TypeOK, ThreadsTyped, GoodDecision, Submissions, Broker!Store!Typed
<1> QED
  BY <1>3, <1>4

\* A thread that does not move stays at work.
LEMMA OthersStay ==
  ASSUME SimulationInv, [Next]_vars, NEW w \in Workers,
         stage'[w] = stage[w], lease'[w] = lease[w], decision'[w] = decision[w]
  PROVE  AtWork(w)'
<1>1. /\ LeasesStay /\ clock' \in Nat /\ clock <= clock' /\ profile' = profile
  BY SharedStays
<1>2. AtWork(w)
  BY DEF SimulationInv
<1>3. CASE stage[w] \in {"judge", "submit", "note"}
  <2>1. lease[w] \in DOMAIN leases /\ leases[lease[w]].worker = w
    BY <1>2, <1>3 DEF AtWork
  <2>2. lease'[w] \in DOMAIN leases' /\ leases'[lease'[w]].worker = w
    BY <1>1, <2>1 DEF LeasesStay
  <2>3. stage[w] \in {"submit", "note"} =>
          decision'[w] \in Verdicts(profile'[w], leases'[lease'[w]].expires, clock')
    BY <1>1, <1>2, <2>1, VerdictsStay DEF AtWork
  <2> QED
    BY <2>2, <2>3 DEF AtWork
<1> QED
  BY <1>3 DEF AtWork

\* A record that stays was judged in time.
LEMMA RecordsStay ==
  ASSUME SimulationInv, [Next]_vars, NEW i \in DOMAIN records,
         records'[i] = records[i]
  PROVE  JudgedInTime(i)'
<1> DEFINE l == records[i].group
<1>1. /\ LeasesStay /\ clock' \in Nat /\ clock <= clock' /\ profile' = profile
  BY SharedStays
<1>2. JudgedInTime(i)
  BY DEF SimulationInv
<1>3. l \in DOMAIN leases
  BY <1>2 DEF JudgedInTime
<1>4. PICK d \in Verdicts(profile[leases[l].worker], leases[l].expires, clock) :
        records[i].state = d.status /\ records[i].rejection = d.rejection
  BY <1>2 DEF JudgedInTime
<1>5. /\ l \in DOMAIN leases' /\ leases'[l].worker = leases[l].worker
      /\ d \in Verdicts(profile'[leases'[l].worker], leases'[l].expires, clock')
  BY <1>1, <1>3, <1>4, VerdictsStay DEF LeasesStay
<1> QED
  BY <1>4, <1>5 DEF JudgedInTime

\* The steps that leave the types of the threads alone.
LEMMA TypesStay ==
  ASSUME SimulationInv, [Next]_vars, UNCHANGED <<lease, decision, submissions>>,
         stage' \in [Workers -> Stages]
  PROVE  TypeOK'
<1>1. LeasesStay /\ profile' = profile /\ Len(leases) \in Nat /\ Len(leases') \in Nat
  BY SharedStays, LeaseTypes, LenProperties DEF SimulationInv, SharedTypes
<1>2. \A n \in 0 .. Len(leases) : n \in 0 .. Len(leases')
  BY <1>1 DEF LeasesStay
<1>3. lease \in [Workers -> 0 .. Len(leases)]
  BY DEF SimulationInv, TypeOK
<1>4. lease' \in [Workers -> 0 .. Len(leases')]
  BY <1>2, <1>3
<1> QED
  BY <1>1, <1>4, TypesByThread DEF SimulationInv, ThreadsTyped

\* What a thread decides is a decision.
LEMMA DecisionTypes ==
  ASSUME SimulationInv, NEW w \in Workers, stage[w] \in {"submit", "note"}
  PROVE  GoodDecision(decision[w])
<1>1. /\ lease[w] \in DOMAIN leases
      /\ decision[w] \in Verdicts(profile[w], leases[lease[w]].expires, clock)
  BY DEF SimulationInv, AtWork
<1>2. /\ leases[lease[w]].expires \in Int /\ profile[w] \in Profiles
      /\ clock \in Nat
  BY <1>1, LeaseTypes DEF SimulationInv, TypeOK, SharedTypes
<1>3. PICK t \in 0 .. clock :
        decision[w] = Judge(MakeGroup(profile[w]), leases[lease[w]].expires, t)
  BY <1>1 DEF Verdicts
<1>4. t \in Int
  BY <1>2
<1>5. GoodDecision(Judge(MakeGroup(profile[w]), leases[lease[w]].expires, t))
  BY <1>2, <1>4, JudgeIsGood, Zenon
<1> QED
  BY <1>3, <1>5, Zenon

\* A thread that moves on.
LEMMA Moved ==
  ASSUME TypeOK, NEW w \in Workers, NEW s \in Stages, Goto(w, s)
  PROVE  /\ stage' \in [Workers -> Stages] /\ stage'[w] = s
         /\ \A v \in Workers \ {w} : stage'[v] = stage[v]
BY DEF TypeOK, Goto

\* No step breaks the invariant.
LEMMA SimulationInductive == SimulationInv /\ [Next]_vars => SimulationInv'
<1> SUFFICES ASSUME SimulationInv, [Next]_vars
             PROVE  SimulationInv'
  OBVIOUS
<1>1. SharedTypes' /\ LeasesStay /\ profile' = profile
  BY SharedStays
<1>2. TypeOK
  BY DEF SimulationInv
<1> DEFINE Kept == /\ TypeOK'
                   /\ \A v \in Workers : AtWork(v)'
                   /\ \A i \in DOMAIN records' : JudgedInTime(i)'
<1>3. ASSUME UNCHANGED records PROVE \A i \in DOMAIN records' : JudgedInTime(i)'
  BY <1>3, RecordsStay
<1>4. ASSUME UNCHANGED <<records, stage, lease, decision, submissions>>
      PROVE  Kept
  <2>1. \A v \in Workers : AtWork(v)'
    BY <1>4, OthersStay
  <2>2. stage' \in [Workers -> Stages]
    BY <1>2, <1>4 DEF TypeOK
  <2> QED
    BY <1>3, <1>4, <2>1, <2>2, TypesStay
<1>5. ASSUME NEW w \in Workers, ReachBarrier(w) PROVE Kept
  <2>1. /\ stage' \in [Workers -> Stages] /\ stage'[w] = "barrier"
        /\ \A v \in Workers \ {w} : stage'[v] = stage[v]
    BY <1>2, <1>5, Moved DEF ReachBarrier, Stages
  <2>2. UNCHANGED <<records, lease, decision, submissions>>
    BY <1>5 DEF ReachBarrier, brokerVars
  <2>3. \A v \in Workers : AtWork(v)'
    BY <2>1, <2>2, OthersStay DEF AtWork
  <2> QED
    BY <1>3, <2>1, <2>2, <2>3, TypesStay
<1>6. ASSUME NEW w \in Workers, PassBarrier(w) PROVE Kept
  <2>1. /\ stage' \in [Workers -> Stages] /\ stage'[w] = "fetch"
        /\ \A v \in Workers \ {w} : stage'[v] = stage[v]
    BY <1>2, <1>6, Moved DEF PassBarrier, Stages
  <2>2. UNCHANGED <<records, lease, decision, submissions>>
    BY <1>6 DEF PassBarrier, brokerVars
  <2>3. \A v \in Workers : AtWork(v)'
    BY <2>1, <2>2, OthersStay DEF AtWork
  <2> QED
    BY <1>3, <2>1, <2>2, <2>3, TypesStay
<1>7. ASSUME NEW w \in Workers, FetchNothing(w) PROVE Kept
  <2>1. /\ stage' \in [Workers -> Stages] /\ stage'[w] = "returned"
        /\ \A v \in Workers \ {w} : stage'[v] = stage[v]
    BY <1>2, <1>7, Moved DEF FetchNothing, Stages
  <2>2. UNCHANGED <<records, lease, decision, submissions>>
    BY <1>7 DEF FetchNothing, brokerVars
  <2>3. \A v \in Workers : AtWork(v)'
    BY <2>1, <2>2, OthersStay DEF AtWork
  <2> QED
    BY <1>3, <2>1, <2>2, <2>3, TypesStay
<1>8. ASSUME NEW w \in Workers, FetchLease(w) PROVE Kept
  <2>1. /\ stage' \in [Workers -> Stages] /\ stage'[w] = "judge"
        /\ \A v \in Workers \ {w} : stage'[v] = stage[v]
    BY <1>2, <1>8, Moved DEF FetchLease, Stages
  <2>2. /\ Len(leases') = Len(leases) + 1
        /\ leases'[Len(leases) + 1].worker = w
        /\ UNCHANGED <<clock, records, profile, decision, submissions>>
        /\ lease' = [lease EXCEPT ![w] = Len(leases) + 1]
    BY <1>8, FetchEffect DEF FetchLease
  <2>3. Len(leases) \in Nat /\ lease \in [Workers -> 0 .. Len(leases)]
    BY LeaseTypes DEF SimulationInv, TypeOK
  <2>4. /\ lease' \in [Workers -> 0 .. Len(leases')] /\ lease'[w] = Len(leases) + 1
        /\ \A v \in Workers \ {w} : lease'[v] = lease[v]
    BY <2>2, <2>3
  <2>5. Len(leases) + 1 \in DOMAIN leases'
    <3>1. leases' \in Seq(Broker!Lease)
      BY <1>1 DEF SharedTypes
    <3> QED
      BY <2>2, <2>3, <3>1
  <2>6. AtWork(w)'
    BY <2>1, <2>2, <2>4, <2>5 DEF AtWork
  <2>7. \A v \in Workers : AtWork(v)'
    BY <2>1, <2>2, <2>4, <2>6, OthersStay
  <2>8. TypeOK'
    BY <1>2, <2>1, <2>2, <2>4, TypesByThread DEF ThreadsTyped
  <2> QED
    BY <1>3, <2>2, <2>7, <2>8
<1>9. ASSUME NEW w \in Workers, JudgeGroup(w) PROVE Kept
  <2> DEFINE new == Judge(MakeGroup(profile[w]), leases[lease[w]].expires, clock)
  <2>1. /\ stage' \in [Workers -> Stages] /\ stage'[w] = "submit"
        /\ \A v \in Workers \ {w} : stage'[v] = stage[v]
    BY <1>2, <1>9, Moved DEF JudgeGroup, LeaveJudgement, Stages
  <2>2. /\ UNCHANGED <<clock, leases, records, profile, lease, submissions>>
        /\ decision' = [decision EXCEPT ![w] = new]
        /\ stage[w] = "judge"
    BY <1>9 DEF JudgeGroup, LeaveJudgement, brokerVars
  <2>3. /\ lease[w] \in DOMAIN leases /\ leases[lease[w]].worker = w
        /\ leases[lease[w]].expires \in Int /\ clock \in Nat /\ profile[w] \in Profiles
    <3>1. AtWork(w) /\ SharedTypes
      BY DEF SimulationInv
    <3>2. lease[w] \in DOMAIN leases /\ leases[lease[w]].worker = w
      BY <2>2, <3>1 DEF AtWork
    <3> QED
      BY <1>2, <3>1, <3>2, LeaseTypes DEF SharedTypes, TypeOK
  <2>4. GoodDecision(new)
    <3>1. clock \in Int
      BY <2>3
    <3> QED
      BY <2>3, <3>1, JudgeIsGood, Zenon
  <2>5. new \in Verdicts(profile[w], leases[lease[w]].expires, clock)
    BY <2>3 DEF Verdicts
  <2> HIDE DEF new
  <2>6. /\ decision' \in [Workers -> DecisionType \cup {NoDecision}]
        /\ decision'[w] = new
        /\ \A v \in Workers \ {w} : decision'[v] = decision[v]
    BY <1>2, <2>2, <2>4 DEF TypeOK, GoodDecision
  <2>7. AtWork(w)'
    BY <2>1, <2>2, <2>3, <2>5, <2>6 DEF AtWork
  <2>8. \A v \in Workers : AtWork(v)'
    BY <2>1, <2>2, <2>6, <2>7, OthersStay
  <2>9. TypeOK'
    BY <1>2, <2>1, <2>2, <2>4, <2>6, TypesByThread DEF ThreadsTyped
  <2> QED
    BY <1>3, <2>2, <2>8, <2>9
<1>10. ASSUME NEW w \in Workers, SubmitGroup(w) PROVE Kept
  <2>1. /\ stage' \in [Workers -> Stages] /\ stage'[w] = "note"
        /\ \A v \in Workers \ {w} : stage'[v] = stage[v]
    BY <1>2, <1>10, Moved DEF SubmitGroup, Stages
  <2> DEFINE n == Len(records) + 1
             l == lease[w]
  <2>2. /\ l \in DOMAIN leases /\ leases[l].worker = w
        /\ \A i \in DOMAIN records : records'[i] = records[i]
        /\ records'[n].group = l
        /\ records'[n].state = decision[w].status
        /\ records'[n].rejection = decision[w].rejection
        /\ DOMAIN records = 1 .. Len(records) /\ Len(records) \in Nat
        /\ DOMAIN records' = 1 .. n
        /\ UNCHANGED <<clock, profile, lease, decision, submissions>>
    BY <1>10, SubmitEffect
  <2>3. stage[w] = "submit"
    BY <1>10 DEF SubmitGroup
  <2>4. decision[w] \in Verdicts(profile[w], leases[l].expires, clock)
    BY <2>3 DEF SimulationInv, AtWork
  <2>5. /\ l \in DOMAIN leases' /\ leases'[l].worker = w
        /\ leases'[l].expires = leases[l].expires
    BY <1>1, <2>2 DEF LeasesStay
  <2>6. ASSUME NEW i \in DOMAIN records', i \notin DOMAIN records
        PROVE  JudgedInTime(i)'
    <3>1. i = n
      BY <2>2, <2>6
    <3> QED
      BY <2>2, <2>4, <2>5, <3>1 DEF JudgedInTime
  <2>7. \A i \in DOMAIN records' : JudgedInTime(i)'
    BY <2>2, <2>6, RecordsStay
  <2>8. AtWork(w)'
    BY <2>1, <2>2, <2>4, <2>5 DEF AtWork
  <2>9. \A v \in Workers : AtWork(v)'
    BY <2>1, <2>2, <2>8, OthersStay
  <2> QED
    BY <2>1, <2>2, <2>7, <2>9, TypesStay
<1>11. ASSUME NEW w \in Workers, NoteDecision(w) PROVE Kept
  <2> DEFINE entry == [worker |-> w, profile |-> profile[w], decision |-> decision[w]]
  <2>1. /\ stage' \in [Workers -> Stages] /\ stage'[w] = "fetch"
        /\ \A v \in Workers \ {w} : stage'[v] = stage[v]
    BY <1>2, <1>11, Moved DEF NoteDecision, Stages
  <2>2. /\ UNCHANGED <<clock, leases, records, profile>>
        /\ submissions' = Append(submissions, entry)
        /\ lease' = [lease EXCEPT ![w] = 0]
        /\ decision' = [decision EXCEPT ![w] = NoDecision]
        /\ stage[w] = "note"
    BY <1>11 DEF NoteDecision, brokerVars
  <2>3. entry \in Submissions
    BY <1>2, <2>2, DecisionTypes DEF Submissions, GoodDecision, TypeOK
  <2> HIDE DEF entry
  <2>4. submissions' \in Seq(Submissions)
    BY <1>2, <2>2, <2>3, TypesByThread DEF ThreadsTyped
  <2>5. /\ lease' \in [Workers -> 0 .. Len(leases')]
        /\ \A v \in Workers \ {w} : lease'[v] = lease[v]
    BY <1>2, <2>2, LeaseTypes DEF TypeOK, SimulationInv
  <2>6. /\ decision' \in [Workers -> DecisionType \cup {NoDecision}]
        /\ decision'[w] = NoDecision
        /\ \A v \in Workers \ {w} : decision'[v] = decision[v]
    BY <1>2, <2>2 DEF TypeOK
  <2>7. \A v \in Workers : AtWork(v)'
    BY <2>1, <2>5, <2>6, OthersStay DEF AtWork
  <2>8. TypeOK'
    BY <1>2, <2>1, <2>2, <2>4, <2>5, <2>6, TypesByThread DEF ThreadsTyped
  <2> QED
    BY <1>3, <2>2, <2>7, <2>8
<1>12. ASSUME ReportResult \/ Tick \/ UNCHANGED vars PROVE Kept
  <2>1. UNCHANGED <<records, stage, lease, decision, submissions>>
    BY <1>12 DEF ReportResult, Tick, Broker!Tick, Broker!storeVars, vars, brokerVars
  <2> QED
    BY <1>4, <2>1
<1>13. Kept
  BY <1>5, <1>6, <1>7, <1>8, <1>9, <1>10, <1>11, <1>12 DEF Next, SharedStep
<1> QED
  BY <1>1, <1>13 DEF SimulationInv

\* It holds when the threads have been made.
LEMMA SimulationStarts == Init => SimulationInv
<1> SUFFICES ASSUME Init PROVE SimulationInv
  OBVIOUS
<1>1. /\ clock = 0 /\ records = << >> /\ leases = << >> /\ submissions = << >>
      /\ queue = [j \in Jobs |-> j] /\ jobs = [j \in Jobs |-> Job(j)]
      /\ profile \in [Workers -> Profiles]
      /\ stage = [w \in Workers |-> "started"]
      /\ lease = [w \in Workers |-> 0]
      /\ decision = [w \in Workers |-> NoDecision]
  BY DEF Init
<1>2. SharedTypes
  <2>1. queue \in Seq(Jobs)
    BY <1>1, SimulationAssumption, SeqDef DEF Jobs
  <2>2. \A j \in Jobs : jobs[j].key \in Jobs
    BY <1>1 DEF Job
  <2>3. Len(leases) <= NumJobs
    BY <1>1, SimulationAssumption
  <2> QED
    BY <1>1, <2>1, <2>2, <2>3 DEF SharedTypes
<1>3. TypeOK
  <2>1. /\ Len(leases) = 0 /\ submissions \in Seq(Submissions)
        /\ lease \in [Workers -> 0 .. Len(leases)]
    BY <1>1
  <2>2. \A w \in Workers : decision[w] = NoDecision
    BY <1>1
  <2> QED
    BY <1>1, <2>1, <2>2, TypesByThread DEF ThreadsTyped, Stages
<1>4. \A w \in Workers : AtWork(w)
  BY <1>1 DEF AtWork
<1>5. \A i \in DOMAIN records : JudgedInTime(i)
  BY <1>1
<1> QED
  BY <1>2, <1>3, <1>4, <1>5 DEF SimulationInv

LEMMA SimulationInvariant == Spec => []SimulationInv
BY SimulationStarts, SimulationInductive, PTL DEF Spec

\* The threads keep their types for any number of workers and jobs, and the
\* decision any of them holds or has noted is one that GroupDecision accepts.
THEOREM SimulationTypeCorrect == Spec => []TypeOK
<1>1. SimulationInv => TypeOK
  BY DEF SimulationInv
<1> QED
  BY <1>1, SimulationInvariant, PTL

\* Which verdicts reject.
LEMMA VerdictRejects ==
  ASSUME NEW p \in Profiles, NEW expires \in Int, NEW now \in Nat,
         NEW d \in Verdicts(p, expires, now)
  PROVE  /\ d.status = "rejected" <=> p \in Toxic \/ d.rejection = "expired_lease"
         /\ d.rejection = "expired_lease" => now >= expires
<1>1. PICK t \in 0 .. now : d = Judge(MakeGroup(p), expires, t)
  BY DEF Verdicts
<1>2. t \in Int /\ t <= now
  OBVIOUS
<1> DEFINE reason == Validate(MakeGroup(p), ContractUntil(expires), Manifest, t)
           clean  == DecideForCleanGroup(MakeGroup(p))
<1>3. reason = IF t >= expires THEN "expired_lease"
               ELSE IF p \in Toxic THEN Intended(p)[2] ELSE Clean
  BY <1>2, ValidatorFits, Zenon
<1>4. d = IF reason # Clean THEN Reject(reason) ELSE clean
  BY <1>1 DEF Judge
<1>5. (clean.status = "rejected" <=> clean.rejection # NoReason) /\ clean.rejection = NoReason
  BY DecideIsGood DEF DecideForCleanGroup, GoodDecision
<1> HIDE DEF reason, clean
<1>6. /\ "expired_lease" # Clean /\ "expired_lease" # NoReason
      /\ \A q \in Toxic : Intended(q)[2] # Clean /\ Intended(q)[2] # "expired_lease"
  BY SimulationAssumption DEF RejectionReason, Toxic, Intended
<1>7. \A r : Reject(r).status = "rejected" /\ Reject(r).rejection = r
  BY DEF Reject, Decision
<1>8. CASE t >= expires
  BY <1>2, <1>3, <1>4, <1>6, <1>7, <1>8
<1>9. CASE ~ (t >= expires) /\ p \in Toxic
  <2>1. d = Reject(Intended(p)[2])
    BY <1>3, <1>4, <1>6, <1>9
  <2> QED
    BY <1>6, <1>7, <1>9, <2>1
<1>10. CASE ~ (t >= expires) /\ p \notin Toxic
  BY <1>3, <1>4, <1>5, <1>6, <1>10
<1> QED
  BY <1>8, <1>9, <1>10

\* Whatever exp is, no group of a toxic worker gets into the store as anything
\* but rejected, and no other group is rejected unless its lease ran out, by
\* the clock of its judgement, before the group was judged.
THEOREM ToxicAreRejected ==
  Spec => [](\A i \in DOMAIN records :
    LET l == records[i].group
    IN  /\ records[i].state = "rejected" <=>
             \/ profile[leases[l].worker] \in Toxic
             \/ records[i].rejection = "expired_lease"
        /\ records[i].rejection = "expired_lease" => Broker!IsExpired(l, clock))
<1> DEFINE Kept(i) ==
      LET l == records[i].group
      IN  /\ records[i].state = "rejected" <=>
               \/ profile[leases[l].worker] \in Toxic
               \/ records[i].rejection = "expired_lease"
          /\ records[i].rejection = "expired_lease" => Broker!IsExpired(l, clock)
<1>1. SimulationInv => \A i \in DOMAIN records : Kept(i)
  <2> SUFFICES ASSUME SimulationInv, NEW i \in DOMAIN records PROVE Kept(i)
    OBVIOUS
  <2> DEFINE l == records[i].group
             p == profile[leases[l].worker]
  <2>1. /\ l \in DOMAIN leases
        /\ \E d \in Verdicts(p, leases[l].expires, clock) :
             records[i].state = d.status /\ records[i].rejection = d.rejection
    BY DEF SimulationInv, JudgedInTime
  <2>2. PICK d \in Verdicts(p, leases[l].expires, clock) :
          records[i].state = d.status /\ records[i].rejection = d.rejection
    BY <2>1
  <2>3. p \in Profiles /\ leases[l].expires \in Int /\ clock \in Nat
    BY <2>1, LeaseTypes DEF SimulationInv, SharedTypes, TypeOK
  <2> HIDE DEF p, l
  <2>4. /\ d.status = "rejected" <=> p \in Toxic \/ d.rejection = "expired_lease"
        /\ d.rejection = "expired_lease" => clock >= leases[l].expires
    BY <2>2, <2>3, VerdictRejects
  <2>5. /\ records[i].state = "rejected" <=>
             p \in Toxic \/ records[i].rejection = "expired_lease"
        /\ records[i].rejection = "expired_lease" => Broker!IsExpired(l, clock)
    BY <2>2, <2>4 DEF Broker!IsExpired
  <2> QED
    BY <2>5 DEF p, l
<1> QED
  BY <1>1, SimulationInvariant, PTL

\* What decide_group makes of the three groups that pass the contract check.
\* It is one computation for each of them, which TLC does where the simulation
\* is checked and the provers cannot do.
CleanAsIntended ==
  \A p \in Profiles \ Toxic :
    LET d == DecideForCleanGroup(MakeGroup(p))
    IN  <<d.status, d.rejection>> = Intended(p)

\* A verdict given by now is the intended one, or the lease has run out.
LEMMA VerdictFits ==
  ASSUME CleanAsIntended, NEW p \in Profiles, NEW expires \in Int, NEW now \in Nat,
         NEW d \in Verdicts(p, expires, now)
  PROVE  \/ <<d.status, d.rejection>> = Intended(p)
         \/ d.rejection = "expired_lease" /\ now >= expires
<1>1. PICK t \in 0 .. now : d = Judge(MakeGroup(p), expires, t)
  BY DEF Verdicts
<1>2. t \in Int /\ t <= now
  OBVIOUS
<1> DEFINE reason == Validate(MakeGroup(p), ContractUntil(expires), Manifest, t)
<1>3. reason = IF t >= expires THEN "expired_lease"
               ELSE IF p \in Toxic THEN Intended(p)[2] ELSE Clean
  BY <1>2, ValidatorFits, Zenon
<1>4. d = IF reason # Clean THEN Reject(reason) ELSE DecideForCleanGroup(MakeGroup(p))
  BY <1>1 DEF Judge
<1> HIDE DEF reason
<1>5. "expired_lease" # Clean /\ \A q \in Toxic : /\ Intended(q)[2] # Clean
                                                  /\ Intended(q)[1] = "rejected"
                                                  /\ Intended(q) = <<Intended(q)[1], Intended(q)[2]>>
  BY SimulationAssumption DEF RejectionReason, Toxic, Intended
<1>6. \A r : Reject(r).status = "rejected" /\ Reject(r).rejection = r
  BY DEF Reject, Decision
<1>7. CASE t >= expires
  BY <1>2, <1>3, <1>4, <1>5, <1>6, <1>7
<1>8. CASE ~ (t >= expires) /\ p \in Toxic
  <2>1. d = Reject(Intended(p)[2])
    BY <1>3, <1>4, <1>5, <1>8
  <2> QED
    BY <1>5, <1>6, <1>8, <2>1
<1>9. CASE ~ (t >= expires) /\ p \notin Toxic
  <2>1. d = DecideForCleanGroup(MakeGroup(p))
    BY <1>3, <1>4, <1>9
  <2> QED
    BY <1>9, <2>1 DEF CleanAsIntended
<1> QED
  BY <1>7, <1>8, <1>9

\* Whatever the threads do to each other, every stored group has the verdict
\* its profile is written to provoke or came after the deadline, provided
\* exp gives the three clean groups theirs.
THEOREM EveryVerdictFits ==
  ASSUME CleanAsIntended
  PROVE  Spec => []VerdictsFitProfiles
<1>1. SimulationInv => VerdictsFitProfiles
  <2> SUFFICES ASSUME SimulationInv, NEW i \in DOMAIN records
               PROVE  LET l == records[i].group
                      IN  \/ <<records[i].state, records[i].rejection>>
                               = Intended(profile[leases[l].worker])
                          \/ /\ records[i].rejection = "expired_lease"
                             /\ Broker!IsExpired(l, clock)
    BY DEF VerdictsFitProfiles
  <2> DEFINE l == records[i].group
             p == profile[leases[l].worker]
  <2>1. /\ l \in DOMAIN leases
        /\ \E d \in Verdicts(p, leases[l].expires, clock) :
             records[i].state = d.status /\ records[i].rejection = d.rejection
    BY DEF SimulationInv, JudgedInTime
  <2>2. PICK d \in Verdicts(p, leases[l].expires, clock) :
          records[i].state = d.status /\ records[i].rejection = d.rejection
    BY <2>1
  <2>3. p \in Profiles /\ leases[l].expires \in Int /\ clock \in Nat
    BY <2>1, LeaseTypes DEF SimulationInv, SharedTypes, TypeOK
  <2> HIDE DEF p, l
  <2>4. \/ <<d.status, d.rejection>> = Intended(p)
        \/ d.rejection = "expired_lease" /\ clock >= leases[l].expires
    BY <2>2, <2>3, VerdictFits
  <2>5. \/ <<records[i].state, records[i].rejection>> = Intended(p)
        \/ records[i].rejection = "expired_lease" /\ Broker!IsExpired(l, clock)
    BY <2>2, <2>4 DEF Broker!IsExpired
  <2> QED
    BY <2>5 DEF p, l
<1> QED
  BY <1>1, SimulationInvariant, PTL

----------------------------------------------------------------------------
\* How the report counts

\* A bag made of a sequence holds every value as often as the sequence does.
LEMMA CopiesInBag ==
  ASSUME NEW s, NEW e
  PROVE  Copies(e, ToBag(s)) = Cardinality({i \in DOMAIN s : s[i] = e})
<1> DEFINE values == {s[i] : i \in DOMAIN s}
<1>1. ToBag(s) = [x \in values |-> Cardinality({i \in DOMAIN s : s[i] = x})]
  BY DEF ToBag, Range
<1>2. CASE e \in values
  BY <1>1, <1>2 DEF Copies
<1>3. CASE e \notin values
  <2>1. {i \in DOMAIN s : s[i] = e} = {}
    BY <1>3
  <2> QED
    BY <1>1, <1>3, <2>1, FS_EmptySet DEF Copies
<1> QED
  BY <1>2, <1>3

\* Summing such a bag over some values counts the places that hold one of
\* them, in whatever order the values are taken.
LEMMA SumOfBag ==
  ASSUME NEW s, IsFiniteSet(DOMAIN s), NEW V \in SUBSET DOMAIN ToBag(s)
  PROVE  SumFunctionOnSet(ToBag(s), V) = Cardinality({i \in DOMAIN s : s[i] \in V})
<1> DEFINE Places(T) == {i \in DOMAIN s : s[i] \in T}
           bag == ToBag(s)
           Sums(sum) == sum = [T \in SUBSET V |->
             IF T = {} THEN 0
             ELSE bag[CHOOSE x \in T : TRUE] + sum[T \ {CHOOSE x \in T : TRUE}]]
           count == [T \in SUBSET V |-> Cardinality(Places(T))]
           sum == CHOOSE f : Sums(f)
<1>1. SumFunctionOnSet(bag, V) = sum[V]
  BY DEF SumFunctionOnSet, FoldFunctionOnSet, MapThenFoldSet
<1>2. \A T \in SUBSET V : IsFiniteSet(Places(T)) /\ Cardinality(Places(T)) \in Nat
  BY FS_Subset, FS_CardinalityType
<1>3. ASSUME NEW T \in SUBSET V, NEW x \in T
      PROVE  Cardinality(Places(T)) = bag[x] + Cardinality(Places(T \ {x}))
  <2>1. bag[x] = Cardinality(Places({x}))
    <3>1. x \in {s[i] : i \in DOMAIN s} /\ Places({x}) = {i \in DOMAIN s : s[i] = x}
      BY DEF ToBag, Range
    <3> QED
      BY <3>1 DEF ToBag, Range
  <2>2. /\ Places(T) = Places({x}) \cup Places(T \ {x})
        /\ Places({x}) \cap Places(T \ {x}) = {}
    OBVIOUS
  <2>3. {x} \in SUBSET V /\ T \ {x} \in SUBSET V
    OBVIOUS
  <2>4. IsFiniteSet(Places({x})) /\ IsFiniteSet(Places(T \ {x}))
    BY <1>2, <2>3
  <2> HIDE DEF Places, bag
  <2>5. Cardinality(Places({x}) \cup Places(T \ {x})) =
          Cardinality(Places({x})) + Cardinality(Places(T \ {x}))
            - Cardinality(Places({x}) \cap Places(T \ {x}))
    BY <2>4, FS_Union
  <2>6. /\ Cardinality(Places({x})) \in Nat /\ Cardinality(Places(T \ {x})) \in Nat
        /\ Cardinality({}) = 0
    BY <2>4, FS_CardinalityType, FS_EmptySet
  <2>7. /\ Cardinality(Places(T)) = Cardinality(Places({x}) \cup Places(T \ {x}))
        /\ Cardinality(Places({x}) \cap Places(T \ {x})) = Cardinality({})
    BY <2>2
  <2> QED
    BY <2>1, <2>5, <2>6, <2>7
<1>4. Cardinality(Places({})) = 0
  <2>1. Places({}) = {}
    OBVIOUS
  <2> QED
    BY <2>1, FS_EmptySet
<1> HIDE DEF Places, bag
<1>5. Sums(count)
  <2>1. ASSUME NEW T \in SUBSET V
        PROVE  count[T] = IF T = {} THEN 0
                 ELSE bag[CHOOSE x \in T : TRUE] + count[T \ {CHOOSE x \in T : TRUE}]
    <3>1. CASE T = {}
      BY <1>4, <3>1
    <3>2. CASE T # {}
      <4> DEFINE x == CHOOSE x \in T : TRUE
      <4>1. x \in T
        BY <3>2
      <4> HIDE DEF x
      <4>2. T \ {x} \in SUBSET V
        OBVIOUS
      <4>3. count[T] = bag[x] + count[T \ {x}]
        BY <1>3, <4>1, <4>2
      <4> HIDE DEF count
      <4> QED
        BY <3>2, <4>3 DEF x
    <3> QED
      BY <3>1, <3>2
  <2>2. count = [T \in SUBSET V |-> count[T]]
    OBVIOUS
  <2> HIDE DEF count
  <2> QED
    BY <2>1, <2>2
<1>6. Sums(sum)
  <2> HIDE DEF Sums, count
  <2> QED
    BY <1>5
<1>7. \A T \in SUBSET V : sum[T] = IF T = {} THEN 0
        ELSE bag[CHOOSE x \in T : TRUE] + sum[T \ {CHOOSE x \in T : TRUE}]
  <2> HIDE DEF sum
  <2> QED
    BY <1>6
<1>8. ASSUME NEW T \in SUBSET V, T # {}
      PROVE  \E x \in T : sum[T] = bag[x] + sum[T \ {x}]
  <2> DEFINE x == CHOOSE x \in T : TRUE
  <2>1. x \in T
    BY <1>8
  <2>2. sum[T] = bag[x] + sum[T \ {x}]
    BY <1>7, <1>8
  <2> HIDE DEF x
  <2> QED
    BY <2>1, <2>2
<1>9. sum[{}] = 0
  BY <1>7
<1> HIDE DEF sum, Sums, count
<1>10. IsFiniteSet(V)
  <2> DEFINE values == {s[i] : i \in DOMAIN s}
             f == [i \in DOMAIN s |-> s[i]]
  <2>1. V \subseteq values
    BY DEF ToBag, Range
  <2>2. f \in Surjection(DOMAIN s, values)
    BY DEF Surjection
  <2> HIDE DEF values, f
  <2>3. IsFiniteSet(values)
    BY <2>2, FS_Surjection
  <2> QED
    BY <2>1, <2>3, FS_Subset
<1> DEFINE bad == {Cardinality(T) : T \in {U \in SUBSET V : sum[U] # Cardinality(Places(U))}}
<1>11. ASSUME bad # {} PROVE FALSE
  <2>1. \A T \in SUBSET V : IsFiniteSet(T) /\ Cardinality(T) \in Nat
    BY <1>10, FS_Subset, FS_CardinalityType
  <2>2. bad \in SUBSET Nat
    BY <2>1
  <2>3. PICK n \in bad : \A m \in bad : n <= m
    BY <1>11, <2>2, Minimum
  <2>4. PICK T \in SUBSET V : sum[T] # Cardinality(Places(T)) /\ n = Cardinality(T)
    BY <2>3
  <2>5. T # {}
    BY <1>4, <1>9, <2>4
  <2>6. PICK x \in T : sum[T] = bag[x] + sum[T \ {x}]
    BY <1>8, <2>5
  <2>7. T \ {x} \in SUBSET V /\ Cardinality(T \ {x}) = n - 1
    BY <2>1, <2>4, FS_RemoveElement
  <2>8. n \in Nat
    BY <2>2
  <2>9. n - 1 \notin bad
    BY <2>3, <2>8
  <2>10. sum[T \ {x}] = Cardinality(Places(T \ {x}))
    BY <2>7, <2>9
  <2>11. Cardinality(Places(T)) = bag[x] + Cardinality(Places(T \ {x}))
    BY <1>3
  <2> QED
    BY <2>4, <2>6, <2>10, <2>11
<1>12. sum[V] = Cardinality(Places(V))
  BY <1>11
<1> QED
  BY <1>1, <1>12 DEF bag, Places

----------------------------------------------------------------------------
\* What the report is made from

\* The action of a decision goes with its status, and so does its reason.
ActsAs(d) ==
  /\ d.status = "rejected" <=> d.rejection # NoReason
  /\ \/ d.status = "rejected" /\ d.action = "reject"
     \/ d.status = "quarantined" /\ d.action = "quarantine"
     \/ d.status = "correctable" /\ d.action = "train_with_correction"
     \/ d.status = "accepted" /\ d.action \in {"train", "replay"}

At(stages) == {w \in Workers : stage[w] \in stages}

\* The groups with status s: those stored, those noted in the list, and those
\* that are stored and still to be noted.
StoredAs(s) == {i \in DOMAIN records : records[i].state = s}
NotedAs(s) == {i \in DOMAIN submissions : submissions[i].decision.status = s}
ToNote(s) == {w \in At({"note"}) : decision[w].status = s}

Audited == {l \in DOMAIN leaseAudit : leaseAudit[l] = "lease_submitted"}

Verdict == {"rejected", "quarantined", "correctable", "accepted"}

\* Every lease is for a job of its own, and no thread returns before all the
\* jobs are leased.
JobsLedger ==
  /\ workers = [w \in Workers |-> WorkerManifest]
  /\ jobs = [j \in Jobs |-> Job(j)]
  /\ queue = [j \in Jobs |-> j]
  /\ leasedJobs \subseteq Jobs /\ Cardinality(leasedJobs) = Len(leases)
  /\ \A w \in Workers : stage[w] = "returned" => leasedJobs = Jobs

\* As many leases are audited as submitted as there are groups.
AuditLedger ==
  /\ leaseAudit \in Seq({"lease_issued", "lease_submitted"})
  /\ Len(leaseAudit) = Len(leases)
  /\ \A l \in DOMAIN leases :
       leaseAudit[l] = "lease_submitted" => leases[l].state # "issued"
  /\ Cardinality(Audited) = Len(records)

\* A lease is at work or answered for in the store, and a group in the store
\* is noted in the list, with its status, or about to be.
DecisionLedger ==
  /\ Len(leases) = Len(records) + Cardinality(At({"judge", "submit"}))
  /\ Len(records) = Len(submissions) + Cardinality(At({"note"}))
  /\ \A s \in Verdict : Cardinality(StoredAs(s)) =
                          Cardinality(NotedAs(s)) + Cardinality(ToNote(s))
  /\ \A i \in DOMAIN submissions : ActsAs(submissions[i].decision)

LedgerInv ==
  /\ SimulationInv
  /\ JobsLedger
  /\ AuditLedger
  /\ DecisionLedger
  /\ ReportAddsUp

\* decide_group and the reject helper give such decisions.
LEMMA VerdictActs ==
  ASSUME NEW p \in Profiles, NEW expires \in Int, NEW now \in Int
  PROVE  ActsAs(Judge(MakeGroup(p), expires, now))
<1> DEFINE reason == Validate(MakeGroup(p), ContractUntil(expires), Manifest, now)
<1>1. CASE reason = Clean
  <2>1. \A report, policy : ActsAs(Decide(report, policy))
    BY DEF ActsAs, Decide, Decision
  <2> QED
    BY <1>1, <2>1 DEF Judge, DecideForCleanGroup
<1>2. CASE reason # Clean
  <2>1. reason \in RejectionReason
    BY <1>2, ValidatorFits DEF Toxic, Intended, RejectionReason
  <2>2. Judge(MakeGroup(p), expires, now) = Reject(reason)
    BY <1>2 DEF Judge
  <2>3. reason # NoReason
    BY <2>1, SimulationAssumption
  <2> HIDE DEF reason
  <2>4. ActsAs(Reject(reason))
    BY <2>3 DEF Reject, Decision, ActsAs
  <2> QED
    BY <2>2, <2>4
<1> QED
  BY <1>1, <1>2

\* So what a thread has decided is one of them.
LEMMA DecidedActs ==
  ASSUME SimulationInv, NEW w \in Workers, stage[w] \in {"submit", "note"}
  PROVE  ActsAs(decision[w])
<1>1. /\ lease[w] \in DOMAIN leases
      /\ decision[w] \in Verdicts(profile[w], leases[lease[w]].expires, clock)
  BY DEF SimulationInv, AtWork
<1>2. /\ leases[lease[w]].expires \in Int /\ profile[w] \in Profiles
      /\ clock \in Nat
  BY <1>1, LeaseTypes DEF SimulationInv, TypeOK, SharedTypes
<1>3. PICK t \in 0 .. clock :
        decision[w] = Judge(MakeGroup(profile[w]), leases[lease[w]].expires, t)
  BY <1>1 DEF Verdicts
<1>4. t \in Int
  BY <1>2
<1>5. ActsAs(Judge(MakeGroup(profile[w]), leases[lease[w]].expires, t))
  BY <1>2, <1>4, VerdictActs, Zenon
<1> QED
  BY <1>3, <1>5, Zenon

LEMMA FiniteThreads ==
  ASSUME NEW T \in SUBSET Workers
  PROVE  IsFiniteSet(T) /\ Cardinality(T) \in Nat
BY SimulationAssumption, FS_Subset, FS_CardinalityType

\* The lengths and counts are numbers.
LEMMA Counts ==
  ASSUME SimulationInv
  PROVE  /\ Len(leases) \in Nat /\ Len(records) \in Nat /\ Len(submissions) \in Nat
         /\ DOMAIN leases = 1 .. Len(leases)
         /\ DOMAIN records = 1 .. Len(records)
         /\ DOMAIN submissions = 1 .. Len(submissions)
         /\ \A T \in SUBSET DOMAIN records : IsFiniteSet(T) /\ Cardinality(T) \in Nat
         /\ \A T \in SUBSET DOMAIN submissions : IsFiniteSet(T) /\ Cardinality(T) \in Nat
<1>1. /\ records \in Seq(Broker!Store!Record)
      /\ submissions \in Seq(Submissions)
  BY TypesByThread DEF SimulationInv, SharedTypes, ThreadsTyped
<1>2. /\ Len(records) \in Nat /\ DOMAIN records = 1 .. Len(records)
      /\ Len(submissions) \in Nat /\ DOMAIN submissions = 1 .. Len(submissions)
  BY <1>1, LenProperties
<1>3. /\ Len(leases) \in Nat /\ DOMAIN leases = 1 .. Len(leases)
  BY LeaseTypes DEF SimulationInv
<1>4. \A n \in Nat : \A T \in SUBSET (1 .. n) : IsFiniteSet(T) /\ Cardinality(T) \in Nat
  <2>1. ASSUME NEW n \in Nat PROVE IsFiniteSet(1 .. n)
    BY FS_Interval
  <2> QED
    BY <2>1, FS_Subset, FS_CardinalityType
<1> QED
  BY <1>2, <1>3, <1>4

\* A thread that moves is counted where it arrives and no more where it was.
LEMMA MovedCounts ==
  ASSUME SimulationInv, NEW w \in Workers, NEW s \in Stages, Goto(w, s), NEW S
  PROVE  /\ Cardinality(At(S)) \in Nat
         /\ (stage[w] \in S <=> s \in S) => At(S)' = At(S)
         /\ stage[w] \notin S /\ s \in S =>
              At(S)' = At(S) \cup {w} /\ Cardinality(At(S)') = Cardinality(At(S)) + 1
         /\ stage[w] \in S /\ s \notin S =>
              At(S)' = At(S) \ {w} /\ Cardinality(At(S)') = Cardinality(At(S)) - 1
<1>1. /\ stage'[w] = s /\ \A v \in Workers \ {w} : stage'[v] = stage[v]
  BY Moved DEF SimulationInv
<1>2. IsFiniteSet(At(S)) /\ Cardinality(At(S)) \in Nat
  BY FiniteThreads DEF At
<1>3. (stage[w] \in S <=> s \in S) => At(S)' = At(S)
  BY <1>1 DEF At
<1>4. stage[w] \notin S /\ s \in S => At(S)' = At(S) \cup {w} /\ w \notin At(S)
  BY <1>1 DEF At
<1>5. stage[w] \in S /\ s \notin S => At(S)' = At(S) \ {w} /\ w \in At(S)
  BY <1>1 DEF At
<1> QED
  BY <1>2, <1>3, <1>4, <1>5, FS_AddElement, FS_RemoveElement

\* No step upsets the account of the jobs.
LEMMA JobsAddUp ==
  ASSUME SimulationInv, JobsLedger, [Next]_vars
  PROVE  JobsLedger'
<1>1. ASSUME NEW w \in Workers, FetchLease(w) PROVE JobsLedger'
  <2>1. PICK i \in DOMAIN queue :
          /\ queue[i] \notin leasedJobs
          /\ leasedJobs' = leasedJobs \cup {queue[i]}
    BY <1>1 DEF FetchLease, Broker!AcquireLease, Broker!Eligible
  <2>2. /\ UNCHANGED <<workers, jobs, queue>>
        /\ Len(leases') = Len(leases) + 1
    BY <1>1, FetchEffect DEF FetchLease, Broker!AcquireLease, Broker!jobVars,
       Broker!workerVars
  <2>3. queue[i] \in Jobs
    BY <2>1 DEF JobsLedger
  <2>4. IsFiniteSet(leasedJobs)
    <3>1. IsFiniteSet(Jobs)
      BY SimulationAssumption, FS_Interval DEF Jobs
    <3> QED
      BY <3>1, FS_Subset DEF JobsLedger
  <2>5. Cardinality(leasedJobs') = Cardinality(leasedJobs) + 1
    BY <2>1, <2>4, FS_AddElement
  <2>6. stage'[w] = "judge" /\ \A v \in Workers \ {w} : stage'[v] = stage[v]
    BY <1>1, Moved DEF FetchLease, SimulationInv, Stages
  <2>7. \A v \in Workers : stage'[v] = "returned" => leasedJobs' = Jobs
    BY <2>1, <2>3, <2>6 DEF JobsLedger
  <2> QED
    BY <2>1, <2>2, <2>3, <2>5, <2>7 DEF JobsLedger
<1>2. ASSUME NEW w \in Workers, FetchNothing(w) PROVE JobsLedger'
  <2>1. UNCHANGED <<workers, jobs, queue, leasedJobs, leases>> /\ Broker!Eligible(w) = {}
    BY <1>2 DEF FetchNothing, brokerVars
  <2>2. ASSUME NEW j \in Jobs PROVE j \in leasedJobs
    <3>1. j \in DOMAIN queue /\ queue[j] = j
      BY DEF JobsLedger
    <3>2. jobs[j] = Job(j) /\ workers[w] = WorkerManifest
      BY DEF JobsLedger
    <3>3. Broker!CapabilitiesMatch(Job(j), WorkerManifest)
      BY DEF Broker!CapabilitiesMatch, Job, WorkerManifest
    <3> QED
      BY <2>1, <3>1, <3>2, <3>3 DEF Broker!Eligible
  <2> QED
    BY <2>1, <2>2 DEF JobsLedger
<1>3. ASSUME UNCHANGED <<workers, jobs, queue, leasedJobs>>, Len(leases') = Len(leases),
             \A v \in Workers : stage'[v] = "returned" => stage[v] = "returned"
      PROVE  JobsLedger'
  BY <1>3 DEF JobsLedger
<1>4. ASSUME NEW w \in Workers, SubmitGroup(w) PROVE JobsLedger'
  <2>1. UNCHANGED <<workers, jobs, queue, leasedJobs>> /\ Len(leases') = Len(leases)
    BY <1>4, SubmitEffect
    DEF SubmitGroup, Broker!SubmitGroup, Broker!jobVars, Broker!workerVars
  <2>2. \A v \in Workers : stage'[v] = "returned" => stage[v] = "returned"
    BY <1>4 DEF SubmitGroup, Goto, SimulationInv, TypeOK
  <2> QED
    BY <1>3, <2>1, <2>2
<1>5. ASSUME NEW w \in Workers,
             ReachBarrier(w) \/ PassBarrier(w) \/ JudgeGroup(w) \/ NoteDecision(w)
      PROVE  JobsLedger'
  <2>1. UNCHANGED <<workers, jobs, queue, leasedJobs, leases>>
    BY <1>5 DEF ReachBarrier, PassBarrier, JudgeGroup, NoteDecision, brokerVars
  <2>2. \A v \in Workers : stage'[v] = "returned" => stage[v] = "returned"
    BY <1>5 DEF ReachBarrier, PassBarrier, JudgeGroup, LeaveJudgement, NoteDecision,
                Goto, SimulationInv, TypeOK
  <2> QED
    BY <1>3, <2>1, <2>2
<1>6. ASSUME ReportResult \/ Tick \/ UNCHANGED vars PROVE JobsLedger'
  BY <1>3, <1>6 DEF ReportResult, Tick, Broker!Tick, Broker!jobVars, Broker!workerVars,
                    Broker!leaseVars, vars, brokerVars
<1> QED
  BY <1>1, <1>2, <1>4, <1>5, <1>6 DEF Next, SharedStep

\* Nor that of the audit log.
LEMMA AuditAddsUp ==
  ASSUME SimulationInv, AuditLedger, [Next]_vars
  PROVE  AuditLedger'
<1> DEFINE Events == {"lease_issued", "lease_submitted"}
<1>0. /\ Len(leases) \in Nat /\ DOMAIN leases = 1 .. Len(leases)
      /\ leaseAudit \in Seq(Events) /\ DOMAIN leaseAudit = 1 .. Len(leases)
  BY Counts DEF AuditLedger
<1>1. ASSUME NEW w \in Workers, FetchLease(w) PROVE AuditLedger'
  <2>1. PICK new : leases' = Append(leases, new) /\ leaseAudit' = Append(leaseAudit, "lease_issued")
    BY <1>1 DEF FetchLease, Broker!AcquireLease
  <2>2. UNCHANGED records /\ Len(leases') = Len(leases) + 1
    BY <1>1, FetchEffect
  <2>3. leases \in Seq(Broker!Lease)
    BY DEF SimulationInv, SharedTypes
  <2>4. /\ leaseAudit' \in Seq(Events) /\ Len(leaseAudit') = Len(leases) + 1
        /\ DOMAIN leaseAudit' = 1 .. Len(leases) + 1
        /\ \A l \in 1 .. Len(leases) : leaseAudit'[l] = leaseAudit[l]
        /\ leaseAudit'[Len(leases) + 1] = "lease_issued"
    BY <1>0, <2>1 DEF AuditLedger
  <2>5. /\ DOMAIN leases' = 1 .. Len(leases) + 1
        /\ \A l \in 1 .. Len(leases) : leases'[l] = leases[l]
    BY <1>0, <2>1, <2>3, AppendProperties
  <2>6. \A l \in 1 .. Len(leases) + 1 : l \in 1 .. Len(leases) \/ l = Len(leases) + 1
    BY <1>0
  <2>7. Audited' = Audited
    BY <1>0, <2>4, <2>6 DEF Audited
  <2> QED
    BY <1>0, <2>2, <2>4, <2>5, <2>6, <2>7 DEF AuditLedger
<1>2. ASSUME NEW w \in Workers, SubmitGroup(w) PROVE AuditLedger'
  <2> DEFINE l == lease[w]
  <2>1. /\ leases' = [leases EXCEPT ![l].state = "submitted", ![l].group = l]
        /\ leaseAudit' = [leaseAudit EXCEPT ![l] = "lease_submitted"]
        /\ leases[l].state = "issued"
    BY <1>2 DEF SubmitGroup, Broker!SubmitGroup, Broker!MayEnd, Broker!Issued
  <2>2. l \in DOMAIN leases /\ Len(records') = Len(records) + 1 /\ Len(leases') = Len(leases)
    BY <1>2, SubmitEffect
  <2>3. leases[l] \in Broker!Lease
    BY <2>2, LeaseTypes DEF SimulationInv
  <2>4. /\ DOMAIN leases' = DOMAIN leases /\ leases'[l].state = "submitted"
        /\ \A k \in DOMAIN leases \ {l} : leases'[k] = leases[k]
    BY <2>1, <2>2, <2>3 DEF Broker!Lease
  <2>5. /\ leaseAudit' \in Seq(Events) /\ Len(leaseAudit') = Len(leases)
        /\ DOMAIN leaseAudit' = DOMAIN leaseAudit
        /\ leaseAudit'[l] = "lease_submitted"
        /\ \A k \in DOMAIN leases \ {l} : leaseAudit'[k] = leaseAudit[k]
    BY <1>0, <2>1, <2>2 DEF AuditLedger
  <2>6. Audited' = Audited \cup {l} /\ l \notin Audited
    BY <1>0, <2>1, <2>2, <2>5 DEF Audited, AuditLedger
  <2>7. IsFiniteSet(Audited)
    <3>1. Audited \in SUBSET (1 .. Len(leases))
      BY <1>0 DEF Audited
    <3>2. IsFiniteSet(1 .. Len(leases))
      BY <1>0, FS_Interval
    <3> QED
      BY <3>1, <3>2, FS_Subset
  <2>8. Cardinality(Audited') = Len(records')
    <3>1. Cardinality(Audited \cup {l}) = Cardinality(Audited) + 1
      BY <2>6, <2>7, FS_AddElement
    <3> QED
      BY <2>2, <2>6, <3>1 DEF AuditLedger
  <2> QED
    BY <2>2, <2>4, <2>5, <2>8 DEF AuditLedger
<1>3. ASSUME UNCHANGED <<leases, leaseAudit, records>> PROVE AuditLedger'
  BY <1>3 DEF AuditLedger, Audited
<1> QED
  BY <1>1, <1>2, <1>3 DEF Next, SharedStep, ReachBarrier, PassBarrier, FetchNothing, JudgeGroup,
    NoteDecision, ReportResult, Tick, Broker!Tick, Broker!leaseVars, Broker!storeVars,
    vars, brokerVars

\* Nor that of the decisions.
LEMMA DecisionsAddUp ==
  ASSUME SimulationInv, DecisionLedger, [Next]_vars
  PROVE  DecisionLedger'
<1>0. /\ Len(leases) \in Nat /\ Len(records) \in Nat /\ Len(submissions) \in Nat
      /\ DOMAIN records = 1 .. Len(records)
      /\ DOMAIN submissions = 1 .. Len(submissions)
      /\ \A T \in SUBSET DOMAIN records : IsFiniteSet(T) /\ Cardinality(T) \in Nat
      /\ \A T \in SUBSET DOMAIN submissions : IsFiniteSet(T) /\ Cardinality(T) \in Nat
  BY Counts
<1>1. ASSUME UNCHANGED <<records, submissions, decision>>, Len(leases') = Len(leases),
             At({"judge", "submit"})' = At({"judge", "submit"}),
             At({"note"})' = At({"note"})
      PROVE  DecisionLedger'
  <2>1. \A s : /\ StoredAs(s)' = StoredAs(s) /\ NotedAs(s)' = NotedAs(s)
               /\ ToNote(s)' = ToNote(s)
    BY <1>1 DEF StoredAs, NotedAs, ToNote
  <2> QED
    BY <1>1, <2>1 DEF DecisionLedger
<1>2. ASSUME NEW w \in Workers, ReachBarrier(w) \/ PassBarrier(w) \/ FetchNothing(w)
      PROVE  DecisionLedger'
  <2>1. UNCHANGED <<leases, records, submissions, decision>>
    BY <1>2 DEF ReachBarrier, PassBarrier, FetchNothing, brokerVars
  <2>2. \E s \in {"barrier", "fetch", "returned"} :
          Goto(w, s) /\ stage[w] \in {"started", "barrier", "fetch"}
    BY <1>2 DEF ReachBarrier, PassBarrier, FetchNothing
  <2>3. PICK s \in Stages : /\ Goto(w, s) /\ stage[w] \notin {"judge", "submit", "note"}
                            /\ s \notin {"judge", "submit", "note"}
    BY <2>2 DEF Stages
  <2>4. At({"judge", "submit"})' = At({"judge", "submit"}) /\ At({"note"})' = At({"note"})
    BY <2>3, MovedCounts
  <2> QED
    BY <1>1, <2>1, <2>4
<1>3. ASSUME NEW w \in Workers, FetchLease(w) PROVE DecisionLedger'
  <2>1. UNCHANGED <<records, decision, submissions>> /\ Len(leases') = Len(leases) + 1
    BY <1>3, FetchEffect
  <2>2. stage[w] = "fetch" /\ Goto(w, "judge") /\ "judge" \in Stages
    BY <1>3 DEF FetchLease, Stages
  <2>3. /\ Cardinality(At({"judge", "submit"})) \in Nat
        /\ Cardinality(At({"judge", "submit"})') = Cardinality(At({"judge", "submit"})) + 1
        /\ At({"note"})' = At({"note"})
    BY <2>2, MovedCounts
  <2>4. \A s : /\ StoredAs(s)' = StoredAs(s) /\ NotedAs(s)' = NotedAs(s)
               /\ ToNote(s)' = ToNote(s)
    BY <2>1, <2>3 DEF StoredAs, NotedAs, ToNote
  <2>5. Len(leases') = Len(records') + Cardinality(At({"judge", "submit"})')
    BY <1>0, <2>1, <2>3 DEF DecisionLedger
  <2> QED
    BY <2>1, <2>3, <2>4, <2>5 DEF DecisionLedger
<1>4. ASSUME NEW w \in Workers, JudgeGroup(w) PROVE DecisionLedger'
  <2>1. /\ UNCHANGED <<leases, records, submissions>>
        /\ \A v \in Workers \ {w} : decision'[v] = decision[v]
    BY <1>4 DEF JudgeGroup, brokerVars, SimulationInv, TypeOK
  <2>2. stage[w] = "judge" /\ Goto(w, "submit") /\ "submit" \in Stages
    BY <1>4 DEF JudgeGroup, LeaveJudgement, Stages
  <2>3. At({"judge", "submit"})' = At({"judge", "submit"}) /\ At({"note"})' = At({"note"})
    BY <2>2, MovedCounts
  <2>4. w \notin At({"note"})
    BY <2>2 DEF At
  <2>5. \A s : /\ StoredAs(s)' = StoredAs(s) /\ NotedAs(s)' = NotedAs(s)
               /\ ToNote(s)' = ToNote(s)
    BY <2>1, <2>3, <2>4 DEF StoredAs, NotedAs, ToNote, At
  <2> QED
    BY <2>1, <2>3, <2>5 DEF DecisionLedger
<1>5. ASSUME NEW w \in Workers, SubmitGroup(w) PROVE DecisionLedger'
  <2>1. /\ UNCHANGED <<decision, submissions>> /\ Len(leases') = Len(leases)
        /\ Len(records') = Len(records) + 1
        /\ DOMAIN records' = 1 .. Len(records) + 1
        /\ \A i \in DOMAIN records : records'[i] = records[i]
        /\ records'[Len(records) + 1].state = decision[w].status
    BY <1>5, SubmitEffect
  <2>2. stage[w] = "submit" /\ Goto(w, "note") /\ "note" \in Stages
    BY <1>5 DEF SubmitGroup, Stages
  <2>3. /\ Cardinality(At({"judge", "submit"})) \in Nat
        /\ Cardinality(At({"judge", "submit"})') = Cardinality(At({"judge", "submit"})) - 1
        /\ Cardinality(At({"note"})) \in Nat
        /\ Cardinality(At({"note"})') = Cardinality(At({"note"})) + 1
        /\ At({"note"})' = At({"note"}) \cup {w} /\ w \notin At({"note"})
    <3>1. w \notin At({"note"})
      BY <2>2 DEF At
    <3> QED
      BY <2>2, <3>1, MovedCounts
  <2>4. ASSUME NEW s \in Verdict
        PROVE  Cardinality(StoredAs(s)') = Cardinality(NotedAs(s)') + Cardinality(ToNote(s)')
    <3>1. NotedAs(s)' = NotedAs(s)
      BY <2>1 DEF NotedAs
    <3>2. /\ Cardinality(StoredAs(s)) = Cardinality(NotedAs(s)) + Cardinality(ToNote(s))
          /\ IsFiniteSet(StoredAs(s)) /\ IsFiniteSet(ToNote(s))
          /\ Cardinality(NotedAs(s)) \in Nat /\ Cardinality(ToNote(s)) \in Nat
      <4>1. /\ StoredAs(s) \in SUBSET DOMAIN records
            /\ NotedAs(s) \in SUBSET DOMAIN submissions
            /\ ToNote(s) \in SUBSET Workers
        BY DEF StoredAs, NotedAs, ToNote, At
      <4> QED
        BY <1>0, <4>1, FiniteThreads DEF DecisionLedger
    <3>3. CASE decision[w].status = s
      <4>1. StoredAs(s)' = StoredAs(s) \cup {Len(records) + 1} /\ Len(records) + 1 \notin StoredAs(s)
        BY <1>0, <2>1, <3>3 DEF StoredAs
      <4>2. ToNote(s)' = ToNote(s) \cup {w} /\ w \notin ToNote(s)
        BY <2>1, <2>3, <3>3 DEF ToNote
      <4>3. Cardinality(StoredAs(s) \cup {Len(records) + 1}) = Cardinality(StoredAs(s)) + 1
        BY <3>2, <4>1, FS_AddElement
      <4>4. Cardinality(ToNote(s) \cup {w}) = Cardinality(ToNote(s)) + 1
        BY <3>2, <4>2, FS_AddElement
      <4> QED
        BY <3>1, <3>2, <4>1, <4>2, <4>3, <4>4
    <3>4. CASE decision[w].status # s
      <4>1. StoredAs(s)' = StoredAs(s)
        BY <1>0, <2>1, <3>4 DEF StoredAs
      <4>2. ToNote(s)' = ToNote(s)
        BY <2>1, <2>3, <3>4 DEF ToNote
      <4> QED
        BY <3>1, <3>2, <4>1, <4>2
    <3> QED
      BY <3>3, <3>4
  <2>5. Len(leases') = Len(records') + Cardinality(At({"judge", "submit"})')
    BY <1>0, <2>1, <2>3 DEF DecisionLedger
  <2>6. Len(records') = Len(submissions') + Cardinality(At({"note"})')
    BY <1>0, <2>1, <2>3 DEF DecisionLedger
  <2> QED
    BY <2>1, <2>4, <2>5, <2>6 DEF DecisionLedger
<1>6. ASSUME NEW w \in Workers, NoteDecision(w) PROVE DecisionLedger'
  <2> DEFINE n == Len(submissions) + 1
  <2>1. /\ UNCHANGED <<leases, records>>
        /\ submissions' = Append(submissions, [worker |-> w, profile |-> profile[w],
                                               decision |-> decision[w]])
        /\ \A v \in Workers \ {w} : decision'[v] = decision[v]
    BY <1>6 DEF NoteDecision, brokerVars, SimulationInv, TypeOK
  <2>2. stage[w] = "note" /\ Goto(w, "fetch") /\ "fetch" \in Stages
    BY <1>6 DEF NoteDecision, Stages
  <2>3. /\ At({"judge", "submit"})' = At({"judge", "submit"})
        /\ Cardinality(At({"note"})) \in Nat
        /\ Cardinality(At({"note"})') = Cardinality(At({"note"})) - 1
        /\ At({"note"})' = At({"note"}) \ {w} /\ w \in At({"note"})
    <3>1. w \in At({"note"})
      BY <2>2 DEF At
    <3> QED
      BY <2>2, <3>1, MovedCounts
  <2>4. /\ Len(submissions') = n /\ DOMAIN submissions' = 1 .. n
        /\ \A i \in DOMAIN submissions : submissions'[i] = submissions[i]
        /\ submissions'[n].decision = decision[w]
    <3>1. submissions \in Seq(Submissions)
      BY TypesByThread DEF SimulationInv, ThreadsTyped
    <3> DEFINE entry == [worker |-> w, profile |-> profile[w], decision |-> decision[w]]
    <3>2. entry.decision = decision[w]
      OBVIOUS
    <3>3. submissions' = Append(submissions, entry)
      BY <2>1
    <3> HIDE DEF entry
    <3>4. /\ Len(submissions') = n /\ DOMAIN submissions' = 1 .. n
          /\ \A i \in 1 .. Len(submissions) : submissions'[i] = submissions[i]
          /\ submissions'[n] = entry
      BY <1>0, <3>1, <3>3
    <3> QED
      BY <1>0, <3>2, <3>4
  <2>5. ActsAs(decision[w])
    BY <2>2, DecidedActs
  <2>6. ASSUME NEW i \in DOMAIN submissions' PROVE ActsAs(submissions'[i].decision)
    <3>1. CASE i \in DOMAIN submissions
      BY <2>4, <3>1 DEF DecisionLedger
    <3>2. CASE i = n
      BY <2>4, <2>5, <3>2
    <3> QED
      BY <1>0, <2>4, <3>1, <3>2
  <2>7. ASSUME NEW s \in Verdict
        PROVE  Cardinality(StoredAs(s)') = Cardinality(NotedAs(s)') + Cardinality(ToNote(s)')
    <3>1. StoredAs(s)' = StoredAs(s)
      BY <2>1 DEF StoredAs
    <3>2. /\ Cardinality(StoredAs(s)) = Cardinality(NotedAs(s)) + Cardinality(ToNote(s))
          /\ IsFiniteSet(NotedAs(s)) /\ IsFiniteSet(ToNote(s))
          /\ Cardinality(NotedAs(s)) \in Nat /\ Cardinality(ToNote(s)) \in Nat
      <4>1. /\ NotedAs(s) \in SUBSET DOMAIN submissions
            /\ ToNote(s) \in SUBSET Workers
        BY DEF NotedAs, ToNote, At
      <4> QED
        BY <1>0, <4>1, FiniteThreads DEF DecisionLedger
    <3>3. CASE decision[w].status = s
      <4>1. NotedAs(s)' = NotedAs(s) \cup {n} /\ n \notin NotedAs(s)
        BY <1>0, <2>4, <3>3 DEF NotedAs
      <4>2. ToNote(s)' = ToNote(s) \ {w} /\ w \in ToNote(s)
        BY <2>1, <2>3, <3>3 DEF ToNote, At
      <4>3. Cardinality(NotedAs(s) \cup {n}) = Cardinality(NotedAs(s)) + 1
        BY <3>2, <4>1, FS_AddElement
      <4>4. Cardinality(ToNote(s) \ {w}) = Cardinality(ToNote(s)) - 1
        BY <3>2, <4>2, FS_RemoveElement
      <4> QED
        BY <3>1, <3>2, <4>1, <4>2, <4>3, <4>4
    <3>4. CASE decision[w].status # s
      <4>1. NotedAs(s)' = NotedAs(s)
        BY <1>0, <2>4, <3>4 DEF NotedAs
      <4>2. ToNote(s)' = ToNote(s)
        BY <2>1, <2>3, <3>4 DEF ToNote, At
      <4> QED
        BY <3>1, <3>2, <4>1, <4>2
    <3> QED
      BY <3>3, <3>4
  <2>8. Len(records') = Len(submissions') + Cardinality(At({"note"})')
    BY <1>0, <2>1, <2>3, <2>4 DEF DecisionLedger
  <2> QED
    BY <2>1, <2>3, <2>6, <2>7, <2>8 DEF DecisionLedger
<1>7. ASSUME ReportResult \/ Tick \/ UNCHANGED vars PROVE DecisionLedger'
  <2>1. UNCHANGED <<leases, records, submissions, decision, stage>>
    BY <1>7 DEF ReportResult, Tick, Broker!Tick, Broker!leaseVars, Broker!storeVars,
                vars, brokerVars
  <2> QED
    BY <1>1, <2>1 DEF At
<1> QED
  BY <1>2, <1>3, <1>4, <1>5, <1>6, <1>7 DEF Next, SharedStep

\* When all the threads have returned, the report adds up.
LEMMA ReportIsRight ==
  ASSUME SimulationInv, JobsLedger, AuditLedger, DecisionLedger, ReportResult
  PROVE  ReportAddsUp'
<1> DEFINE decisions == [i \in DOMAIN submissions |-> submissions[i].decision]
           actions == [i \in DOMAIN submissions |->
                         <<submissions[i].profile, decisions[i].action>>]
           reasons == [i \in DOMAIN decisions |-> decisions[i].rejection]
           states == [i \in DOMAIN records |-> records[i].state]
<1>1. /\ result'.submissions = Len(submissions)
      /\ result'.byAction = ToBag(actions) /\ result'.rejections = ToBag(reasons)
      /\ result'.byState = ToBag(states) /\ result'.audit = ToBag(leaseAudit)
  BY DEF ReportResult
<1>2. /\ Len(leases) \in Nat /\ Len(records) \in Nat /\ Len(submissions) \in Nat
      /\ DOMAIN submissions = 1 .. Len(submissions)
      /\ \A T \in SUBSET DOMAIN submissions : IsFiniteSet(T) /\ Cardinality(T) \in Nat
  BY Counts
<1>3. At({"judge", "submit"}) = {} /\ At({"note"}) = {}
  BY DEF ReportResult, AllReturned, At
<1>4. Len(leases) = NumJobs
  <2>1. leasedJobs = Jobs
    BY SimulationAssumption DEF ReportResult, AllReturned, JobsLedger
  <2>2. Cardinality(Jobs) = NumJobs
    BY SimulationAssumption, FS_Interval DEF Jobs
  <2> QED
    BY <2>1, <2>2 DEF JobsLedger
<1>5. Len(records) = NumJobs /\ Len(submissions) = NumJobs
  BY <1>2, <1>3, <1>4, FS_EmptySet DEF DecisionLedger
<1>6. ASSUME NEW s \in Verdict
      PROVE  Copies(s, ToBag(states)) = Cardinality(NotedAs(s))
  <2>1. StoredAs(s) = {i \in DOMAIN states : states[i] = s}
    BY DEF StoredAs
  <2>2. Copies(s, ToBag(states)) = Cardinality(StoredAs(s))
    BY <2>1, CopiesInBag
  <2>3. ToNote(s) = {}
    BY <1>3 DEF ToNote
  <2>4. Cardinality(NotedAs(s)) \in Nat
    BY <1>2 DEF NotedAs
  <2>5. Cardinality(StoredAs(s)) = Cardinality(NotedAs(s)) + Cardinality(ToNote(s))
    BY DEF DecisionLedger
  <2>6. Cardinality(ToNote(s)) = 0
    BY <2>3, FS_EmptySet
  <2> QED
    BY <2>2, <2>4, <2>5, <2>6
<1>7. Copies("lease_submitted", ToBag(leaseAudit)) = NumJobs
  BY <1>5, CopiesInBag DEF Audited, AuditLedger
<1>8. ASSUME NEW as
      PROVE  SumFunctionOnSet(ToBag(actions), {k \in DOMAIN ToBag(actions) : k[2] \in as})
               = Cardinality({i \in DOMAIN submissions : submissions[i].decision.action \in as})
  <2> DEFINE V == {k \in DOMAIN ToBag(actions) : k[2] \in as}
  <2>1. IsFiniteSet(DOMAIN actions)
    BY <1>2
  <2>2. {i \in DOMAIN actions : actions[i] \in V} =
          {i \in DOMAIN submissions : submissions[i].decision.action \in as}
    <3>1. \A i \in DOMAIN submissions : /\ actions[i] \in DOMAIN ToBag(actions)
                                        /\ actions[i][2] = submissions[i].decision.action
      BY DEF ToBag, Range
    <3>2. DOMAIN actions = DOMAIN submissions
      OBVIOUS
    <3> HIDE DEF actions
    <3> QED
      BY <3>1, <3>2
  <2>3. SumFunctionOnSet(ToBag(actions), V) = Cardinality({i \in DOMAIN actions : actions[i] \in V})
    <3>1. V \in SUBSET DOMAIN ToBag(actions)
      OBVIOUS
    <3> HIDE DEF V, actions
    <3> QED
      BY <2>1, <3>1, SumOfBag
  <2> QED
    BY <2>2, <2>3
<1>9. \A i \in DOMAIN submissions :
        LET d == submissions[i].decision
        IN  /\ d.status = "rejected" <=> d.action \in {"reject"}
            /\ d.status = "quarantined" <=> d.action \in {"quarantine"}
            /\ d.status = "correctable" <=> d.action \in {"train_with_correction"}
            /\ d.status = "accepted" <=> d.action \in {"train", "replay"}
            /\ d.status = "rejected" <=> d.rejection # NoReason
  BY DEF DecisionLedger, ActsAs
<1> DEFINE Acted(as) == {i \in DOMAIN submissions : submissions[i].decision.action \in as}
<1>10. /\ NotedAs("rejected") = Acted({"reject"})
       /\ NotedAs("quarantined") = Acted({"quarantine"})
       /\ NotedAs("correctable") = Acted({"train_with_correction"})
       /\ NotedAs("accepted") = Acted({"train", "replay"})
  BY <1>9 DEF NotedAs
<1>11. Cardinality(NotedAs("rejected")) = NumJobs - Copies(NoReason, ToBag(reasons))
  <2> DEFINE spared == {i \in DOMAIN submissions : submissions[i].decision.rejection = NoReason}
  <2>1. {i \in DOMAIN reasons : reasons[i] = NoReason} = spared
    OBVIOUS
  <2>2. Copies(NoReason, ToBag(reasons)) = Cardinality(spared)
    BY <2>1, CopiesInBag
  <2>3. NotedAs("rejected") = DOMAIN submissions \ spared
    BY <1>9 DEF NotedAs
  <2>4. Cardinality(DOMAIN submissions) = NumJobs
    BY <1>2, <1>5, SimulationAssumption, FS_Interval
  <2>5. DOMAIN submissions \cap spared = spared /\ IsFiniteSet(DOMAIN submissions)
    BY <1>2
  <2> HIDE DEF spared
  <2>6. Cardinality(DOMAIN submissions \ spared) =
          Cardinality(DOMAIN submissions) - Cardinality(DOMAIN submissions \cap spared)
    BY <2>5, FS_Difference
  <2> QED
    BY <2>2, <2>3, <2>4, <2>5, <2>6
<1> DEFINE Sum(as) == SumFunctionOnSet(result'.byAction,
                                       {k \in DOMAIN result'.byAction : k[2] \in as})
<1>12. \A as : Sum(as) = Cardinality(Acted(as))
  BY <1>1, <1>8
<1>13. /\ result'.submissions = NumJobs
       /\ Copies("lease_submitted", result'.audit) = NumJobs
       /\ Copies("rejected", result'.byState) = Sum({"reject"})
       /\ Copies("rejected", result'.byState) = NumJobs - Copies(NoReason, result'.rejections)
       /\ Copies("quarantined", result'.byState) = Sum({"quarantine"})
       /\ Copies("correctable", result'.byState) = Sum({"train_with_correction"})
       /\ Copies("accepted", result'.byState) = Sum({"train", "replay"})
  <2> HIDE DEF Sum, Acted, actions, reasons, states
  <2> QED
    BY <1>1, <1>5, <1>6, <1>7, <1>10, <1>11, <1>12 DEF Verdict
<1> QED
  BY <1>13 DEF ReportAddsUp, Copies

LEMMA LedgerInductive == LedgerInv /\ [Next]_vars => LedgerInv'
<1> SUFFICES ASSUME LedgerInv, [Next]_vars
             PROVE  LedgerInv'
  OBVIOUS
<1> USE DEF LedgerInv
<1>1. SimulationInv' /\ JobsLedger' /\ AuditLedger' /\ DecisionLedger'
  BY SimulationInductive, JobsAddUp, AuditAddsUp, DecisionsAddUp
<1>2. CASE ReportResult
  BY <1>1, <1>2, ReportIsRight
<1>3. CASE UNCHANGED result
  BY <1>1, <1>3 DEF ReportAddsUp, Copies
<1> QED
  BY <1>2, <1>3 DEF Next, SharedStep, ReachBarrier, PassBarrier, FetchLease, FetchNothing,
    JudgeGroup, SubmitGroup, NoteDecision, Tick, vars

LEMMA LedgerStarts == Init => LedgerInv
<1> SUFFICES ASSUME Init PROVE LedgerInv
  OBVIOUS
<1>1. /\ leases = << >> /\ records = << >> /\ submissions = << >> /\ leaseAudit = << >>
      /\ leasedJobs = {} /\ result = NoResult
      /\ workers = [w \in Workers |-> WorkerManifest]
      /\ jobs = [j \in Jobs |-> Job(j)] /\ queue = [j \in Jobs |-> j]
      /\ stage = [w \in Workers |-> "started"]
  BY DEF Init
<1>2. \A S : S \cap {"started"} = {} => At(S) = {}
  BY <1>1 DEF At
<1>3. JobsLedger
  BY <1>1, FS_EmptySet DEF JobsLedger
<1>4. AuditLedger
  <2>1. Audited = {}
    BY <1>1 DEF Audited
  <2> QED
    BY <1>1, <2>1, FS_EmptySet DEF AuditLedger
<1>5. DecisionLedger
  <2>1. /\ At({"judge", "submit"}) = {} /\ At({"note"}) = {}
        /\ \A s : StoredAs(s) = {} /\ NotedAs(s) = {} /\ ToNote(s) = {}
    BY <1>1, <1>2 DEF StoredAs, NotedAs, ToNote
  <2>2. Cardinality({}) = 0 /\ Len(<< >>) = 0 /\ DOMAIN << >> = {}
    BY FS_EmptySet
  <2>3. Len(leases) = 0 /\ Len(records) = 0 /\ Len(submissions) = 0
    BY <1>1
  <2>4. /\ Cardinality(At({"judge", "submit"})) = 0 /\ Cardinality(At({"note"})) = 0
    BY <2>1, <2>2
  <2>5. \A s : Cardinality(StoredAs(s)) = Cardinality(NotedAs(s)) + Cardinality(ToNote(s))
    BY <2>1, <2>2
  <2> QED
    BY <1>1, <2>2, <2>3, <2>4, <2>5 DEF DecisionLedger
<1> QED
  BY <1>1, <1>3, <1>4, <1>5, SimulationStarts DEF LedgerInv, ReportAddsUp

\* For any number of workers and jobs and any interleaving of the threads: the
\* report run_simulation returns counts one submission and one entry of the
\* audit log for every job, and what is in the store is what was decided.
THEOREM EveryJobIsAnsweredFor == Spec => []ReportAddsUp
<1>1. LedgerInv => ReportAddsUp
  BY DEF LedgerInv
<1> QED
  BY LedgerStarts, LedgerInductive, <1>1, PTL DEF Spec
=============================================================================

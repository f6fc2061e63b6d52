------------------------------ MODULE Validity ------------------------------
(***************************************************************************)
(* What is made of a finished group: the contract check of validators.py,   *)
(* the budget report and the decision of opbc.py, and the rule of           *)
(* GroupDecision.  Everything here is a pure function of its arguments.     *)
(*                                                                          *)
(* A token carries the entries of the parallel arrays of a Trajectory,      *)
(* whose equal lengths the constructor enforces.  Log-probabilities are     *)
(* integers, a fraction is a pair of naturals, so that every comparison     *)
(* with a threshold, a percentage, is exact.  NaN is not modelled.          *)
(***************************************************************************)
EXTENDS Integers, Sequences, FiniteSets, SequencesExt

CONSTANTS
  Exp(_),      \* exp, on the scale of the log-probabilities
  Clean,       \* the validator returns None
  NoReason,    \* rejection_reason is None
  NoFlipRate   \* router_flip_rate is None

Token == [logprob : Int, action : BOOLEAN, tool : BOOLEAN]

\* prompt is the number of its tokens.
Group == [version : STRING, digest : STRING, tokenizer : STRING,
          precision : STRING, quantization : STRING, prompt : Nat, lag : Nat,
          trajectories : Seq(Seq(Token)) \ {<< >>}]

Contract == [version : STRING, precision : STRING, quantization : STRING,
             size : Nat \ {0}, context : Nat \ {0}, expires : Int]

RejectionReason == {"mixed_policy_version", "policy_version_mismatch",
  "checkpoint_mismatch", "tokenizer_mismatch", "precision_mismatch",
  "quantization_mismatch", "missing_token_ids", "missing_logprobs",
  "group_size_mismatch", "idempotency_key_mismatch", "expired_lease",
  "context_overflow"}

Fraction == [num : Nat, den : Nat \ {0}]

BudgetPolicy == [clamp : Nat, minEss : Nat, replayEss : Nat, maxClipped : Nat,
                 maxLag : Nat, replayLag : Nat, veto : Nat, maxFlip : Nat]

Report == [ess : Fraction, clipped : Fraction, vetoed : Nat, lag : Nat,
           flip : Fraction \cup {NoFlipRate}]

----------------------------------------------------------------------------
\* validate_group_against_lease

Zero(trajectory) == \A i \in DOMAIN trajectory : trajectory[i].logprob = 0

\* The first defect of a trajectory.
TrajectoryDefect(trajectory) ==
  IF trajectory = << >> THEN "missing_token_ids"
  ELSE IF Zero(trajectory) THEN "missing_logprobs" ELSE Clean

Defective(group) ==
  {i \in DOMAIN group.trajectories :
     TrajectoryDefect(group.trajectories[i]) # Clean}

Overflows(group, lease) ==
  \E i \in DOMAIN group.trajectories :
    group.prompt + Len(group.trajectories[i]) > lease.context

\* The checks in their order, each with whether it fails.
Checks(group, lease, manifest, now) == <<
  [reason |-> "expired_lease",           fails |-> now >= lease.expires],
  [reason |-> "policy_version_mismatch", fails |-> group.version # lease.version],
  [reason |-> "mixed_policy_version",    fails |-> group.version # manifest.version],
  [reason |-> "checkpoint_mismatch",     fails |-> group.digest # manifest.digest],
  [reason |-> "tokenizer_mismatch",      fails |-> group.tokenizer # manifest.tokenizer],
  [reason |-> "precision_mismatch",      fails |-> group.precision # lease.precision],
  [reason |-> "quantization_mismatch",   fails |-> group.quantization # lease.quantization],
  [reason |-> "group_size_mismatch",     fails |-> Len(group.trajectories) # lease.size],
  [reason |-> "missing_token_ids",       fails |-> group.prompt = 0],
  [reason |-> IF Defective(group) = {} THEN Clean
              ELSE TrajectoryDefect(group.trajectories[Min(Defective(group))]),
   fails  |-> Defective(group) # {}],
  [reason |-> "context_overflow",        fails |-> Overflows(group, lease)] >>

\* The reason of the first failing check, or Clean.
Validate(group, lease, manifest, now) ==
  LET checks  == Checks(group, lease, manifest, now)
      failing == {i \in DOMAIN checks : checks[i].fails}
  IN  IF failing = {} THEN Clean ELSE checks[Min(failing)].reason

----------------------------------------------------------------------------
\* compute_budget_report

IsPolicyToken(token) == token.action /\ ~ token.tool

\* _flatten_rollout_logprobs, the trajectories one after the other.
Flatten(trajectories) ==
  LET tokens == SelectSeq(FlattenSeq(trajectories), IsPolicyToken)
  IN  [i \in DOMAIN tokens |-> tokens[i].logprob]

Abs(x) == IF x < 0 THEN -x ELSE x
Clip(x, bound) == IF x < -bound THEN -bound ELSE IF x > bound THEN bound ELSE x
Beyond(s, bound) == Cardinality({i \in DOMAIN s : Abs(s[i]) > bound})

\* The call raises unless this holds.
Scorable(group, train) ==
  LET rollout == Flatten(group.trajectories)
  IN  Len(rollout) = Len(train) /\ Len(rollout) > 0

ComputeReport_Unsquared(group, train, flip, policy) ==  \* (mutant)
  LET rollout == Flatten(group.trajectories)
      ratios  == [i \in DOMAIN rollout |-> train[i] - rollout[i]]
      weights == [i \in DOMAIN ratios |-> Exp(Clip(ratios[i], policy.clamp))]
      squares == [i \in DOMAIN weights |-> weights[i] * weights[i]]
  IN  [ess     |-> [num |-> SumFunction(weights),
                    den |-> Len(weights) * SumFunction(squares)],
       clipped |-> [num |-> Beyond(ratios, policy.clamp), den |-> Len(ratios)],
       vetoed  |-> Beyond(ratios, policy.veto),
       lag     |-> group.lag,
       flip    |-> flip]

ComputeReport(group, train, flip, policy) ==
  LET rollout == Flatten(group.trajectories)
      ratios  == [i \in DOMAIN rollout |-> train[i] - rollout[i]]
      weights == [i \in DOMAIN ratios |-> Exp(Clip(ratios[i], policy.clamp))]
      squares == [i \in DOMAIN weights |-> weights[i] * weights[i]]
      total   == SumFunction(weights)
  IN  [ess     |-> [num |-> total * total, den |-> Len(weights) * SumFunction(squares)],
       clipped |-> [num |-> Beyond(ratios, policy.clamp), den |-> Len(ratios)],
       vetoed  |-> Beyond(ratios, policy.veto),
       lag     |-> group.lag,
       flip    |-> flip]

----------------------------------------------------------------------------
\* decide_group

Above(fraction, percentage) == 100 * fraction.num > percentage * fraction.den
Below(fraction, percentage) == 100 * fraction.num < percentage * fraction.den

QuarantineReasons(report, policy) ==
     {r \in {"stale_policy_lag"} : report.lag > policy.maxLag}
\cup {r \in {"low_ess"} : Below(report.ess, policy.minEss)}
\cup {r \in {"high_router_flip_rate"} :
        report.flip # NoFlipRate /\ Above(report.flip, policy.maxFlip)}

ReplayReasons(report, policy) ==
     {r \in {"replay_tier_lag"} : report.lag > policy.replayLag}
\cup {r \in {"replay_tier_ess"} : Below(report.ess, policy.replayEss)}

Decision(status, action, rejection, reasons) ==
  [status |-> status, action |-> action, rejection |-> rejection,
   reasons |-> reasons]

Reject_AmongOthers(reason) ==  \* (mutant)
  Decision("rejected", "reject", NoReason, {reason})

Reject(reason) == Decision("rejected", "reject", reason, {})

\* The branches in their order of severity.
Decide(report, policy) ==
  LET quarantine == QuarantineReasons(report, policy)
      replay     == ReplayReasons(report, policy)
  IN  IF report.vetoed > 0
      THEN Decision("quarantined", "quarantine", NoReason, {"veto_threshold_exceeded"})
      ELSE IF quarantine # {}
      THEN Decision("quarantined", "quarantine", NoReason, quarantine)
      ELSE IF Above(report.clipped, policy.maxClipped)
      THEN Decision("correctable", "train_with_correction", NoReason, {"high_clipped_fraction"})
      ELSE IF replay # {}
      THEN Decision("accepted", "replay", NoReason, replay)
      ELSE Decision("accepted", "train", NoReason, {"within_budget"})
=============================================================================

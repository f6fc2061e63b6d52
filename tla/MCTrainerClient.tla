-------------------------- MODULE MCTrainerClient --------------------------
(* Two groups of one policy, one of them staler and in another precision.   *)
EXTENDS TrainerClient, TLC

CONSTANTS t1, t2, g1, g2

Payload(policy, lag, precision) ==
  [policy |-> policy, lag |-> lag, precision |-> precision]

MCMetadata == (g1 :> Payload("v1", 0, "bf16")) @@ (g2 :> Payload("v1", 2, "fp8"))

Asks(maxGroups, maxStaleness, precision, tier) ==
  [policy |-> "v1", maxGroups |-> maxGroups, maxStaleness |-> maxStaleness,
   precision |-> precision, tier |-> tier]

TwoQueries == {Asks(1, NoLimit, AnyPrecision, "fresh"),
               Asks(2, NoLimit, AnyPrecision, "replay")}

\* Also a strict query, one for nothing and one for another policy.
MCQueries == TwoQueries \cup
  {Asks(2, 1, "bf16", "fresh"), Asks(0, NoLimit, AnyPrecision, "fresh"),
   [Asks(1, NoLimit, AnyPrecision, "fresh") EXCEPT !.policy = "v2"]}

TrainerSymmetry == Permutations({t1, t2})
=============================================================================

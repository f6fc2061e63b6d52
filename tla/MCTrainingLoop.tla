--------------------------- MODULE MCTrainingLoop --------------------------
(* Three groups of two workers, one engine and two policies, with two      *)
(* servings per record and batches of up to two groups.                    *)
EXTENDS TrainingLoop, TLC

CONSTANTS g1, g2, g3

MCGroups == {g1, g2, g3}

MCAttribution ==
  [g \in MCGroups |->
     [k \in Kinds |-> IF k = "engine" THEN "vllm"
                      ELSE IF k = "worker" THEN IF g = g3 THEN "w2" ELSE "w1"
                      ELSE IF g = g3 THEN "v1" ELSE "v2"]]

\* The groups of one worker and one policy are interchangeable.
GroupSymmetry == Permutations({g1, g2})

=============================================================================

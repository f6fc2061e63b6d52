-------------------------- MODULE MCPolicyRollout --------------------------
(* Two versions, two checkpoints; heartbeats that offer a low price but     *)
(* unhealthy, no price, and a high price.                                   *)
EXTENDS PolicyRollout, TLC

CONSTANTS w1, w2, w3, d1, d2

BeatOf(w, healthy, price) ==
  [worker |-> w, healthy |-> healthy, fits |-> TRUE, price |-> price]

MCBeatLists == {<<BeatOf(w2, FALSE, 1), BeatOf(w3, TRUE, NoPrice),
                  BeatOf(w1, TRUE, 3)>>}

MCSymmetry == Permutations({d1, d2})
=============================================================================

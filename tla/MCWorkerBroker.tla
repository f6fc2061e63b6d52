--------------------------- MODULE MCWorkerBroker ---------------------------
(* Values for the constants of WorkerBroker.  A worker is general or small; *)
(* a job any worker can run and a job only a general worker can run share   *)
(* one idempotency key with a retry of the first.                           *)
EXTENDS BrokerMarket, TLC

CONSTANTS w1, w2, j1, j2, k1, k2, g1, g2

General == [precisions |-> {"bf16", "fp8"}, quantizations |-> {"int8"},
            context |-> 8, engine |-> "vllm"]
Small == [precisions |-> {"bf16"}, quantizations |-> {},
          context |-> 4, engine |-> "sglang"]

JobFor(k, context, quantization, engines) ==
  [key |-> k, precision |-> "bf16", quantization |-> quantization,
   context |-> context, engines |-> engines]

AnyWorker(k) == JobFor(k, 4, "", {})
GeneralOnly(k) == JobFor(k, 8, "int8", {"vllm"})

OneManifest == {General}
TwoManifests == {General, Small}
OneJobSpec == {AnyWorker(k1)}
OneSelectiveSpec == {GeneralOnly(k1)}
TwoKinds == {GeneralOnly(k1), AnyWorker(k2)}

Accepted == [status |-> "accepted", rejection |-> NoReason]
OneDecision == {Accepted}

\* Workers are interchangeable, and so are groups.
GroupSymmetry == Permutations({g1, g2})
WorkerGroupSymmetry == Permutations({w1, w2}) \cup Permutations({g1, g2})
=============================================================================

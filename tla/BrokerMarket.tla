---------------------------- MODULE BrokerMarket ----------------------------
(***************************************************************************)
(* The broker implements JobMarket.  The holder of a job is read off its    *)
(* leases: LeasePromise makes the one that counts unique.                   *)
(***************************************************************************)
EXTENDS WorkerBroker

CONSTANTS Unknown, Open, Finished

ASSUME MarketAssumption ==
  /\ Workers \cap {Unknown, Open, Finished} = {}
  /\ Unknown # Open /\ Open # Finished /\ Unknown # Finished

\* The leases of j that are in progress or done: at most one.
HoldingLeases(j) == {l \in DOMAIN leases : leases[l].job = j /\ Holds(l)}

LeaseOf(j) == CHOOSE l \in HoldingLeases(j) : TRUE

HolderOf(j) ==
  IF ~ Known(j) THEN Unknown
  ELSE IF HoldingLeases(j) = {} THEN Open
  ELSE IF Issued(LeaseOf(j)) THEN leases[LeaseOf(j)].worker ELSE Finished

ProductOf(j) ==
  IF HoldingLeases(j) # {} /\ Submitted(LeaseOf(j))
  THEN leases[LeaseOf(j)].group
  ELSE NoGroup

Market == INSTANCE JobMarket WITH holder <- [j \in Jobs |-> HolderOf(j)],
                                  product <- [j \in Jobs |-> ProductOf(j)]

\* Every behaviour of the broker is one of the abstract market: a job is
\* never with two workers, a finished job is never handed out again, work
\* handed back cannot be delivered by the worker that lost it, and no group
\* finishes two jobs.
ImplementsMarket == Market!Spec
=============================================================================

----------------------------- MODULE JobMarket -----------------------------
(***************************************************************************)
(* What the broker promises about jobs, without leases, deadlines, health   *)
(* or an audit log: a job is open, or exactly one worker is at it, or it is *)
(* finished with a group of its own.  Work may be handed back any number of *)
(* times; finished work stays finished.  (contracts.py:204-210: "exactly    *)
(* one worker may produce the group described by job_id".)                  *)
(***************************************************************************)
CONSTANTS Jobs, Workers, Groups, NoGroup, Unknown, Open, Finished

VARIABLES
  holder,     \* of each job: Unknown, Open, the one worker at it, or Finished
  product     \* of each job: the group it was finished with

Products == {product[j] : j \in Jobs} \ {NoGroup}

Enqueue(j) ==
  /\ holder[j] = Unknown
  /\ holder' = [holder EXCEPT ![j] = Open]
  /\ UNCHANGED product

Grant(j, w) ==
  /\ holder[j] = Open
  /\ holder' = [holder EXCEPT ![j] = w]
  /\ UNCHANGED product

\* A group finishes one job only.
Deliver(j, g) ==
  /\ holder[j] \in Workers
  /\ g \notin Products
  /\ holder' = [holder EXCEPT ![j] = Finished]
  /\ product' = [product EXCEPT ![j] = g]

\* One call may hand back the jobs of several workers.
HandBack(js) ==
  /\ \A j \in js : holder[j] \in Workers
  /\ holder' = [j \in Jobs |-> IF j \in js THEN Open ELSE holder[j]]
  /\ UNCHANGED product

Init ==
  /\ holder = [j \in Jobs |-> Unknown]
  /\ product = [j \in Jobs |-> NoGroup]

Next ==
  \/ \E j \in Jobs : \/ Enqueue(j)
                     \/ \E w \in Workers : Grant(j, w)
                     \/ \E g \in Groups : Deliver(j, g)
  \/ \E js \in SUBSET Jobs : HandBack(js)

Spec == Init /\ [][Next]_<<holder, product>>
=============================================================================

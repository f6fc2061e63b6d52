---------------------------- MODULE TrainerClient ----------------------------
(***************************************************************************)
(* TrainerClient.fetch (trainer_client.py) over a LiveStore that the broker *)
(* and the validity layer keep changing.  fetch takes no lock: it iterates  *)
(* the store's OrderedDict record by record, then counts a serving for each *)
(* record it picked, then returns the records.  A thread switch may fall    *)
(* between any two iterations of either loop, so each iteration is a step.  *)
(* The iterator of an OrderedDict raises when it has a record left to give  *)
(* and the dictionary has grown since it was created.                       *)
(*                                                                          *)
(* Trainers pull groups through fetch alone (trainer_client.py:3-4), so     *)
(* get_batch has no caller here.                                            *)
(*                                                                          *)
(* steady and delivered are history variables: they record what happened    *)
(* for the properties and no guard reads them.                              *)
(***************************************************************************)
EXTENDS Integers, Sequences, FiniteSets, Functions

CONSTANTS
  Groups, RejectionReasons, NoReason,   \* of LiveStore
  Trainers,       \* threads that call fetch
  Metadata,       \* of each group: what the filter reads of its payload
  Queries,        \* the arguments of fetch
  NoLimit,        \* max_staleness is None
  AnyPrecision,   \* precision_class is None
  NoFetch,        \* the thread has not called fetch yet
  MaxServed,      \* bound: fetches start while no record is served that often
  MaxBatch        \* bound: the largest max_groups

VARIABLES
  records,     \* of the LiveStore
  fetches,     \* the call each trainer is in, or its last one
  steady,      \* what each call could have picked at every moment of it
  delivered    \* of each position: how often it was in a returned batch

Store == INSTANCE LiveStore

vars == <<records, fetches, steady, delivered>>

Query == [policy : STRING, maxGroups : 0 .. MaxBatch,
          maxStaleness : Nat \cup {NoLimit},
          precision : STRING \cup {AnyPrecision}, tier : {"fresh", "replay"}]

\* A call of fetch: size is that of the store when the iterator was made,
\* next the position it reads next, batch the candidates so far, counted
\* how many of them have their serving counted.
Fetch == [query : Queries, size : Nat, next : Nat, batch : Seq(Nat),
          counted : Nat, phase : {"scan", "count", "returned", "raised"}]

ASSUME ClientAssumption ==
  /\ NoReason \notin RejectionReasons
  /\ IsFiniteSet(Trainers)
  /\ Metadata \in [Groups -> [policy : STRING, lag : Nat, precision : STRING]]
  /\ Queries \subseteq Query
  /\ MaxServed \in Nat /\ MaxBatch \in Nat
  /\ NoFetch \notin Fetch

Idle(t) == fetches[t] # NoFetch => fetches[t].phase \in {"returned", "raised"}
Busy(t, phase) == fetches[t] # NoFetch /\ fetches[t].phase = phase

----------------------------------------------------------------------------
\* The filter

Admits(q, state) == state \in Store!Servable(q.tier = "replay")

FitsPayload_AnyVersion(q, m) ==  \* (mutant)
  /\ q.maxStaleness # NoLimit => m.lag <= q.maxStaleness
  /\ q.precision # AnyPrecision => m.precision = q.precision

FitsPayload(q, m) ==
  /\ m.policy = q.policy
  /\ q.maxStaleness # NoLimit => m.lag <= q.maxStaleness
  /\ q.precision # AnyPrecision => m.precision = q.precision

\* Whether the loop picks this record for q.
Picks(q, record) == Admits(q, record.state) /\ FitsPayload(q, Metadata[record.group])

\* The positions of rs that q picks now.
PickedFrom(q, rs) == {i \in DOMAIN rs : Picks(q, rs[i])}

----------------------------------------------------------------------------
\* fetch

NewFetch(q) == [query |-> q, size |-> Len(records), next |-> 1, batch |-> << >>,
                counted |-> 0,
                phase |-> IF q.maxGroups = 0 THEN "returned" ELSE "scan"]

StartFetch(t, q) ==
  /\ Idle(t)
  /\ \A i \in DOMAIN records : records[i].served < MaxServed
  /\ fetches' = [fetches EXCEPT ![t] = NewFetch(q)]
  /\ steady' = [steady EXCEPT ![t] = PickedFrom(q, records)]
  /\ UNCHANGED <<records, delivered>>

HasNext(f) == f.next <= f.size

\* The loop breaks as soon as the batch is full.
Full(f, batch) == Len(batch) >= f.query.maxGroups

\* One iteration of the scanning loop.
Scan(t) ==
  LET f == fetches[t]
      batch == IF Picks(f.query, records[f.next])
               THEN Append(f.batch, f.next) ELSE f.batch
  IN  /\ Busy(t, "scan") /\ HasNext(f) /\ Len(records) = f.size
      /\ fetches' = [fetches EXCEPT ![t] =
           [f EXCEPT !.next = @ + 1, !.batch = batch,
                     !.phase = IF batch # f.batch /\ Full(f, batch)
                               THEN "count" ELSE "scan"]]
      /\ UNCHANGED <<records, steady, delivered>>

\* "OrderedDict mutated during iteration": the call ends with an exception.
ScanRaises(t) ==
  /\ Busy(t, "scan") /\ HasNext(fetches[t]) /\ Len(records) # fetches[t].size
  /\ fetches' = [fetches EXCEPT ![t].phase = "raised"]
  /\ UNCHANGED <<records, steady, delivered>>

ScanEnds(t) ==
  /\ Busy(t, "scan") /\ ~ HasNext(fetches[t])
  /\ fetches' = [fetches EXCEPT ![t].phase = "count"]
  /\ UNCHANGED <<records, steady, delivered>>

\* One iteration of the counting loop.  The increment itself is one step: an
\* interpreter with a global lock does not switch threads inside it.
CountServed(t) ==
  LET f == fetches[t]
  IN  /\ Busy(t, "count") /\ f.counted < Len(f.batch)
      /\ records' = [records EXCEPT ![f.batch[f.counted + 1]].served = @ + 1]
      /\ fetches' = [fetches EXCEPT ![t].counted = @ + 1]
      /\ UNCHANGED <<steady, delivered>>

Return_OneUncounted(t) ==  \* (mutant)
  LET f == fetches[t]
  IN  /\ Busy(t, "count") /\ f.counted >= Len(f.batch) - 1
      /\ fetches' = [fetches EXCEPT ![t].phase = "returned"]
      /\ delivered' = [i \in DOMAIN delivered |->
                         delivered[i] + IF i \in Range(f.batch) THEN 1 ELSE 0]
      /\ UNCHANGED <<records, steady>>

Return(t) ==
  LET f == fetches[t]
  IN  /\ Busy(t, "count") /\ f.counted = Len(f.batch)
      /\ fetches' = [fetches EXCEPT ![t].phase = "returned"]
      /\ delivered' = [i \in DOMAIN delivered |->
                         delivered[i] + IF i \in Range(f.batch) THEN 1 ELSE 0]
      /\ UNCHANGED <<records, steady>>

----------------------------------------------------------------------------
\* The other users of the store

\* What each trainer could have picked at every moment so far.
Watch == steady' = [t \in Trainers |->
           IF Idle(t) THEN steady[t]
           ELSE steady[t] \cap PickedFrom(fetches[t].query, records')]

Submit(g, d) ==
  /\ Store!Submit(g, d)
  /\ delivered' = Append(delivered, 0)
  /\ Watch
  /\ UNCHANGED fetches

Transition(g, newState, rejection) ==
  /\ Store!Transition(g, newState, rejection)
  /\ Watch
  /\ UNCHANGED <<fetches, delivered>>

----------------------------------------------------------------------------

Init ==
  /\ Store!Init
  /\ fetches = [t \in Trainers |-> NoFetch]
  /\ steady = [t \in Trainers |-> {}]
  /\ delivered = << >>

FetchStep(t) ==
  \/ Scan(t)
  \/ ScanRaises(t)
  \/ ScanEnds(t)
  \/ CountServed(t)
  \/ Return(t)

Next ==
  \/ \E t \in Trainers : (\E q \in Queries : StartFetch(t, q)) \/ FetchStep(t)
  \/ \E g \in Groups, d \in Store!Decisions : Submit(g, d)
  \/ \E g \in Groups, s \in Store!GroupStatus,
        r \in RejectionReasons \cup {NoReason} : Transition(g, s, r)

Spec == Init /\ [][Next]_vars

----------------------------------------------------------------------------
\* Properties

TypeOK ==
  /\ Store!TypeOK
  /\ fetches \in [Trainers -> Fetch \cup {NoFetch}]
  /\ steady \in [Trainers -> SUBSET DOMAIN records]
  /\ delivered \in Seq(Nat) /\ Len(delivered) = Len(records)

\* What a trainer gets is what it asked for, whatever changed meanwhile: a
\* returned batch is no larger than allowed, "groups from a different version
\* are never silently swept in" (trainer_client.py:101-103), no record comes
\* twice, and nothing is skipped: a record that the call could have picked at
\* every moment is in the batch, or the batch is full of earlier records.
BatchesAnswerTheQuery ==
  \A t \in Trainers : Busy(t, "returned") =>
    LET f == fetches[t]
    IN  /\ Cardinality(Range(f.batch)) = Len(f.batch)
        /\ Len(f.batch) <= f.query.maxGroups
        /\ \A i \in Range(f.batch) :
             Metadata[records[i].group].policy = f.query.policy
        /\ \A i \in steady[t] \ Range(f.batch) :
             /\ Len(f.batch) = f.query.maxGroups
             /\ \A k \in Range(f.batch) : k < i

\* served_count accounts for what trainers received: each record was served
\* as often as it was delivered, plus the calls that are between counting and
\* returning.  A call that raises leaves no trace, which is why counting is a
\* loop of its own (trainer_client.py:118-120).
ServedMeansDelivered ==
  \A i \in DOMAIN records :
    records[i].served = delivered[i]
      + Cardinality({t \in Trainers : /\ Busy(t, "count")
                                      /\ \E k \in 1 .. fetches[t].counted :
                                           fetches[t].batch[k] = i})

\* The store is "safe to use across the registry, the dispatcher, and the
\* trainer client" (livestore.py:62-65): a submission does not break a fetch.
FetchesAreNotDisturbed == \A t \in Trainers : ~ Busy(t, "raised")
=============================================================================

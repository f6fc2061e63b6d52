----------------------------- MODULE LiveStore -----------------------------
(***************************************************************************)
(* The rollout store of livestore.py: every SampleGroup that was submitted, *)
(* in insertion order, with its place in the lifecycle                      *)
(* pending / accepted / correctable / quarantined / rejected.               *)
(*                                                                          *)
(* A record keeps the identity of its group, its state, the typed rejection *)
(* reason and how often it was served.  The payload, the free-text reason   *)
(* and the timestamps decide nothing here and are left out.                 *)
(*                                                                          *)
(* A definition marked (mutant) is a slip the definition after it might     *)
(* have had; no specification uses it.                                      *)
(***************************************************************************)
EXTENDS Integers, Sequences, FiniteSets

CONSTANTS
  Groups,            \* the group ids workers may submit
  RejectionReasons,  \* members of RejectionReason
  NoReason,          \* rejection_reason is None
  MaxBatch,          \* bound: the largest max_groups a consumer asks for
  MaxServed          \* bound: how often one record is served

ASSUME StoreAssumption ==
  /\ NoReason \notin RejectionReasons
  /\ MaxBatch \in Nat
  /\ MaxServed \in Nat

VARIABLE records     \* _records: an OrderedDict, here the sequence of its values

GroupStatus == {"pending", "accepted", "correctable", "quarantined", "rejected"}

Record == [group : Groups, state : GroupStatus,
           rejection : RejectionReasons \cup {NoReason}, served : Nat]

\* The contract GroupDecision and transition share: a rejection_reason is
\* given exactly for the state REJECTED.
Typed(status, rejection) == status = "rejected" <=> rejection # NoReason

\* What a GroupDecision says about its group.
Decisions == {d \in [status : GroupStatus,
                     rejection : RejectionReasons \cup {NoReason}] :
                Typed(d.status, d.rejection)}

Stored_ForgetsRejected ==  \* (mutant)
  {records[i].group : i \in {k \in DOMAIN records :
                               records[k].state # "rejected"}}

\* The ids has() answers True for.
Stored == {records[i].group : i \in DOMAIN records}

Servable(includeQuarantined) ==
  {"accepted", "correctable"}
    \cup IF includeQuarantined THEN {"quarantined"} ELSE {}

NewRecord_Swapped(g, d) ==  \* (mutant)
  [group |-> g, state |-> d.rejection, rejection |-> d.status, served |-> 0]

\* The record submit makes of a group and its decision.
NewRecord(g, d) == [group |-> g, state |-> d.status,
                    rejection |-> d.rejection, served |-> 0]

MayMove_Anywhere(old, new) == {old, new} \subseteq GroupStatus  \* (mutant)

\* Whether transition may put a record in state old into state new: every
\* state may be left except REJECTED, which may only be restated.
MayMove(old, new) == old = "rejected" => new = "rejected"

----------------------------------------------------------------------------

\* submit: a group id that is already stored raises DuplicateGroupError.
Submit(g, d) ==
  /\ g \notin Stored
  /\ records' = Append(records, NewRecord(g, d))

\* transition
Transition(g, newState, rejection) ==
  /\ Typed(newState, rejection)
  /\ \E i \in DOMAIN records :
       /\ records[i].group = g
       /\ MayMove(records[i].state, newState)
       /\ records' = [records EXCEPT ![i].state = newState,
                                     ![i].rejection = rejection]

Batch_NewestFirst(maxGroups, includeQuarantined) ==  \* (mutant)
  LET servable == {i \in DOMAIN records :
                     records[i].state \in Servable(includeQuarantined)}
  IN  {i \in servable :
         Cardinality({k \in servable : k >= i}) <= maxGroups}

\* The positions get_batch returns: the first maxGroups servable records.
Batch(maxGroups, includeQuarantined) ==
  LET servable == {i \in DOMAIN records :
                     records[i].state \in Servable(includeQuarantined)}
  IN  {i \in servable :
         Cardinality({k \in servable : k <= i}) <= maxGroups}

\* get_batch: serving counts, it does not remove.
GetBatch(maxGroups, includeQuarantined) ==
  LET batch == Batch(maxGroups, includeQuarantined)
  IN  /\ \A i \in batch : records[i].served < MaxServed
      /\ records' = [i \in DOMAIN records |->
                       IF i \in batch
                       THEN [records[i] EXCEPT !.served = @ + 1]
                       ELSE records[i]]

----------------------------------------------------------------------------

Init == records = << >>

Next ==
  \/ \E g \in Groups, d \in Decisions : Submit(g, d)
  \/ \E g \in Groups, s \in GroupStatus,
        r \in RejectionReasons \cup {NoReason} : Transition(g, s, r)
  \/ \E n \in 0 .. MaxBatch, q \in BOOLEAN : GetBatch(n, q)

Spec == Init /\ [][Next]_records

----------------------------------------------------------------------------

\* Type invariant of the store.
TypeOK == records \in Seq(Record)

\* One record per group: however submissions and transitions follow each
\* other, no group id is stored twice (the store is "the place where
\* idempotency lives", livestore.py:6-8), and only a rejected record carries
\* a rejection reason.
OneTypedRecordPerGroup ==
  /\ \A i, k \in DOMAIN records :
       records[i].group = records[k].group => i = k
  /\ \A i \in DOMAIN records : Typed(records[i].state, records[i].rejection)

\* Records are retained: a step may append a record and change states, but
\* it never drops a record, moves it, or takes it out of REJECTED.  FIFO
\* order and the finality of a rejection both rest on this.
RecordsAreRetained ==
  [][/\ Len(records) <= Len(records')
     /\ \A i \in DOMAIN records :
          /\ records'[i].group = records[i].group
          /\ records'[i].served >= records[i].served
          /\ records[i].state = "rejected" => records'[i].state = "rejected"
    ]_records

\* Serving is first in, first out and never touches what may not be
\* trained on: whenever a record is served, it is not pending or rejected,
\* and every earlier record that any call may serve is served with it.
ServingIsFifo ==
  [][\A k \in DOMAIN records :
       records'[k].served > records[k].served =>
         /\ records[k].state \in Servable(TRUE)
         /\ \A i \in 1 .. k - 1 :
              records[i].state \in Servable(FALSE) =>
                records'[i].served > records[i].served
    ]_records

=============================================================================

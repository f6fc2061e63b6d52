------------------------- MODULE TrainingLoopProofs -------------------------
(***************************************************************************)
(* Safety of the store for any number of groups and any batch size, and     *)
(* what the aggregator counts, for any groups, attributions and reasons.    *)
(* The store behaves as Spec of LiveStore allows; a report may come at any  *)
(* time.                                                                    *)
(***************************************************************************)
EXTENDS TrainingLoop, SequenceTheorems, FiniteSetTheorems, TLAPS

-----------------------------------------------------------------------------
\* The store

\* Every position of the store holds a record.
LEMMA RecordAt ==
  ASSUME TypeOK, NEW i \in DOMAIN records
  PROVE  i \in 1 .. Len(records) /\ records[i] \in Record
BY ElementOfSeq DEF TypeOK

\* A function on the positions of the store with records as values is again
\* a state of the store, of the same length.
LEMMA SameLength ==
  ASSUME TypeOK, NEW f \in [DOMAIN records -> Record]
  PROVE  f \in Seq(Record) /\ Len(f) = Len(records)
<1>1. Len(records) \in Nat /\ DOMAIN records = 1 .. Len(records)
  BY DEF TypeOK
<1> QED
  BY <1>1, SeqDef

\* What submit does.
LEMMA SubmitStep ==
  ASSUME TypeOK, NEW g \in Groups, NEW d \in Decisions, Submit(g, d)
  PROVE  /\ TypeOK'
         /\ Len(records') = Len(records) + 1
         /\ \A i \in DOMAIN records : records'[i] = records[i]
         /\ records'[Len(records) + 1] = NewRecord(g, d)
<1>1. NewRecord(g, d) \in Record
  BY DEF NewRecord, Record, Decisions
<1> QED
  BY <1>1 DEF Submit, TypeOK

\* What transition does: it changes the state and the reason of one record,
\* which was not rejected or stays so.
LEMMA TransitionStep ==
  ASSUME TypeOK, NEW g \in Groups, NEW s \in GroupStatus,
         NEW r \in RejectionReasons \cup {NoReason}, Transition(g, s, r)
  PROVE  /\ TypeOK'
         /\ DOMAIN records' = DOMAIN records /\ Len(records') = Len(records)
         /\ \A i \in DOMAIN records :
              /\ records'[i].group = records[i].group
              /\ records'[i].served = records[i].served
              /\ \/ records'[i] = records[i]
                 \/ /\ records'[i].state = s /\ records'[i].rejection = r
                    /\ Typed(s, r) /\ MayMove(records[i].state, s)
<1> PICK k \in DOMAIN records :
      /\ records' = [records EXCEPT ![k].state = s, ![k].rejection = r]
      /\ Typed(s, r) /\ MayMove(records[k].state, s)
  BY DEF Transition
<1>1. [records[k] EXCEPT !.state = s, !.rejection = r] \in Record
  BY RecordAt DEF Record
<1>2. records' = [i \in DOMAIN records |->
                    IF i = k THEN [records[k] EXCEPT !.state = s, !.rejection = r]
                    ELSE records[i]]
  BY DEF TypeOK
<1>3. records' \in [DOMAIN records -> Record]
  BY <1>1, <1>2, RecordAt
<1>4. ASSUME NEW i \in DOMAIN records
      PROVE  /\ records'[i].group = records[i].group
             /\ records'[i].served = records[i].served
             /\ i # k => records'[i] = records[i]
             /\ i = k => records'[i].state = s /\ records'[i].rejection = r
  BY <1>2, RecordAt DEF Record
<1> QED
  BY <1>2, <1>3, <1>4, SameLength DEF TypeOK

\* A consumer asks for a number of groups.
LEMMA BatchSizes == 0 .. MaxBatch \subseteq Nat
BY StoreAssumption

\* What get_batch does: it counts a serving of the records of the batch.
LEMMA GetBatchStep ==
  ASSUME TypeOK, NEW n \in Nat, NEW q \in BOOLEAN, GetBatch(n, q)
  PROVE  /\ TypeOK'
         /\ DOMAIN records' = DOMAIN records /\ Len(records') = Len(records)
         /\ \A i \in DOMAIN records :
              /\ records'[i].group = records[i].group
              /\ records'[i].state = records[i].state
              /\ records'[i].rejection = records[i].rejection
              /\ records'[i].served = IF i \in Batch(n, q)
                                      THEN records[i].served + 1
                                      ELSE records[i].served
<1>1. \A i \in DOMAIN records : [records[i] EXCEPT !.served = @ + 1] \in Record
  BY RecordAt DEF Record
<1>2. records' \in [DOMAIN records -> Record]
  BY <1>1, RecordAt DEF GetBatch
<1>3. ASSUME NEW i \in DOMAIN records
      PROVE  /\ records'[i].group = records[i].group
             /\ records'[i].state = records[i].state
             /\ records'[i].rejection = records[i].rejection
             /\ records'[i].served = IF i \in Batch(n, q)
                                     THEN records[i].served + 1
                                     ELSE records[i].served
  BY RecordAt DEF GetBatch, Record
<1> QED
  BY <1>2, <1>3, SameLength DEF TypeOK

\* The store holds records and nothing else.
THEOREM StoreTypeCorrect == Spec => []TypeOK
<1>1. Init => TypeOK
  BY DEF Init, TypeOK
<1>2. TypeOK /\ [Next]_records => TypeOK'
  <2> SUFFICES ASSUME TypeOK, [Next]_records PROVE TypeOK'
    OBVIOUS
  <2>1. CASE UNCHANGED records
    BY <2>1 DEF TypeOK
  <2>2. ASSUME NEW g \in Groups, NEW d \in Decisions, Submit(g, d)
        PROVE  TypeOK'
    BY <2>2, SubmitStep
  <2>3. ASSUME NEW g \in Groups, NEW s \in GroupStatus,
               NEW r \in RejectionReasons \cup {NoReason}, Transition(g, s, r)
        PROVE  TypeOK'
    BY <2>3, TransitionStep
  <2>4. ASSUME NEW n \in 0 .. MaxBatch, NEW q \in BOOLEAN, GetBatch(n, q)
        PROVE  TypeOK'
    BY <2>4, BatchSizes, GetBatchStep
  <2> QED
    BY <2>1, <2>2, <2>3, <2>4 DEF Next
<1> QED
  BY <1>1, <1>2, PTL DEF Spec

\* The store is where idempotency lives: no group id is stored twice, and a
\* record has a rejection reason exactly when it is rejected.
THEOREM OneRecordPerGroup == Spec => []OneTypedRecordPerGroup
<1>1. Init => OneTypedRecordPerGroup
  BY DEF Init, OneTypedRecordPerGroup
<1>2. TypeOK /\ OneTypedRecordPerGroup /\ [Next]_records => OneTypedRecordPerGroup'
  <2> SUFFICES ASSUME TypeOK, OneTypedRecordPerGroup, [Next]_records
               PROVE  OneTypedRecordPerGroup'
    OBVIOUS
  <2> USE DEF OneTypedRecordPerGroup
  <2>1. CASE UNCHANGED records
    BY <2>1
  <2>2. ASSUME NEW g \in Groups, NEW d \in Decisions, Submit(g, d)
        PROVE  OneTypedRecordPerGroup'
    <3>1. \A i \in DOMAIN records : records[i].group # g
      BY <2>2 DEF Submit, Stored
    <3>2. NewRecord(g, d).group = g
      BY DEF NewRecord
    <3>3. Typed(NewRecord(g, d).state, NewRecord(g, d).rejection)
      BY DEF NewRecord, Decisions, Typed
    <3>4. /\ DOMAIN records = 1 .. Len(records) /\ Len(records) \in Nat
          /\ DOMAIN records' = 1 .. Len(records) + 1
      BY <2>2, SubmitStep DEF TypeOK
    <3>5. \A i \in DOMAIN records' :
            i \in DOMAIN records \/ i = Len(records) + 1
      BY <3>4
    <3> QED
      BY <2>2, <3>1, <3>2, <3>3, <3>5, SubmitStep
  <2>3. ASSUME NEW g \in Groups, NEW s \in GroupStatus,
               NEW r \in RejectionReasons \cup {NoReason}, Transition(g, s, r)
        PROVE  OneTypedRecordPerGroup'
    BY <2>3, TransitionStep
  <2>4. ASSUME NEW n \in 0 .. MaxBatch, NEW q \in BOOLEAN, GetBatch(n, q)
        PROVE  OneTypedRecordPerGroup'
    BY <2>4, BatchSizes, GetBatchStep
  <2> QED
    BY <2>1, <2>2, <2>3, <2>4 DEF Next
<1> QED
  BY <1>1, <1>2, StoreTypeCorrect, PTL DEF Spec

\* Records are never dropped, moved or brought back from REJECTED.
THEOREM NothingIsLost == Spec => RecordsAreRetained
<1>1. TypeOK /\ [Next]_records =>
        [/\ Len(records) <= Len(records')
         /\ \A i \in DOMAIN records :
              /\ records'[i].group = records[i].group
              /\ records'[i].served >= records[i].served
              /\ records[i].state = "rejected" => records'[i].state = "rejected"
        ]_records
  <2> SUFFICES ASSUME TypeOK, Next
               PROVE  /\ Len(records) <= Len(records')
                      /\ \A i \in DOMAIN records :
                           /\ records'[i].group = records[i].group
                           /\ records'[i].served >= records[i].served
                           /\ records[i].state = "rejected" =>
                                records'[i].state = "rejected"
    OBVIOUS
  <2> DEFINE Goal == /\ Len(records) <= Len(records')
                     /\ \A i \in DOMAIN records :
                          /\ records'[i].group = records[i].group
                          /\ records'[i].served >= records[i].served
                          /\ records[i].state = "rejected" =>
                               records'[i].state = "rejected"
  <2>1. Len(records) \in Nat
        /\ \A i \in DOMAIN records : records[i] \in Record /\ records[i].served \in Nat
    BY RecordAt DEF TypeOK, Record
  <2>2. ASSUME NEW g \in Groups, NEW d \in Decisions, Submit(g, d)
        PROVE  Goal
    BY <2>1, <2>2, SubmitStep
  <2>3. ASSUME NEW g \in Groups, NEW s \in GroupStatus,
               NEW r \in RejectionReasons \cup {NoReason}, Transition(g, s, r)
        PROVE  Goal
    BY <2>1, <2>3, TransitionStep DEF MayMove
  <2>4. ASSUME NEW n \in 0 .. MaxBatch, NEW q \in BOOLEAN, GetBatch(n, q)
        PROVE  Goal
    BY <2>1, <2>4, BatchSizes, GetBatchStep
  <2> QED
    BY <2>2, <2>3, <2>4 DEF Next
<1> QED
  BY <1>1, StoreTypeCorrect, PTL DEF Spec, RecordsAreRetained

\* If a record is in a batch, every earlier servable record is.
LEMMA BatchIsAPrefix ==
  ASSUME TypeOK, NEW n \in Nat, NEW q \in BOOLEAN,
         NEW k \in Batch(n, q), NEW i \in 1 .. k - 1,
         records[i].state \in Servable(q)
  PROVE  i \in Batch(n, q)
<1> DEFINE servable == {p \in DOMAIN records : records[p].state \in Servable(q)}
           UpTo(p) == {m \in servable : m <= p}
<1>1. /\ Len(records) \in Nat /\ DOMAIN records = 1 .. Len(records)
      /\ k \in servable /\ Cardinality(UpTo(k)) <= n
  BY DEF TypeOK, Batch
<1>2. i \in servable /\ UpTo(i) \subseteq UpTo(k)
  BY <1>1
<1>3. IsFiniteSet(UpTo(k))
  <2>1. IsFiniteSet(1 .. Len(records))
    BY <1>1, FS_Interval
  <2>2. UpTo(k) \subseteq 1 .. Len(records)
    BY <1>1
  <2> QED
    BY <2>1, <2>2, FS_Subset
<1>4. Cardinality(UpTo(i)) <= Cardinality(UpTo(k))
  BY <1>2, <1>3, FS_Subset
<1>5. Cardinality(UpTo(i)) \in Nat /\ Cardinality(UpTo(k)) \in Nat
  BY <1>2, <1>3, FS_Subset, FS_CardinalityType
<1>6. Cardinality(UpTo(i)) <= n
  BY <1>1, <1>4, <1>5
<1> QED
  BY <1>2, <1>6 DEF Batch

\* Whatever batches are asked for, serving is first in, first out, and only
\* records fit to be trained on or replayed are served.
THEOREM FirstInFirstOut == Spec => ServingIsFifo
<1>1. TypeOK /\ [Next]_records =>
        [\A k \in DOMAIN records :
           records'[k].served > records[k].served =>
             /\ records[k].state \in Servable(TRUE)
             /\ \A i \in 1 .. k - 1 :
                  records[i].state \in Servable(FALSE) =>
                    records'[i].served > records[i].served
        ]_records
  <2> DEFINE Served(i) == records'[i].served > records[i].served
             Goal == \A k \in DOMAIN records : Served(k) =>
                       /\ records[k].state \in Servable(TRUE)
                       /\ \A i \in 1 .. k - 1 :
                            records[i].state \in Servable(FALSE) => Served(i)
  <2> SUFFICES ASSUME TypeOK, Next PROVE Goal
    OBVIOUS
  <2>1. /\ Len(records) \in Nat /\ DOMAIN records = 1 .. Len(records)
        /\ \A i \in DOMAIN records : records[i] \in Record /\ records[i].served \in Nat
    BY RecordAt DEF TypeOK, Record
  <2>2. ASSUME \A i \in DOMAIN records : records'[i].served = records[i].served
        PROVE  Goal
    BY <2>1, <2>2
  <2>3. ASSUME NEW g \in Groups, NEW d \in Decisions, Submit(g, d)
        PROVE  Goal
    BY <2>2, <2>3, SubmitStep
  <2>4. ASSUME NEW g \in Groups, NEW s \in GroupStatus,
               NEW r \in RejectionReasons \cup {NoReason}, Transition(g, s, r)
        PROVE  Goal
    BY <2>1, <2>2, <2>4, TransitionStep
  <2>5. ASSUME NEW n \in 0 .. MaxBatch, NEW q \in BOOLEAN, GetBatch(n, q)
        PROVE  Goal
    <3>1. \A i \in DOMAIN records : Served(i) <=> i \in Batch(n, q)
      BY <2>1, <2>5, BatchSizes, GetBatchStep
    <3>2. \A i \in Batch(n, q) : records[i].state \in Servable(q)
      BY DEF Batch
    <3>3. Servable(q) \subseteq Servable(TRUE) /\ Servable(FALSE) \subseteq Servable(q)
      BY DEF Servable
    <3>4. ASSUME NEW k \in DOMAIN records, Served(k), NEW i \in 1 .. k - 1,
                 records[i].state \in Servable(FALSE)
          PROVE  Served(i)
      <4>1. k \in Batch(n, q) /\ records[i].state \in Servable(q)
        BY <3>1, <3>3, <3>4
      <4>2. i \in Batch(n, q)
        BY <4>1, BatchSizes, BatchIsAPrefix
      <4> QED
        BY <2>1, <3>1, <4>2
    <3> QED
      BY <3>1, <3>2, <3>3, <3>4
  <2> QED
    BY <2>3, <2>4, <2>5 DEF Next
<1> QED
  BY <1>1, StoreTypeCorrect, PTL DEF Spec, ServingIsFifo

\* Reports leave the store alone: to the store the loop is one more user, and all
\* of the above holds of the loop.
THEOREM TheLoopUsesTheStore == LoopSpec => Spec
<1>1. LoopInit => Init
  BY DEF LoopInit
<1>2. [LoopNext]_loopVars => [Next]_records
  BY DEF LoopNext, loopVars, Report
<1> QED
  BY <1>1, <1>2, PTL DEF LoopSpec, Spec

-----------------------------------------------------------------------------
\* The aggregator

Stats == [count : Nat, accepted : Nat, reasons : [TrainerReasons -> Nat]]

\* The groups that a table counts under a key, those of them that were accepted
\* and those refused for a reason.
Mine(kind, key) == {g \in seen : Attribution[g][kind] = key}
Accepted(kind, key) == {g \in Mine(kind, key) : \E v \in first[g] : v.accepted}
Refused(kind, key, r) == {g \in Mine(kind, key) : \E v \in first[g] : v.reason = r}

FeedbackTypeOK ==
  /\ seen \in SUBSET Groups /\ IsFiniteSet(seen)
  /\ first \in [Groups -> SUBSET Verdicts]
  /\ \A g \in Groups : g \in seen <=> first[g] # {}
  /\ stats = [kind \in Kinds |-> stats[kind]]
  /\ \A kind \in Kinds : stats[kind] \in [Keys(kind) -> Stats]

\* The property with its sets named.
Tallies ==
  \A kind \in Kinds : \A key \in Keys(kind) :
    /\ stats[kind][key].count = Cardinality(Mine(kind, key))
    /\ stats[kind][key].accepted = Cardinality(Accepted(kind, key))
    /\ \A r \in TrainerReasons :
         stats[kind][key].reasons[r] = Cardinality(Refused(kind, key, r))

FeedbackInv == FeedbackTypeOK /\ Tallies

\* The invariant implies the property: the groups reported on are those seen.
LEMMA TalliesTell == FeedbackInv => StatsTellFirstVerdicts
<1> SUFFICES ASSUME FeedbackInv PROVE StatsTellFirstVerdicts
  OBVIOUS
<1>1. Reported = seen
  BY DEF FeedbackInv, FeedbackTypeOK, Reported
<1> SUFFICES ASSUME NEW kind \in Kinds, NEW key \in Keys(kind)
             PROVE  LET mine == {g \in Reported : Attribution[g][kind] = key}
                    IN  /\ stats[kind][key].count = Cardinality(mine)
                        /\ stats[kind][key].accepted =
                             Cardinality({g \in mine : \E v \in first[g] : v.accepted})
                        /\ \A r \in TrainerReasons :
                             stats[kind][key].reasons[r] =
                               Cardinality({g \in mine : \E v \in first[g] : v.reason = r})
  BY DEF StatsTellFirstVerdicts
<1>2. {g \in Reported : Attribution[g][kind] = key} = Mine(kind, key)
  BY <1>1 DEF Mine
<1>3. /\ stats[kind][key].count = Cardinality(Mine(kind, key))
      /\ stats[kind][key].accepted = Cardinality(Accepted(kind, key))
      /\ \A r \in TrainerReasons :
           stats[kind][key].reasons[r] = Cardinality(Refused(kind, key, r))
  BY DEF FeedbackInv, Tallies
<1> QED
  BY <1>2, <1>3, Zenon DEF Accepted, Refused

\* What one more report adds to a table entry.
LEMMA BumpAdds ==
  ASSUME NEW s \in Stats, NEW v \in Verdicts
  PROVE  /\ Bump(s, v) \in Stats
         /\ Bump(s, v).count = s.count + 1
         /\ Bump(s, v).accepted = s.accepted + (IF v.accepted THEN 1 ELSE 0)
         /\ \A r \in TrainerReasons :
              Bump(s, v).reasons[r] = s.reasons[r] + (IF v.reason = r THEN 1 ELSE 0)
<1>1. /\ v.accepted \in BOOLEAN /\ v.reason \in TrainerReasons \cup {NoReason}
      /\ v.accepted => v.reason = NoReason
  BY DEF Verdicts
<1>2. /\ s.count \in Nat /\ s.accepted \in Nat /\ s.reasons \in [TrainerReasons -> Nat]
  BY DEF Stats
<1> QED
  BY <1>1, <1>2, FeedbackAssumption DEF Bump, One, Stats

\* A set with a new element is larger by one.
LEMMA OneMore ==
  ASSUME NEW S, IsFiniteSet(S), NEW x, x \notin S
  PROVE  Cardinality(S) \in Nat /\ Cardinality(S \cup {x}) = Cardinality(S) + 1
BY FS_CardinalityType, FS_AddElement

\* A report on a group seen before changes nothing.
LEMMA RepeatedReport ==
  ASSUME FeedbackInv, NEW g \in Groups, NEW v \in Verdicts, Report(g, v), g \in seen
  PROVE  UNCHANGED <<seen, stats, first>>
BY DEF Report, Ingest, Ignored, FeedbackInv, FeedbackTypeOK

\* A first report adds its group to the sets of its keys and to no other.
LEMMA FirstReport ==
  ASSUME FeedbackInv, NEW g \in Groups, NEW v \in Verdicts, Report(g, v), g \notin seen
  PROVE  FeedbackInv'
<1> USE DEF FeedbackInv, FeedbackTypeOK
<1>1. /\ seen' = seen \cup {g}
      /\ stats' = [kind \in Kinds |->
                     [stats[kind] EXCEPT ![Attribution[g][kind]] = Bump(@, v)]]
      /\ first' = [first EXCEPT ![g] = {v}]
  BY DEF Report, Ingest, Ignored
<1>2. seen' \in SUBSET Groups /\ IsFiniteSet(seen')
  BY <1>1, FS_AddElement
<1>3. /\ first' \in [Groups -> SUBSET Verdicts]
      /\ first'[g] = {v}
      /\ \A h \in Groups \ {g} : first'[h] = first[h]
  BY <1>1
<1>4. \A h \in Groups : h \in seen' <=> first'[h] # {}
  BY <1>1, <1>3
<1>5. stats' = [kind \in Kinds |-> stats'[kind]]
  BY <1>1
<1>6. ASSUME NEW kind \in Kinds
      PROVE  /\ Attribution[g][kind] \in Keys(kind)
             /\ stats'[kind] \in [Keys(kind) -> Stats]
             /\ stats'[kind][Attribution[g][kind]] =
                  Bump(stats[kind][Attribution[g][kind]], v)
             /\ \A key \in Keys(kind) \ {Attribution[g][kind]} :
                  stats'[kind][key] = stats[kind][key]
  <2>1. Attribution[g][kind] \in Keys(kind)
    BY DEF Keys
  <2>2. stats[kind] \in [Keys(kind) -> Stats]
    OBVIOUS
  <2>3. Bump(stats[kind][Attribution[g][kind]], v) \in Stats
    BY <2>1, <2>2, BumpAdds
  <2>4. stats'[kind] = [stats[kind] EXCEPT ![Attribution[g][kind]] =
                          Bump(stats[kind][Attribution[g][kind]], v)]
    BY <1>1
  <2> QED
    BY <2>1, <2>2, <2>3, <2>4
<1>7. ASSUME NEW kind \in Kinds, NEW key \in Keys(kind)
      PROVE  /\ stats'[kind][key].count = Cardinality(Mine(kind, key)')
             /\ stats'[kind][key].accepted = Cardinality(Accepted(kind, key)')
             /\ \A r \in TrainerReasons :
                  stats'[kind][key].reasons[r] = Cardinality(Refused(kind, key, r)')
  <2> DEFINE hit == Attribution[g][kind] = key
             s == stats[kind][key]
  <2>1. s \in Stats
    OBVIOUS
  <2>2. stats'[kind][key] = IF hit THEN Bump(s, v) ELSE s
    BY <1>6
  <2>3. /\ IsFiniteSet(Mine(kind, key)) /\ g \notin Mine(kind, key)
        /\ Mine(kind, key)' = IF hit THEN Mine(kind, key) \cup {g} ELSE Mine(kind, key)
    BY <1>1, FS_Subset DEF Mine
  <2>4. /\ IsFiniteSet(Accepted(kind, key)) /\ g \notin Accepted(kind, key)
        /\ Accepted(kind, key)' = IF hit /\ v.accepted
                                  THEN Accepted(kind, key) \cup {g} ELSE Accepted(kind, key)
    <3>1. Accepted(kind, key) \in SUBSET Mine(kind, key)
      BY DEF Accepted
    <3>2. \A h \in Mine(kind, key) : first'[h] = first[h]
      BY <1>3, <2>3 DEF Mine
    <3> QED
      BY <1>3, <2>3, <3>1, <3>2, FS_Subset DEF Accepted
  <2>5. ASSUME NEW r \in TrainerReasons
        PROVE  /\ IsFiniteSet(Refused(kind, key, r)) /\ g \notin Refused(kind, key, r)
               /\ Refused(kind, key, r)' =
                    IF hit /\ v.reason = r
                    THEN Refused(kind, key, r) \cup {g} ELSE Refused(kind, key, r)
    <3>1. Refused(kind, key, r) \in SUBSET Mine(kind, key)
      BY DEF Refused
    <3>2. \A h \in Mine(kind, key) : first'[h] = first[h]
      BY <1>3, <2>3 DEF Mine
    <3> QED
      BY <1>3, <2>3, <3>1, <3>2, FS_Subset DEF Refused
  <2>6. /\ s.count = Cardinality(Mine(kind, key))
        /\ s.accepted = Cardinality(Accepted(kind, key))
        /\ \A r \in TrainerReasons : s.reasons[r] = Cardinality(Refused(kind, key, r))
    BY DEF Tallies
  <2>7. Cardinality(Mine(kind, key)') = Cardinality(Mine(kind, key)) + (IF hit THEN 1 ELSE 0)
    <3>1. CASE hit
      BY <2>3, <3>1, OneMore
    <3>2. CASE ~hit
      BY <2>3, <3>2, FS_CardinalityType
    <3> QED
      BY <3>1, <3>2
  <2>8. Cardinality(Accepted(kind, key)') =
          Cardinality(Accepted(kind, key)) + (IF hit /\ v.accepted THEN 1 ELSE 0)
    <3>1. CASE hit /\ v.accepted
      BY <2>4, <3>1, OneMore
    <3>2. CASE ~(hit /\ v.accepted)
      BY <2>4, <3>2, FS_CardinalityType
    <3> QED
      BY <3>1, <3>2
  <2>9. ASSUME NEW r \in TrainerReasons
        PROVE  Cardinality(Refused(kind, key, r)') =
                 Cardinality(Refused(kind, key, r)) + (IF hit /\ v.reason = r THEN 1 ELSE 0)
    <3>1. CASE hit /\ v.reason = r
      BY <2>5, <3>1, OneMore
    <3>2. CASE ~(hit /\ v.reason = r)
      BY <2>5, <3>2, FS_CardinalityType
    <3> QED
      BY <3>1, <3>2
  <2>10. CASE hit
    BY <2>1, <2>2, <2>6, <2>7, <2>8, <2>9, <2>10, BumpAdds
  <2>11. CASE ~hit
    <3>1. /\ Mine(kind, key)' = Mine(kind, key) /\ Accepted(kind, key)' = Accepted(kind, key)
          /\ \A r \in TrainerReasons : Refused(kind, key, r)' = Refused(kind, key, r)
      BY <2>3, <2>4, <2>5, <2>11
    <3> QED
      BY <2>2, <2>6, <2>11, <3>1
  <2> QED
    BY <2>10, <2>11
<1> QED
  BY <1>2, <1>3, <1>4, <1>5, <1>6, <1>7 DEF Tallies

\* However often groups are served and reported on, in any order and with any
\* verdicts, each table counts each group once and as it was judged first.
THEOREM FeedbackCountsOnce == LoopSpec => []StatsTellFirstVerdicts
<1>1. LoopInit => FeedbackInv
  <2> SUFFICES ASSUME LoopInit PROVE FeedbackInv
    OBVIOUS
  <2> USE DEF LoopInit
  <2>1. FeedbackTypeOK
    BY FS_EmptySet DEF FeedbackTypeOK, NewStats, Stats
  <2>2. \A kind \in Kinds : \A key \in Keys(kind) :
          Mine(kind, key) = {} /\ Accepted(kind, key) = {} /\
          \A r \in TrainerReasons : Refused(kind, key, r) = {}
    BY DEF Mine, Accepted, Refused
  <2> QED
    BY <2>1, <2>2, FS_EmptySet DEF FeedbackInv, Tallies, NewStats
<1>2. FeedbackInv /\ [LoopNext]_loopVars => FeedbackInv'
  <2> SUFFICES ASSUME FeedbackInv, [LoopNext]_loopVars PROVE FeedbackInv'
    OBVIOUS
  <2>1. CASE UNCHANGED <<seen, stats, first>>
    <3>1. FeedbackTypeOK'
      BY <2>1 DEF FeedbackInv, FeedbackTypeOK
    <3>2. ASSUME NEW kind, NEW key
          PROVE  /\ Mine(kind, key)' = Mine(kind, key)
                 /\ Accepted(kind, key)' = Accepted(kind, key)
                 /\ \A r : Refused(kind, key, r)' = Refused(kind, key, r)
      BY <2>1 DEF Mine, Accepted, Refused
    <3> QED
      BY <2>1, <3>1, <3>2 DEF FeedbackInv, Tallies
  <2>2. ASSUME NEW g \in Groups, NEW v \in Verdicts, Report(g, v)
        PROVE  FeedbackInv'
    <3>1. CASE g \in seen
      BY <2>1, <2>2, <3>1, RepeatedReport
    <3>2. CASE g \notin seen
      BY <2>2, <3>2, FirstReport
    <3> QED
      BY <3>1, <3>2
  <2> QED
    BY <2>1, <2>2 DEF LoopNext, loopVars, feedbackVars
<1> QED
  BY <1>1, <1>2, TalliesTell, PTL DEF LoopSpec
=============================================================================

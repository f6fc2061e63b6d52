------------------------- MODULE TrainerClientProofs -------------------------
(***************************************************************************)
(* What fetch returns and what it counts, for any number of trainers, any   *)
(* queries and any interleaving with the other users of the store.          *)
(***************************************************************************)
EXTENDS TrainerClient, SequenceTheorems, FiniteSetTheorems, TLAPS

\* A batch lists positions the scan has passed, in order and each once, of
\* groups of the version that was asked for.
BatchOK(f) ==
  /\ 0 < f.next /\ f.next <= f.size + 1 /\ f.size <= Len(records)
  /\ Len(f.batch) <= f.query.maxGroups
  /\ f.counted <= Len(f.batch)
  /\ \A k \in DOMAIN f.batch :
       /\ 0 < f.batch[k] /\ f.batch[k] < f.next
       /\ Metadata[records[f.batch[k]].group].policy = f.query.policy
       /\ \A m \in DOMAIN f.batch : k < m => f.batch[k] < f.batch[m]

\* While the loop scans, the batch has room and nothing is counted; what the
\* call could have picked throughout lies ahead unless the batch has it.
ScanOK(f, possible) ==
  /\ Len(f.batch) < f.query.maxGroups
  /\ f.counted = 0
  /\ possible \subseteq PickedFrom(f.query, records)
  /\ \A i \in possible : i \in f.next .. f.size \/ i \in Range(f.batch)

\* Afterwards what it left out lies behind a full batch.
NothingSkipped(f, possible) ==
  \A i \in possible \ Range(f.batch) :
    /\ Len(f.batch) = f.query.maxGroups
    /\ \A k \in DOMAIN f.batch : f.batch[k] < i

FetchOK(t) ==
  LET f == fetches[t]
  IN  /\ BatchOK(f)
      /\ f.phase = "scan" => ScanOK(f, steady[t])
      /\ f.phase \in {"count", "returned"} => NothingSkipped(f, steady[t])

FetchInv == \A t \in Trainers : fetches[t] # NoFetch => FetchOK(t)

-----------------------------------------------------------------------------
\* What a step does to the store

\* Records keep their places and their groups.
StoreGrows ==
  /\ Store!TypeOK'
  /\ Len(records) <= Len(records')
  /\ \A i \in DOMAIN records : i \in DOMAIN records'
                            /\ records'[i].group = records[i].group

\* Every position of the store holds a record.
LEMMA StoreRecord ==
  ASSUME TypeOK, NEW i \in DOMAIN records
  PROVE  records[i] \in Store!Record
BY ElementOfSeq DEF TypeOK, Store!TypeOK

\* A function on the positions of the store with records as values is again
\* a state of the store, of the same length.
LEMMA StoreLength ==
  ASSUME TypeOK, NEW f \in [DOMAIN records -> Store!Record]
  PROVE  f \in Seq(Store!Record) /\ Len(f) = Len(records)
<1>1. Len(records) \in Nat /\ DOMAIN records = 1 .. Len(records)
  BY DEF TypeOK, Store!TypeOK
<1> QED
  BY <1>1, SeqDef

LEMMA SubmitGrows ==
  ASSUME TypeOK, NEW g \in Groups, NEW d \in Store!Decisions, Store!Submit(g, d)
  PROVE  /\ StoreGrows
         /\ Len(records') = Len(records) + 1
         /\ \A i \in DOMAIN records : records'[i] = records[i]
         /\ records'[Len(records) + 1].served = 0
<1>1. Store!NewRecord(g, d) \in Store!Record /\ Store!NewRecord(g, d).served = 0
  BY DEF Store!NewRecord, Store!Record, Store!Decisions
<1>2. records' = Append(records, Store!NewRecord(g, d)) /\ records \in Seq(Store!Record)
  BY DEF Store!Submit, TypeOK, Store!TypeOK
<1>3. /\ Store!TypeOK'
      /\ Len(records) \in Nat /\ DOMAIN records = 1 .. Len(records)
      /\ Len(records') = Len(records) + 1 /\ DOMAIN records' = 1 .. Len(records')
      /\ \A i \in DOMAIN records : records'[i] = records[i]
      /\ records'[Len(records) + 1] = Store!NewRecord(g, d)
  BY <1>1, <1>2 DEF Store!TypeOK
<1> QED
  BY <1>1, <1>3 DEF StoreGrows

LEMMA TransitionGrows ==
  ASSUME TypeOK, NEW g \in Groups, NEW s \in Store!GroupStatus,
         NEW r \in RejectionReasons \cup {NoReason}, Store!Transition(g, s, r)
  PROVE  /\ StoreGrows
         /\ DOMAIN records' = DOMAIN records /\ Len(records') = Len(records)
         /\ \A i \in DOMAIN records : records'[i].served = records[i].served
<1>1. PICK k \in DOMAIN records :
        records' = [records EXCEPT ![k].state = s, ![k].rejection = r]
  BY DEF Store!Transition
<1>2. [records[k] EXCEPT !.state = s, !.rejection = r] \in Store!Record
  BY StoreRecord DEF Store!Record
<1>3. records' = [i \in DOMAIN records |->
                    IF i = k THEN [records[k] EXCEPT !.state = s, !.rejection = r]
                    ELSE records[i]]
  BY <1>1 DEF TypeOK, Store!TypeOK
<1>4. records' \in [DOMAIN records -> Store!Record]
  BY <1>2, <1>3, StoreRecord
<1>5. Store!TypeOK' /\ Len(records') = Len(records)
  BY <1>4, StoreLength DEF Store!TypeOK
<1>6. \A i \in DOMAIN records : /\ records'[i].group = records[i].group
                               /\ records'[i].served = records[i].served
  BY <1>3, StoreRecord DEF Store!Record
<1>7. Len(records) \in Nat /\ DOMAIN records' = DOMAIN records
  BY <1>3 DEF TypeOK, Store!TypeOK
<1> QED
  BY <1>5, <1>6, <1>7 DEF StoreGrows

\* What one iteration of the counting loop does: it counts a serving of one
\* record of the batch.
LEMMA CountGrows ==
  ASSUME TypeOK, NEW t \in Trainers, CountServed(t)
  PROVE  /\ StoreGrows
         /\ DOMAIN records' = DOMAIN records /\ Len(records') = Len(records)
         /\ \A i \in DOMAIN records :
              /\ records'[i].state = records[i].state
              /\ records'[i].served =
                   IF i = fetches[t].batch[fetches[t].counted + 1]
                   THEN records[i].served + 1 ELSE records[i].served
<1> DEFINE p == fetches[t].batch[fetches[t].counted + 1]
<1>1. /\ Len(records) \in Nat
      /\ \A i \in DOMAIN records : records[i] \in Store!Record
  BY StoreRecord DEF TypeOK, Store!TypeOK
<1>2. records' = [i \in DOMAIN records |->
                    IF i = p THEN [records[i] EXCEPT !.served = @ + 1]
                    ELSE records[i]]
  BY DEF CountServed, TypeOK, Store!TypeOK
<1>3. \A i \in DOMAIN records :
        [records[i] EXCEPT !.served = @ + 1] \in Store!Record
  BY <1>1 DEF Store!Record
<1>4. records' \in [DOMAIN records -> Store!Record]
  BY <1>1, <1>2, <1>3
<1>5. Store!TypeOK' /\ Len(records') = Len(records)
  BY <1>4, StoreLength DEF Store!TypeOK
<1>6. ASSUME NEW i \in DOMAIN records
      PROVE  /\ records'[i].group = records[i].group
             /\ records'[i].state = records[i].state
             /\ records'[i].served = IF i = p THEN records[i].served + 1
                                     ELSE records[i].served
  BY <1>1, <1>2 DEF Store!Record
<1> QED
  BY <1>1, <1>2, <1>5, <1>6 DEF StoreGrows

-----------------------------------------------------------------------------
\* Types

\* A trainer in a call has a record of it.
LEMMA BusyFetch ==
  ASSUME TypeOK, NEW t \in Trainers, fetches[t] # NoFetch
  PROVE  /\ fetches[t] \in Fetch
         /\ fetches[t].query \in Query /\ fetches[t].query.maxGroups \in Nat
         /\ fetches[t].size \in Nat /\ fetches[t].next \in Nat
         /\ fetches[t].batch \in Seq(Nat) /\ Len(fetches[t].batch) \in Nat
         /\ fetches[t].counted \in Nat
<1>1. fetches[t] \in Fetch
  BY DEF TypeOK
<1>2. fetches[t].query \in Query
  BY <1>1, ClientAssumption DEF Fetch
<1> QED
  BY <1>1, <1>2, ClientAssumption DEF Fetch, Query

LEMMA ScannedType ==
  ASSUME NEW f \in Fetch, NEW n \in Nat, NEW b \in Seq(Nat), NEW p \in {"count", "scan"}
  PROVE  [f EXCEPT !.next = n, !.batch = b, !.phase = p] \in Fetch
BY DEF Fetch

\* What the steps of a call make of it is a call again, and so is not NoFetch.
LEMMA FetchTypes ==
  ASSUME TypeOK, NEW t \in Trainers,
         (\E q \in Queries : StartFetch(t, q)) \/ FetchStep(t)
  PROVE  /\ \E g \in Fetch : g # NoFetch /\ fetches' = [fetches EXCEPT ![t] = g]
         /\ fetches' \in [Trainers -> Fetch \cup {NoFetch}]
<1> SUFFICES ASSUME TRUE
             PROVE  \E g \in Fetch : fetches' = [fetches EXCEPT ![t] = g]
  BY ClientAssumption DEF TypeOK
<1> DEFINE f == fetches[t]
<1>1. ASSUME NEW q \in Queries, StartFetch(t, q)
      PROVE  \E g \in Fetch : fetches' = [fetches EXCEPT ![t] = g]
  <2>1. NewFetch(q) \in Fetch
    BY DEF NewFetch, Fetch, TypeOK, Store!TypeOK
  <2> QED
    BY <1>1, <2>1 DEF StartFetch
<1>2. CASE Scan(t)
  <2> DEFINE batch == IF Picks(f.query, records[f.next])
                      THEN Append(f.batch, f.next) ELSE f.batch
             g == [f EXCEPT !.next = @ + 1, !.batch = batch,
                            !.phase = IF batch # f.batch /\ Full(f, batch)
                                      THEN "count" ELSE "scan"]
  <2>1. fetches' = [fetches EXCEPT ![t] = g] /\ f \in Fetch
    BY <1>2, BusyFetch DEF Scan, Busy
  <2>2. batch \in Seq(Nat)
    BY <2>1 DEF Fetch
  <2>3. g \in Fetch
    <3>1. ASSUME NEW b \in Seq(Nat), NEW p \in {"count", "scan"}
          PROVE  [f EXCEPT !.next = @ + 1, !.batch = b, !.phase = p] \in Fetch
      <4>1. f.next + 1 \in Nat
        BY <2>1 DEF Fetch
      <4> QED
        BY <2>1, <4>1, ScannedType
    <3> HIDE DEF batch
    <3> QED
      BY <2>2, <3>1
  <2> QED
    BY <2>1, <2>3
<1>3. ASSUME NEW p \in {"raised", "count", "returned"}, Busy(t, "scan") \/ Busy(t, "count"),
             fetches' = [fetches EXCEPT ![t].phase = p]
      PROVE  \E g \in Fetch : fetches' = [fetches EXCEPT ![t] = g]
  <2>1. [f EXCEPT !.phase = p] \in Fetch
    BY <1>3, BusyFetch DEF Fetch, Busy
  <2> QED
    BY <1>3, <2>1
<1>4. CASE CountServed(t)
  <2>1. f \in Fetch /\ f.counted + 1 \in Nat
    BY <1>4, BusyFetch DEF CountServed, Busy
  <2>2. [f EXCEPT !.counted = f.counted + 1] \in Fetch
    BY <2>1 DEF Fetch
  <2> QED
    BY <1>4, <2>2 DEF CountServed
<1> QED
  BY <1>1, <1>2, <1>3, <1>4 DEF FetchStep, ScanRaises, ScanEnds, Return

\* The kinds of steps.
LEMMA Steps ==
  [Next]_vars =>
    \/ UNCHANGED vars
    \/ \E t \in Trainers : (\E q \in Queries : StartFetch(t, q)) \/ FetchStep(t)
    \/ /\ (\E g \in Groups, d \in Store!Decisions : Submit(g, d))
       /\ UNCHANGED fetches /\ Watch
    \/ /\ (\E g \in Groups, s \in Store!GroupStatus,
             r \in RejectionReasons \cup {NoReason} : Transition(g, s, r))
       /\ UNCHANGED <<fetches, delivered>> /\ Watch
BY DEF Next, Submit, Transition, vars

\* The store only grows, whoever steps.
LEMMA StoreSteps == TypeOK /\ [Next]_vars => StoreGrows
<1> SUFFICES ASSUME TypeOK, [Next]_vars PROVE StoreGrows
  OBVIOUS
<1>1. CASE UNCHANGED records
  <2>1. Len(records) \in Nat /\ Store!TypeOK
    BY DEF TypeOK, Store!TypeOK
  <2>2. Store!TypeOK'
    BY <1>1, <2>1 DEF Store!TypeOK
  <2> QED
    BY <1>1, <2>1, <2>2 DEF StoreGrows
<1>2. ASSUME NEW g \in Groups, NEW d \in Store!Decisions, Submit(g, d)
      PROVE  StoreGrows
  BY <1>2, SubmitGrows DEF Submit
<1>3. ASSUME NEW g \in Groups, NEW s \in Store!GroupStatus,
             NEW r \in RejectionReasons \cup {NoReason}, Transition(g, s, r)
      PROVE  StoreGrows
  BY <1>3, TransitionGrows DEF Transition
<1>4. ASSUME NEW t \in Trainers, (\E q \in Queries : StartFetch(t, q)) \/ FetchStep(t)
      PROVE  StoreGrows
  BY <1>1, <1>4, CountGrows
     DEF FetchStep, StartFetch, Scan, ScanRaises, ScanEnds, Return
<1> QED
  BY <1>1, <1>2, <1>3, <1>4, Steps DEF vars

LEMMA ClientTypeInductive == TypeOK /\ [Next]_vars => TypeOK'
<1> SUFFICES ASSUME TypeOK, [Next]_vars PROVE TypeOK'
  OBVIOUS
<1>1. Store!TypeOK' /\ DOMAIN records \subseteq DOMAIN records'
  BY StoreSteps DEF StoreGrows
<1>2. /\ fetches \in [Trainers -> Fetch \cup {NoFetch}]
      /\ steady \in [Trainers -> SUBSET DOMAIN records]
      /\ delivered \in Seq(Nat) /\ Len(delivered) = Len(records)
  BY DEF TypeOK
<1>3. CASE UNCHANGED vars
  BY <1>1, <1>2, <1>3 DEF vars, TypeOK
<1>4. ASSUME NEW t \in Trainers, (\E q \in Queries : StartFetch(t, q)) \/ FetchStep(t)
      PROVE  TypeOK'
  <2>1. fetches' \in [Trainers -> Fetch \cup {NoFetch}]
    BY <1>4, FetchTypes
  <2>2. steady' \in [Trainers -> SUBSET DOMAIN records']
    <3>1. CASE UNCHANGED steady
      BY <1>1, <1>2, <3>1
    <3>2. ASSUME NEW q \in Queries, StartFetch(t, q)
          PROVE  steady' \in [Trainers -> SUBSET DOMAIN records']
      BY <1>1, <1>2, <3>2 DEF StartFetch, PickedFrom
    <3> QED
      BY <1>4, <3>1, <3>2 DEF FetchStep, Scan, ScanRaises, ScanEnds, CountServed, Return
  <2>3. Len(records') = Len(records)
    BY <1>4, CountGrows DEF FetchStep, StartFetch, Scan, ScanRaises, ScanEnds, Return
  <2>4. delivered' \in Seq(Nat) /\ Len(delivered') = Len(delivered)
    <3>1. CASE UNCHANGED delivered
      BY <1>2, <3>1
    <3>2. CASE Return(t)
      <4>1. delivered' \in [DOMAIN delivered -> Nat]
        BY <1>2, <3>2 DEF Return
      <4>2. Len(delivered) \in Nat /\ DOMAIN delivered = 1 .. Len(delivered)
        BY <1>2
      <4> QED
        BY <4>1, <4>2, SeqDef
    <3> QED
      BY <1>4, <3>1, <3>2 DEF FetchStep, StartFetch, Scan, ScanRaises, ScanEnds, CountServed
  <2> QED
    BY <1>1, <1>2, <2>1, <2>2, <2>3, <2>4 DEF TypeOK
<1>5. ASSUME Watch, UNCHANGED fetches
      PROVE  steady' \in [Trainers -> SUBSET DOMAIN records']
  BY <1>1, <1>2, <1>5 DEF Watch
<1>6. ASSUME NEW g \in Groups, NEW d \in Store!Decisions, Submit(g, d)
      PROVE  TypeOK'
  <2>1. Len(records') = Len(records) + 1
    BY <1>6, SubmitGrows DEF Submit
  <2> QED
    BY <1>1, <1>2, <1>5, <1>6, <2>1 DEF Submit, TypeOK
<1>7. ASSUME NEW g \in Groups, NEW s \in Store!GroupStatus,
             NEW r \in RejectionReasons \cup {NoReason}, Transition(g, s, r)
      PROVE  TypeOK'
  <2>1. Len(records') = Len(records)
    BY <1>7, TransitionGrows DEF Transition
  <2> QED
    BY <1>1, <1>2, <1>5, <1>7, <2>1 DEF Transition, TypeOK
<1> QED
  BY <1>3, <1>4, <1>6, <1>7, Steps

\* Whatever trainers and the others do to it, the client's state keeps its
\* types; in particular the store stays one of records.
THEOREM ClientTypeCorrect == Spec => []TypeOK
<1>1. Init => TypeOK
  BY DEF Init, TypeOK, Store!Init, Store!TypeOK
<1> QED
  BY <1>1, ClientTypeInductive, PTL DEF Spec

-----------------------------------------------------------------------------
\* What a call returns

\* A call keeps its promise while others step.
LEMMA Undisturbed ==
  ASSUME TypeOK, StoreGrows, NEW u \in Trainers, fetches[u] # NoFetch, FetchOK(u),
         fetches'[u] = fetches[u], steady'[u] \subseteq steady[u],
         Busy(u, "scan") => steady'[u] \subseteq PickedFrom(fetches[u].query, records')
  PROVE  FetchOK(u)'
<1> DEFINE f == fetches[u]
<1>1. /\ f.next \in Nat /\ f.size \in Nat /\ f.batch \in Seq(Nat)
      /\ Len(records) \in Nat /\ Len(records') \in Nat
      /\ DOMAIN records = 1 .. Len(records) /\ Len(records) <= Len(records')
  BY BusyFetch DEF TypeOK, Store!TypeOK, StoreGrows
<1>2. BatchOK(f)'
  <2>1. BatchOK(f)
    BY DEF FetchOK
  <2>2. ASSUME NEW k \in DOMAIN f.batch PROVE f.batch[k] \in DOMAIN records
    <3>1. f.batch[k] \in Nat
      BY <1>1
    <3>2. /\ 0 < f.batch[k] /\ f.batch[k] < f.next
          /\ f.next <= f.size + 1 /\ f.size <= Len(records)
      BY <2>1 DEF BatchOK
    <3>3. ASSUME NEW b \in Nat, NEW n \in Nat, NEW z \in Nat, NEW m \in Nat,
                 0 < b, b < n, n <= z + 1, z <= m
          PROVE  b \in 1 .. m
      BY <3>3
    <3>4. f.batch[k] \in 1 .. Len(records)
      BY <1>1, <3>1, <3>2, <3>3
    <3> QED
      BY <1>1, <3>4
  <2>3. /\ 0 < f.next /\ f.next <= f.size + 1
        /\ Len(f.batch) <= f.query.maxGroups /\ f.counted <= Len(f.batch)
    BY <2>1 DEF BatchOK
  <2>4. f.size <= Len(records')
    BY <1>1, <2>1 DEF BatchOK
  <2>5. ASSUME NEW k \in DOMAIN f.batch
        PROVE  /\ 0 < f.batch[k] /\ f.batch[k] < f.next
               /\ Metadata[records'[f.batch[k]].group].policy = f.query.policy
               /\ \A m \in DOMAIN f.batch : k < m => f.batch[k] < f.batch[m]
    BY <2>1, <2>2 DEF BatchOK, StoreGrows
  <2> QED
    BY <2>3, <2>4, <2>5 DEF BatchOK
<1>3. CASE f.phase = "scan"
  BY <1>2, <1>3 DEF FetchOK, ScanOK, Busy
<1>4. CASE f.phase # "scan"
  BY <1>2, <1>4 DEF FetchOK, NothingSkipped
<1> QED
  BY <1>3, <1>4

\* Counting servings changes nothing a scan looks at.
LEMMA CountKeepsPicks ==
  ASSUME TypeOK, NEW t \in Trainers, CountServed(t), NEW q
  PROVE  PickedFrom(q, records') = PickedFrom(q, records)
BY CountGrows DEF StoreGrows, PickedFrom, Picks

\* What Append does.
LEMMA AppendOne ==
  ASSUME NEW s \in Seq(Nat), NEW x \in Nat
  PROVE  /\ Append(s, x) \in Seq(Nat) /\ Len(Append(s, x)) = Len(s) + 1
         /\ DOMAIN Append(s, x) = DOMAIN s \cup {Len(s) + 1}
         /\ Append(s, x)[Len(s) + 1] = x
         /\ \A k \in DOMAIN s : k \in 1 .. Len(s) /\ Append(s, x)[k] = s[k]
OBVIOUS

\* The call that scans: what it skips it could not have picked throughout.
LEMMA ScanKeepsPromise ==
  ASSUME TypeOK, NEW t \in Trainers, FetchOK(t), Scan(t)
  PROVE  FetchOK(t)'
<1> DEFINE f == fetches[t]
           g == fetches'[t]
           batch == IF Picks(f.query, records[f.next])
                    THEN Append(f.batch, f.next) ELSE f.batch
<1>1. /\ fetches[t] # NoFetch /\ f.phase = "scan" /\ f.next <= f.size
      /\ records' = records /\ steady' = steady
  BY DEF Scan, Busy, HasNext
<1>2. /\ f \in Fetch /\ f.query.maxGroups \in Nat
      /\ f.size \in Nat /\ f.next \in Nat /\ f.counted \in Nat
      /\ f.batch \in Seq(Nat) /\ Len(f.batch) \in Nat
      /\ Len(records) \in Nat /\ DOMAIN records = 1 .. Len(records)
  BY <1>1, BusyFetch DEF TypeOK, Store!TypeOK
<1>3. /\ g.query = f.query /\ g.size = f.size /\ g.counted = f.counted
      /\ g.next = f.next + 1 /\ g.batch = batch
      /\ g.phase = IF batch # f.batch /\ Full(f, batch) THEN "count" ELSE "scan"
  <2>1. g = [f EXCEPT !.next = @ + 1, !.batch = batch,
                      !.phase = IF batch # f.batch /\ Full(f, batch)
                                THEN "count" ELSE "scan"]
    BY DEF Scan, TypeOK
  <2> HIDE DEF batch
  <2> QED
    BY <1>2, <2>1 DEF Fetch
<1>4. BatchOK(f) /\ ScanOK(f, steady[t])
  BY <1>1 DEF FetchOK
<1>5. CASE ~ Picks(f.query, records[f.next])
  <2>1. g.batch = f.batch /\ g.phase = "scan"
    BY <1>3, <1>5
  <2>2. BatchOK(f)'
    <3>1. /\ 0 < g.next /\ g.next <= g.size + 1 /\ g.size <= Len(records')
          /\ Len(g.batch) <= g.query.maxGroups /\ g.counted <= Len(g.batch)
      <4>1. /\ 0 < f.next /\ f.size <= Len(records)
            /\ Len(f.batch) <= f.query.maxGroups /\ f.counted <= Len(f.batch)
        BY <1>4 DEF BatchOK
      <4>2. 0 < f.next + 1 /\ f.next + 1 <= f.size + 1
        BY <1>1, <1>2, <4>1
      <4> QED
        BY <1>1, <1>3, <2>1, <4>1, <4>2
    <3>2. ASSUME NEW k \in DOMAIN g.batch
          PROVE  /\ 0 < g.batch[k] /\ g.batch[k] < g.next
                 /\ Metadata[records'[g.batch[k]].group].policy = g.query.policy
                 /\ \A m \in DOMAIN g.batch : k < m => g.batch[k] < g.batch[m]
      <4>1. f.batch[k] \in Nat /\ k \in DOMAIN f.batch
        BY <1>2, <2>1
      <4>2. 0 < f.batch[k] /\ f.batch[k] < f.next
        BY <1>4, <4>1 DEF BatchOK
      <4>3. f.batch[k] < f.next + 1
        BY <1>2, <4>1, <4>2
      <4> QED
        BY <1>1, <1>3, <1>4, <2>1, <4>1, <4>2, <4>3 DEF BatchOK
    <3> QED
      BY <3>1, <3>2 DEF BatchOK
  <2>3. \A i \in steady[t] : i # f.next
    BY <1>4, <1>5 DEF ScanOK, PickedFrom
  <2>4. \A i \in steady[t] : i \in f.next + 1 .. f.size \/ i \in Range(f.batch)
    BY <1>2, <1>4, <2>3 DEF ScanOK
  <2>5. ScanOK(f, steady[t])'
    BY <1>1, <1>3, <1>4, <2>1, <2>4 DEF ScanOK
  <2> QED
    BY <1>1, <2>1, <2>2, <2>5 DEF FetchOK
<1>6. CASE Picks(f.query, records[f.next])
  <2>1. /\ g.batch = Append(f.batch, f.next) /\ g.batch \in Seq(Nat)
        /\ Len(g.batch) = Len(f.batch) + 1
        /\ DOMAIN g.batch = DOMAIN f.batch \cup {Len(f.batch) + 1}
        /\ g.batch[Len(f.batch) + 1] = f.next
        /\ \A k \in DOMAIN f.batch : k \in 1 .. Len(f.batch) /\ g.batch[k] = f.batch[k]
    <3>1. g.batch = Append(f.batch, f.next)
      BY <1>3, <1>6
    <3>2. ASSUME NEW s \in Seq(Nat), NEW x \in Nat, g.batch = Append(s, x)
          PROVE  /\ g.batch \in Seq(Nat) /\ Len(g.batch) = Len(s) + 1
                 /\ DOMAIN g.batch = DOMAIN s \cup {Len(s) + 1}
                 /\ g.batch[Len(s) + 1] = x
                 /\ \A k \in DOMAIN s : k \in 1 .. Len(s) /\ g.batch[k] = s[k]
      BY <3>2, AppendOne
    <3> QED
      BY <1>2, <3>1, <3>2, Zenon
  <2>2. Range(g.batch) = Range(f.batch) \cup {f.next}
    BY <2>1 DEF Range
  <2>3. Metadata[records[f.next].group].policy = f.query.policy
    BY <1>6 DEF Picks, FitsPayload
  <2>4. BatchOK(f)'
    <3>1. /\ 0 < g.next /\ g.next <= g.size + 1 /\ g.size <= Len(records')
          /\ Len(g.batch) <= g.query.maxGroups
          /\ g.counted <= Len(g.batch)
      <4>1. /\ 0 < f.next /\ f.size <= Len(records) /\ Len(f.batch) < f.query.maxGroups
            /\ f.counted = 0
        BY <1>4 DEF BatchOK, ScanOK
      <4> QED
        BY <1>1, <1>2, <1>3, <2>1, <4>1
    <3>2. ASSUME NEW k \in DOMAIN g.batch
          PROVE  /\ 0 < g.batch[k] /\ g.batch[k] < g.next
                 /\ Metadata[records[g.batch[k]].group].policy = g.query.policy
      <4>1. CASE k \in DOMAIN f.batch
        <5>1. /\ g.batch[k] = f.batch[k] /\ f.batch[k] \in Nat
              /\ 0 < f.batch[k] /\ f.batch[k] < f.next
          BY <1>2, <1>4, <2>1, <4>1 DEF BatchOK
        <5>2. Metadata[records[f.batch[k]].group].policy = f.query.policy
          BY <1>4, <4>1 DEF BatchOK
        <5> QED
          BY <1>2, <1>3, <5>1, <5>2
      <4>2. CASE k = Len(f.batch) + 1
        <5>1. g.batch[k] = f.next /\ 0 < f.next /\ f.next \in Nat
          BY <1>2, <1>4, <2>1, <4>2 DEF BatchOK
        <5>2. f.next < g.next /\ g.query = f.query
          BY <1>2, <1>3
        <5> QED
          BY <2>3, <5>1, <5>2
      <4> QED
        BY <2>1, <4>1, <4>2
    <3>3. ASSUME NEW k \in DOMAIN g.batch, NEW m \in DOMAIN g.batch, k < m
          PROVE  g.batch[k] < g.batch[m]
      <4>1. k \in DOMAIN f.batch
        BY <1>2, <2>1, <3>3
      <4>2. CASE m \in DOMAIN f.batch
        BY <1>4, <2>1, <3>3, <4>1, <4>2 DEF BatchOK
      <4>3. CASE m = Len(f.batch) + 1
        BY <1>2, <1>4, <2>1, <4>1, <4>3 DEF BatchOK
      <4> QED
        BY <2>1, <4>2, <4>3
    <3> QED
      BY <1>1, <3>1, <3>2, <3>3 DEF BatchOK
  <2>5. CASE ~ Full(f, batch)
    <3>1. g.phase = "scan" /\ Len(g.batch) < f.query.maxGroups
      BY <1>2, <1>3, <2>1, <2>5 DEF Full
    <3>2. ScanOK(f, steady[t])'
      BY <1>1, <1>2, <1>3, <1>4, <2>2, <3>1 DEF ScanOK
    <3> QED
      BY <1>1, <2>4, <3>1, <3>2 DEF FetchOK
  <2>6. CASE Full(f, batch)
    <3>1. g.phase = "count"
      BY <1>2, <1>3, <2>1, <2>6
    <3>2. Len(g.batch) = g.query.maxGroups
      BY <1>2, <1>3, <1>4, <2>1, <2>6 DEF Full, ScanOK
    <3>3. NothingSkipped(f, steady[t])'
      <4>1. ASSUME NEW i \in steady[t] \ Range(g.batch) PROVE i \in Int /\ f.next < i
        BY <1>2, <1>4, <2>2, <4>1 DEF ScanOK
      <4>2. \A k \in DOMAIN g.batch : g.batch[k] \in Nat /\ g.batch[k] <= f.next
        <5>1. \A k \in DOMAIN g.batch : g.batch[k] < f.next + 1
          BY <1>3, <2>4 DEF BatchOK
        <5>2. \A k \in DOMAIN g.batch : g.batch[k] \in Nat
          BY <2>1
        <5> QED
          BY <1>2, <5>1, <5>2
      <4> QED
        BY <1>1, <1>2, <3>2, <4>1, <4>2 DEF NothingSkipped
    <3> QED
      BY <1>1, <2>4, <3>1, <3>3 DEF FetchOK
  <2> QED
    BY <2>5, <2>6
<1> QED
  BY <1>5, <1>6

\* The steps of a call that keep its batch: they change its phase or count.
LEMMA PhaseKeepsPromise ==
  ASSUME TypeOK, NEW t \in Trainers, FetchOK(t),
         ScanRaises(t) \/ ScanEnds(t) \/ CountServed(t) \/ Return(t)
  PROVE  FetchOK(t)'
<1> DEFINE f == fetches[t]
           g == fetches'[t]
<1>1. /\ fetches[t] # NoFetch /\ f \in Fetch /\ f.batch \in Seq(Nat)
      /\ f.next \in Nat /\ f.size \in Nat /\ f.counted \in Nat
      /\ Len(f.batch) \in Nat
      /\ Len(records) \in Nat /\ DOMAIN records = 1 .. Len(records)
  BY BusyFetch DEF ScanRaises, ScanEnds, CountServed, Return, Busy, TypeOK, Store!TypeOK
<1>2. /\ BatchOK(f)
      /\ f.phase = "scan" => ScanOK(f, steady[t])
      /\ f.phase = "count" => NothingSkipped(f, steady[t])
  BY DEF FetchOK
<1>3. ASSUME NEW p \in {"raised", "count", "returned"}, UNCHANGED <<records, steady>>,
             fetches' = [fetches EXCEPT ![t].phase = p],
             p \in {"count", "returned"} => NothingSkipped(f, steady[t])
      PROVE  FetchOK(t)'
  <2>1. /\ g.query = f.query /\ g.size = f.size /\ g.next = f.next
        /\ g.batch = f.batch /\ g.counted = f.counted /\ g.phase = p
    BY <1>1, <1>3 DEF TypeOK, Fetch
  <2>2. BatchOK(f)'
    BY <1>2, <1>3, <2>1 DEF BatchOK
  <2> QED
    BY <1>3, <2>1, <2>2 DEF FetchOK, NothingSkipped
<1>4. CASE ScanEnds(t)
  <2>1. f.phase = "scan" /\ f.size < f.next
    BY <1>1, <1>4 DEF ScanEnds, Busy, HasNext
  <2>2. ASSUME NEW i \in steady[t] PROVE i \in Range(f.batch)
    BY <1>1, <1>2, <2>1 DEF ScanOK
  <2> QED
    BY <1>3, <1>4, <2>2 DEF ScanEnds, NothingSkipped
<1>5. CASE CountServed(t)
  <2>1. /\ g.query = f.query /\ g.size = f.size /\ g.next = f.next /\ g.phase = "count"
        /\ g.batch = f.batch /\ g.counted = f.counted + 1 /\ f.counted < Len(f.batch)
        /\ f.phase = "count" /\ steady' = steady
    <3>1. g = [f EXCEPT !.counted = @ + 1]
      BY <1>5 DEF CountServed, TypeOK
    <3> QED
      BY <1>1, <1>5, <3>1 DEF Fetch, CountServed, Busy
  <2>2. /\ Len(records') = Len(records)
        /\ \A i \in DOMAIN records : records'[i].group = records[i].group
    BY <1>5, CountGrows DEF StoreGrows
  <2>3. /\ 0 < f.next /\ f.next <= f.size + 1 /\ f.size <= Len(records)
        /\ Len(f.batch) <= f.query.maxGroups
    BY <1>2 DEF BatchOK
  <2>4. g.counted <= Len(g.batch)
    BY <1>1, <2>1
  <2>5. \A k \in DOMAIN f.batch : /\ 0 < f.batch[k] /\ f.batch[k] < f.next
                                  /\ f.batch[k] \in Nat
    BY <1>1, <1>2 DEF BatchOK
  <2>6. \A k \in DOMAIN f.batch : f.batch[k] \in DOMAIN records
    BY <1>1, <2>3, <2>5
  <2>7. ASSUME NEW k \in DOMAIN f.batch
        PROVE  Metadata[records'[f.batch[k]].group].policy = f.query.policy
    BY <1>2, <2>2, <2>6 DEF BatchOK
  <2>8. \A k, m \in DOMAIN f.batch : k < m => f.batch[k] < f.batch[m]
    BY <1>2 DEF BatchOK
  <2>9. BatchOK(f)'
    BY <2>1, <2>2, <2>3, <2>4, <2>5, <2>7, <2>8 DEF BatchOK
  <2> QED
    BY <1>2, <2>1, <2>9 DEF FetchOK, NothingSkipped
<1>6. CASE ScanRaises(t)
  BY <1>3, <1>6 DEF ScanRaises
<1>7. CASE Return(t)
  BY <1>2, <1>3, <1>7 DEF Return, Busy
<1> QED
  BY <1>4, <1>5, <1>6, <1>7

\* A call starts before the first record, with nothing in its batch.
LEMMA StartPromises ==
  ASSUME TypeOK, NEW t \in Trainers, NEW q \in Queries, StartFetch(t, q)
  PROVE  FetchOK(t)'
<1> DEFINE g == fetches'[t]
<1>1. /\ g = NewFetch(q) /\ records' = records /\ steady'[t] = PickedFrom(q, records)
      /\ q.maxGroups \in Nat /\ Len(records) \in Nat /\ DOMAIN records = 1 .. Len(records)
  <2>1. q.maxGroups \in Nat
    BY ClientAssumption DEF Query
  <2>2. Len(records) \in Nat /\ DOMAIN records = 1 .. Len(records)
    BY DEF TypeOK, Store!TypeOK
  <2> QED
    BY <2>1, <2>2 DEF StartFetch, TypeOK
<1>2. /\ g.query = q /\ g.size = Len(records) /\ g.next = 1 /\ g.batch = << >>
      /\ g.counted = 0
      /\ g.phase = IF q.maxGroups = 0 THEN "returned" ELSE "scan"
  BY <1>1 DEF NewFetch
<1>3. BatchOK(fetches[t])'
  BY <1>1, <1>2 DEF BatchOK
<1>4. CASE q.maxGroups = 0
  BY <1>2, <1>3, <1>4 DEF FetchOK, NothingSkipped
<1>5. CASE q.maxGroups # 0
  <2>1. \A i \in PickedFrom(q, records) : i \in 1 .. Len(records)
    BY <1>1 DEF PickedFrom
  <2>2. ScanOK(fetches[t], steady[t])'
    BY <1>1, <1>2, <1>5, <2>1 DEF ScanOK
  <2> QED
    BY <1>2, <1>3, <1>5, <2>2 DEF FetchOK
<1> QED
  BY <1>4, <1>5

LEMMA FetchInductive == TypeOK /\ FetchInv /\ [Next]_vars => FetchInv'
<1> SUFFICES ASSUME TypeOK, FetchInv, [Next]_vars,
                    NEW u \in Trainers, fetches'[u] # NoFetch
             PROVE  FetchOK(u)'
  BY DEF FetchInv
<1>1. StoreGrows
  BY StoreSteps
<1>2. fetches[u] # NoFetch => FetchOK(u)
  BY DEF FetchInv
<1>3. CASE UNCHANGED vars
  <2>1. fetches'[u] = fetches[u] /\ steady'[u] = steady[u] /\ records' = records
    BY <1>3 DEF vars
  <2> QED
    BY <1>1, <1>2, <2>1, Undisturbed DEF FetchOK, ScanOK, Busy
<1>4. ASSUME NEW t \in Trainers, (\E q \in Queries : StartFetch(t, q)) \/ FetchStep(t)
      PROVE  FetchOK(u)'
  <2>1. CASE u = t
    <3>1. ASSUME NEW q \in Queries, StartFetch(t, q) PROVE FetchOK(u)'
      BY <2>1, <3>1, StartPromises
    <3>2. CASE FetchStep(t)
      <4>1. FetchOK(t)
        BY <1>2, <2>1, <3>2
           DEF FetchStep, Scan, ScanRaises, ScanEnds, CountServed, Return, Busy
      <4> QED
        BY <2>1, <3>2, <4>1, ScanKeepsPromise, PhaseKeepsPromise DEF FetchStep
    <3> QED
      BY <1>4, <3>1, <3>2
  <2>2. CASE u # t
    <3>1. fetches'[u] = fetches[u]
      BY <1>4, <2>2, FetchTypes DEF TypeOK
    <3>2. steady'[u] = steady[u]
      BY <1>4, <2>2
         DEF FetchStep, StartFetch, Scan, ScanRaises, ScanEnds, CountServed, Return, TypeOK
    <3>3. \A q : PickedFrom(q, records') = PickedFrom(q, records)
      BY <1>4, CountKeepsPicks
         DEF FetchStep, StartFetch, Scan, ScanRaises, ScanEnds, Return
    <3> QED
      BY <1>1, <1>2, <3>1, <3>2, <3>3, Undisturbed DEF FetchOK, ScanOK, Busy
  <2> QED
    BY <2>1, <2>2
<1>5. CASE UNCHANGED fetches /\ Watch
  <2>1. fetches'[u] = fetches[u] /\ fetches[u] # NoFetch
    BY <1>5
  <2>2. steady'[u] \subseteq steady[u]
    BY <1>5 DEF Watch
  <2>3. Busy(u, "scan") => steady'[u] \subseteq PickedFrom(fetches[u].query, records')
    BY <1>5 DEF Watch, Busy, Idle
  <2> QED
    BY <1>1, <1>2, <2>1, <2>2, <2>3, Undisturbed
<1> QED
  BY <1>3, <1>4, <1>5, Steps

\* A batch that lists each position once has as many as it is long.
LEMMA BatchSize ==
  ASSUME TypeOK, NEW t \in Trainers, fetches[t] # NoFetch, BatchOK(fetches[t])
  PROVE  Cardinality(Range(fetches[t].batch)) = Len(fetches[t].batch)
<1> DEFINE b == fetches[t].batch
<1>1. b \in Seq(Nat) /\ Len(b) \in Nat /\ DOMAIN b = 1 .. Len(b)
  BY BusyFetch
<1>2. \A k, m \in DOMAIN b : k < m => b[k] < b[m]
  BY DEF BatchOK
<1>3. \A k \in DOMAIN b : b[k] \in Nat
  BY <1>1
<1>4. \A k, m \in DOMAIN b : k # m => b[k] # b[m]
  BY <1>1, <1>2, <1>3
<1>5. b \in Bijection(1 .. Len(b), Range(b))
  <2>1. b \in [1 .. Len(b) -> Range(b)]
    BY <1>1 DEF Range
  <2>2. \A y \in Range(b) : \E k \in 1 .. Len(b) : b[k] = y
    BY <1>1 DEF Range
  <2>3. b \in Injection(1 .. Len(b), Range(b))
    BY <1>1, <1>4, <2>1 DEF Injection, IsInjective
  <2>4. b \in Surjection(1 .. Len(b), Range(b))
    BY <2>1, <2>2 DEF Surjection
  <2> QED
    BY <2>3, <2>4 DEF Bijection
<1>6. IsFiniteSet(1 .. Len(b)) /\ Cardinality(1 .. Len(b)) = Len(b)
  BY <1>1, FS_Interval
<1>7. ExistsBijection(1 .. Len(b), Range(b))
  BY <1>5 DEF ExistsBijection
<1> QED
  BY <1>6, <1>7, FS_Bijection

\* Whatever the broker, the validity layer and other trainers do while a call
\* runs, it returns what was asked for, nothing twice, and skips nothing.
THEOREM BatchesAnswer == Spec => []BatchesAnswerTheQuery
<1>1. Init => FetchInv
  BY DEF Init, FetchInv
<1>2. TypeOK /\ FetchInv => BatchesAnswerTheQuery
  <2> SUFFICES ASSUME TypeOK, FetchInv, NEW t \in Trainers, Busy(t, "returned")
               PROVE  LET f == fetches[t]
                      IN  /\ Cardinality(Range(f.batch)) = Len(f.batch)
                          /\ Len(f.batch) <= f.query.maxGroups
                          /\ \A i \in Range(f.batch) :
                               Metadata[records[i].group].policy = f.query.policy
                          /\ \A i \in steady[t] \ Range(f.batch) :
                               /\ Len(f.batch) = f.query.maxGroups
                               /\ \A k \in Range(f.batch) : k < i
    BY DEF BatchesAnswerTheQuery
  <2>1. BatchOK(fetches[t]) /\ NothingSkipped(fetches[t], steady[t])
    BY DEF Busy, FetchInv, FetchOK
  <2>2. Cardinality(Range(fetches[t].batch)) = Len(fetches[t].batch)
    BY <2>1, BatchSize DEF Busy
  <2> QED
    BY <2>1, <2>2 DEF BatchOK, NothingSkipped, Range
<1> QED
  BY <1>1, <1>2, ClientTypeCorrect, FetchInductive, PTL DEF Spec

-----------------------------------------------------------------------------
\* What is counted

\* The call of t has counted a serving of position i and not returned it yet.
Counts(t, i) == /\ Busy(t, "count")
                /\ \E k \in 1 .. fetches[t].counted : fetches[t].batch[k] = i

Counting(i) == {t \in Trainers : Counts(t, i)}

\* Each summand is a number.
LEMMA Numbers ==
  ASSUME TypeOK, NEW i \in DOMAIN records
  PROVE  /\ records[i].served \in Nat /\ delivered[i] \in Nat
         /\ i \in DOMAIN delivered
         /\ IsFiniteSet(Counting(i)) /\ Cardinality(Counting(i)) \in Nat
<1>1. records[i] \in Store!Record
  BY StoreRecord
<1>2. DOMAIN delivered = DOMAIN records /\ \A k \in DOMAIN delivered : delivered[k] \in Nat
  BY DEF TypeOK, Store!TypeOK
<1>3. IsFiniteSet(Counting(i))
  BY ClientAssumption, FS_Subset DEF Counting
<1> QED
  BY <1>1, <1>2, <1>3, FS_CardinalityType DEF Store!Record

\* Only counting and returning change who counts.
LEMMA OthersCountAlike ==
  ASSUME TypeOK, FetchInv, NEW t \in Trainers,
         \/ \E q \in Queries : StartFetch(t, q)
         \/ Scan(t) \/ ScanRaises(t) \/ ScanEnds(t),
         NEW i
  PROVE  Counting(i)' = Counting(i)
<1>1. PICK g \in Fetch : g # NoFetch /\ fetches' = [fetches EXCEPT ![t] = g]
  BY FetchTypes DEF FetchStep
<1>2. \A u \in Trainers \ {t} : fetches'[u] = fetches[u]
  BY <1>1 DEF TypeOK
<1>3. ~ Busy(t, "count")
  BY DEF StartFetch, Scan, ScanRaises, ScanEnds, Busy, Idle
<1>4. ~ Counts(t, i)'
  <2>1. fetches'[t].counted = 0
    <3>1. ASSUME NEW q \in Queries, StartFetch(t, q) PROVE fetches'[t].counted = 0
      BY <3>1 DEF StartFetch, NewFetch, TypeOK
    <3>2. CASE Scan(t) \/ ScanRaises(t) \/ ScanEnds(t)
      <4>1. fetches[t] \in Fetch /\ fetches[t].counted = 0
        BY <3>2, BusyFetch DEF Scan, ScanRaises, ScanEnds, Busy, FetchInv, FetchOK, ScanOK
      <4>2. fetches'[t].counted = fetches[t].counted
        <5>1. CASE Scan(t)
          <6>1. PICK n, b, p :
                  fetches' = [fetches EXCEPT ![t] =
                    [fetches[t] EXCEPT !.next = n, !.batch = b, !.phase = p]]
            BY <5>1, Zenon DEF Scan
          <6> QED
            BY <4>1, <6>1 DEF TypeOK, Fetch
        <5>2. CASE ScanRaises(t) \/ ScanEnds(t)
          BY <4>1, <5>2 DEF ScanRaises, ScanEnds, TypeOK, Fetch
        <5> QED
          BY <3>2, <5>1, <5>2
      <4> QED
        BY <4>1, <4>2
    <3> QED
      BY <3>1, <3>2
  <2> QED
    BY <2>1 DEF Counts
<1> QED
  BY <1>2, <1>3, <1>4 DEF Counting, Counts, Busy

\* Counting a record adds its serving and the call that counted it.
LEMMA CountAdds ==
  ASSUME TypeOK, FetchInv, NEW t \in Trainers, CountServed(t), NEW i \in DOMAIN records
  PROVE  \E d \in {0, 1} :
           /\ records'[i].served = records[i].served + d
           /\ Cardinality(Counting(i)') = Cardinality(Counting(i)) + d
<1> DEFINE f == fetches[t]
           n == f.counted + 1
<1>1. /\ f \in Fetch /\ f # NoFetch /\ f.batch \in Seq(Nat) /\ f.counted \in Nat
      /\ Len(f.batch) \in Nat /\ f.counted < Len(f.batch) /\ f.phase = "count"
  BY BusyFetch DEF CountServed, Busy
<1>2. /\ \A u \in Trainers \ {t} : fetches'[u] = fetches[u]
      /\ fetches'[t] # NoFetch /\ fetches'[t].phase = "count"
      /\ fetches'[t].batch = f.batch /\ fetches'[t].counted = n
  <2>1. fetches' = [fetches EXCEPT ![t] = [f EXCEPT !.counted = @ + 1]]
    BY DEF CountServed
  <2>2. [f EXCEPT !.counted = @ + 1] # NoFetch
    <3>1. f.counted + 1 \in Nat
      BY <1>1
    <3>2. [f EXCEPT !.counted = @ + 1] \in Fetch
      BY <1>1, <3>1 DEF Fetch
    <3> QED
      BY <3>2, ClientAssumption
  <2> QED
    BY <1>1, <2>1, <2>2 DEF TypeOK, Fetch
<1>3. 1 .. n = (1 .. f.counted) \cup {n} /\ n \in 1 .. Len(f.batch)
  BY <1>1
<1>4. Counts(t, i)' <=> Counts(t, i) \/ f.batch[n] = i
  <2>1. Counts(t, i)' <=> \E k \in 1 .. n : f.batch[k] = i
    BY <1>2 DEF Counts, Busy
  <2>2. Counts(t, i) <=> \E k \in 1 .. f.counted : f.batch[k] = i
    BY <1>1 DEF Counts, Busy
  <2> QED
    BY <1>3, <2>1, <2>2
<1>5. Counting(i)' = IF f.batch[n] = i THEN Counting(i) \cup {t} ELSE Counting(i)
  <2>1. \A u \in Trainers \ {t} : Counts(u, i)' <=> Counts(u, i)
    BY <1>2 DEF Counts, Busy
  <2> QED
    BY <1>4, <2>1 DEF Counting
<1>6. f.batch[n] = i => t \notin Counting(i)
  <2>1. BatchOK(f)
    BY <1>1 DEF FetchInv, FetchOK
  <2>2. ASSUME NEW k \in 1 .. f.counted PROVE f.batch[k] # f.batch[n]
    <3>1. k \in DOMAIN f.batch /\ n \in DOMAIN f.batch /\ k < n
      BY <1>1, <1>3
    <3>2. f.batch[k] < f.batch[n]
      BY <2>1, <3>1 DEF BatchOK
    <3>3. f.batch[k] \in Nat /\ f.batch[n] \in Nat
      <4>1. \A m \in DOMAIN f.batch : f.batch[m] \in Nat
        BY <1>1
      <4> QED
        BY <3>1, <4>1
    <3> QED
      BY <3>2, <3>3
  <2> QED
    BY <2>2 DEF Counting, Counts
<1>7. records'[i].served = IF i = f.batch[n] THEN records[i].served + 1
                           ELSE records[i].served
  BY CountGrows
<1>8. CASE f.batch[n] = i
  <2>1. Cardinality(Counting(i)') = Cardinality(Counting(i)) + 1
    BY <1>5, <1>6, <1>8, Numbers, FS_AddElement
  <2> QED
    BY <1>7, <1>8, <2>1
<1>9. CASE f.batch[n] # i
  <2>1. records'[i].served = records[i].served + 0 /\ Counting(i)' = Counting(i)
    BY <1>5, <1>7, <1>9, Numbers
  <2>2. Cardinality(Counting(i)') = Cardinality(Counting(i)) + 0
    BY <2>1, Numbers
  <2> QED
    BY <2>1, <2>2
<1> QED
  BY <1>8, <1>9

\* Returning a batch delivers the records the call counted.
LEMMA ReturnMoves ==
  ASSUME TypeOK, FetchInv, NEW t \in Trainers, Return(t), NEW i \in DOMAIN records
  PROVE  delivered'[i] + Cardinality(Counting(i)')
           = delivered[i] + Cardinality(Counting(i))
<1> DEFINE f == fetches[t]
<1>1. /\ f \in Fetch /\ f # NoFetch /\ f.batch \in Seq(Nat)
      /\ f.counted = Len(f.batch) /\ f.phase = "count"
  BY BusyFetch DEF Return, Busy
<1>2. /\ \A u \in Trainers \ {t} : fetches'[u] = fetches[u]
      /\ fetches'[t].phase = "returned"
  BY <1>1 DEF Return, TypeOK, Fetch
<1>3. Counts(t, i) <=> i \in Range(f.batch)
  <2>1. DOMAIN f.batch = 1 .. f.counted
    BY <1>1
  <2> QED
    BY <1>1, <2>1 DEF Counts, Busy, Range
<1>4. Counting(i)' = Counting(i) \ {t}
  <2>1. \A u \in Trainers \ {t} : Counts(u, i)' <=> Counts(u, i)
    BY <1>2 DEF Counts, Busy
  <2>2. ~ Counts(t, i)'
    BY <1>2 DEF Counts, Busy
  <2> QED
    BY <2>1, <2>2 DEF Counting
<1>5. delivered'[i] = delivered[i] + IF i \in Range(f.batch) THEN 1 ELSE 0
  BY Numbers DEF Return
<1>6. t \in Counting(i) <=> i \in Range(f.batch)
  BY <1>3 DEF Counting
<1>7. Cardinality(Counting(i)') = IF i \in Range(f.batch)
                                  THEN Cardinality(Counting(i)) - 1
                                  ELSE Cardinality(Counting(i))
  BY <1>4, <1>6, Numbers, FS_RemoveElement
<1> QED
  BY <1>5, <1>7, Numbers

LEMMA ServedInductive ==
  TypeOK /\ FetchInv /\ ServedMeansDelivered /\ [Next]_vars => ServedMeansDelivered'
<1> SUFFICES ASSUME TypeOK, FetchInv, ServedMeansDelivered, [Next]_vars,
                    NEW i \in DOMAIN records'
             PROVE  records'[i].served = delivered'[i] + Cardinality(Counting(i)')
  BY DEF ServedMeansDelivered, Counting, Counts
<1>1. i \in DOMAIN records =>
        records[i].served = delivered[i] + Cardinality(Counting(i))
  BY DEF ServedMeansDelivered, Counting, Counts
<1>2. TypeOK'
  BY ClientTypeInductive
<1>3. ASSUME UNCHANGED fetches PROVE Counting(i)' = Counting(i)
  BY <1>3 DEF Counting, Counts, Busy
<1>4. CASE UNCHANGED vars
  BY <1>1, <1>3, <1>4 DEF vars
<1>5. ASSUME NEW t \in Trainers, CountServed(t)
      PROVE  records'[i].served = delivered'[i] + Cardinality(Counting(i)')
  <2>1. i \in DOMAIN records /\ delivered' = delivered
    BY <1>5, CountGrows DEF CountServed
  <2>2. PICK d \in {0, 1} :
          /\ records'[i].served = records[i].served + d
          /\ Cardinality(Counting(i)') = Cardinality(Counting(i)) + d
    BY <1>5, <2>1, CountAdds
  <2> QED
    BY <1>1, <2>1, <2>2, Numbers
<1>6. ASSUME NEW t \in Trainers, Return(t)
      PROVE  records'[i].served = delivered'[i] + Cardinality(Counting(i)')
  <2>1. i \in DOMAIN records /\ records' = records
    BY <1>6 DEF Return
  <2> QED
    BY <1>1, <1>6, <2>1, ReturnMoves
<1>7. ASSUME NEW t \in Trainers,
             \/ \E q \in Queries : StartFetch(t, q)
             \/ Scan(t) \/ ScanRaises(t) \/ ScanEnds(t)
      PROVE  records'[i].served = delivered'[i] + Cardinality(Counting(i)')
  <2>1. records' = records /\ delivered' = delivered
    BY <1>7 DEF StartFetch, Scan, ScanRaises, ScanEnds
  <2>2. Counting(i)' = Counting(i)
    BY <1>7, OthersCountAlike
  <2> QED
    BY <1>1, <2>1, <2>2
<1>8. ASSUME NEW g \in Groups, NEW d \in Store!Decisions, Submit(g, d)
      PROVE  records'[i].served = delivered'[i] + Cardinality(Counting(i)')
  <2>1. /\ Len(records') = Len(records) + 1
        /\ \A k \in DOMAIN records : records'[k] = records[k]
        /\ records'[Len(records) + 1].served = 0
        /\ delivered' = Append(delivered, 0)
    BY <1>8, SubmitGrows DEF Submit
  <2>2. /\ Len(records) \in Nat /\ DOMAIN records = 1 .. Len(records)
        /\ DOMAIN records' = 1 .. Len(records')
        /\ delivered \in Seq(Nat) /\ Len(delivered) = Len(records)
    BY <1>2 DEF TypeOK, Store!TypeOK
  <2>3. CASE i \in DOMAIN records
    BY <1>1, <1>3, <1>8, <2>1, <2>2, <2>3 DEF Submit
  <2>4. CASE i = Len(records) + 1
    <3>1. ASSUME NEW t \in Trainers, Counts(t, i) PROVE FALSE
      <4>1. PICK k \in 1 .. fetches[t].counted : fetches[t].batch[k] = i
        BY <3>1 DEF Counts
      <4>2. /\ fetches[t].counted \in Nat /\ fetches[t].batch \in Seq(Nat)
            /\ fetches[t].next \in Nat /\ fetches[t].size \in Nat
            /\ BatchOK(fetches[t]) /\ Len(fetches[t].batch) \in Nat
        BY <3>1, BusyFetch DEF Counts, Busy, FetchInv, FetchOK
      <4>3. fetches[t].counted <= Len(fetches[t].batch)
        BY <4>2 DEF BatchOK
      <4>4. k \in DOMAIN fetches[t].batch
        BY <4>2, <4>3
      <4>5. /\ fetches[t].batch[k] < fetches[t].next
            /\ fetches[t].next <= fetches[t].size + 1
            /\ fetches[t].size <= Len(records)
        BY <4>2, <4>4 DEF BatchOK
      <4> QED
        BY <2>2, <2>4, <4>1, <4>2, <4>5
    <3>2. Counting(i)' = {}
      BY <1>3, <1>8, <3>1 DEF Submit, Counting
    <3>3. delivered'[i] = 0
      BY <2>1, <2>2, <2>4
    <3>4. Cardinality(Counting(i)') = 0
      BY <3>2, FS_EmptySet
    <3>5. records'[i].served = 0
      BY <2>1, <2>4
    <3> QED
      BY <3>3, <3>4, <3>5
  <2> QED
    BY <2>1, <2>2, <2>3, <2>4
<1>9. ASSUME NEW g \in Groups, NEW s \in Store!GroupStatus,
             NEW r \in RejectionReasons \cup {NoReason}, Transition(g, s, r)
      PROVE  records'[i].served = delivered'[i] + Cardinality(Counting(i)')
  BY <1>1, <1>3, <1>9, TransitionGrows DEF Transition
<1> QED
  BY <1>4, <1>5, <1>6, <1>7, <1>8, <1>9, Steps DEF FetchStep

\* served_count accounts for what the trainers received, to the last serving,
\* however their calls overlap and whichever of them raise.
THEOREM ServedAccountsForDelivered == Spec => []ServedMeansDelivered
<1>1. Init => FetchInv /\ ServedMeansDelivered
  BY DEF Init, FetchInv, ServedMeansDelivered, Store!Init
<1> QED
  BY <1>1, ClientTypeCorrect, FetchInductive, ServedInductive, PTL DEF Spec
=============================================================================

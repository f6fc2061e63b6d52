------------------------- MODULE PolicyRolloutProofs -------------------------
(***************************************************************************)
(* The rollout of policies for any number of workers, versions and          *)
(* checkpoints.                                                             *)
(***************************************************************************)
EXTENDS PolicyRollout, SequenceTheorems, FiniteSetTheorems,
        WellFoundedInduction, TLAPS

\* A published manifest is a manifest.
LEMMA ReadManifest == TypeOK /\ Readable => latest \in Manifest
BY DEF TypeOK, Readable

\* A publication under way is a record; Idle is none.
LEMMA Underway ==
  TypeOK /\ publishing # Idle =>
    publishing \in [manifest : Manifest, step : 1 .. 3]
BY DEF TypeOK

\* Registry, tracker and dispatcher keep their types.
LEMMA RolloutTypeInductive == TypeOK /\ [Next]_vars => TypeOK'
<1> SUFFICES ASSUME TypeOK, [Next]_vars PROVE TypeOK'
  OBVIOUS
<1> USE DEF TypeOK
<1>1. ASSUME NEW m \in Manifest, StartPublish(m) PROVE TypeOK'
  BY <1>1 DEF StartPublish, trackerVars, Manifest
<1>2. CASE WriteVersion
  BY <1>2, Underway DEF WriteVersion, trackerVars, Manifest
<1>3. CASE TruncateLatest
  BY <1>3, Underway DEF TruncateLatest, trackerVars
<1>4. CASE WriteLatest
  BY <1>4, Underway DEF WriteLatest, trackerVars
<1>5. CASE PublisherDies
  BY <1>5 DEF PublisherDies, trackerVars
<1>6. ASSUME NEW w \in Workers, Load(w) PROVE TypeOK'
  BY <1>6, ReadManifest DEF Load, registryVars, trackerVars
<1>7. ASSUME NEW w \in Workers, loaded[w] # NoManifest, RecordAck(w, loaded[w])
      PROVE  TypeOK'
  <2>1. loaded[w] \in Manifest
    BY <1>7
  <2> QED
    BY <1>7, <2>1 DEF RecordAck, registryVars, Manifest
<1>8. ASSUME NEW beats \in BeatLists, Dispatch(beats) PROVE TypeOK'
  <2>1. \A i \in DOMAIN beats : beats[i].worker \in Workers
    <3>1. beats \in Seq(Beat)
      BY RolloutAssumption
    <3>2. \A i \in DOMAIN beats : beats[i] \in Beat
      BY <3>1, LenProperties, ElementOfSeq
    <3> QED
      BY <3>2 DEF Beat
  <2>2. \A i \in Cheapest(beats) :
          [worker |-> beats[i].worker, version |-> latest.version] \in Assignment
    BY <1>8, <2>1, ReadManifest DEF Dispatch, Cheapest, Candidates, Assignment, Manifest
  <2> QED
    BY <1>8, <2>2 DEF Dispatch, registryVars, trackerVars
<1>9. CASE UNCHANGED vars
  BY <1>9 DEF vars, registryVars, trackerVars
<1> QED
  BY <1>1, <1>2, <1>3, <1>4, <1>5, <1>6, <1>7, <1>8, <1>9 DEF Next

\* The rollout's state is well typed.
THEOREM RolloutTypeCorrect == Spec => []TypeOK
<1>1. Init => TypeOK
  BY DEF Init, TypeOK
<1> QED
  BY <1>1, RolloutTypeInductive, PTL DEF Spec

\* Only an acknowledgement touches the tracker.
LEMMA TrackerSteps ==
  [Next]_vars =>
    \/ UNCHANGED trackerVars
    \/ \E w \in Workers : loaded[w] # NoManifest /\ RecordAck(w, loaded[w])
BY DEF Next, StartPublish, WriteVersion, TruncateLatest, WriteLatest,
       PublisherDies, Load, Dispatch, vars

\* No digest silently wins: all workers counted for a version serve the
\* checkpoint it was first acknowledged with, and that one never changes.
THEOREM OneDigestWins == Spec => OneSnapshotPerVersion
<1> DEFINE Kept == \A v \in Versions :
                     digestOf[v] # NoDigest => digestOf'[v] = digestOf[v]
<1>1. Init => Pinned
  BY DEF Init, Pinned
<1>2. TypeOK /\ Pinned /\ [Next]_vars => Pinned' /\ Kept
  <2> SUFFICES ASSUME TypeOK, Pinned, [Next]_vars PROVE Pinned' /\ Kept
    OBVIOUS
  <2>1. CASE UNCHANGED trackerVars
    BY <2>1 DEF trackerVars, Pinned
  <2>2. ASSUME NEW w \in Workers, loaded[w] # NoManifest, RecordAck(w, loaded[w])
        PROVE  Pinned' /\ Kept
    <3>1. loaded[w].version \in Versions /\ loaded[w].digest \in Digests
      BY <2>2 DEF TypeOK, Manifest
    <3>2. Kept
      BY <2>2, <3>1 DEF RecordAck, DigestAgrees, TypeOK
    <3>3. ASSUME NEW u \in Workers, acks'[u] # NoAck
          PROVE  digestOf'[acks'[u].version] = acks'[u].digest
      <4>1. CASE u = w
        BY <2>2, <3>1, <4>1 DEF RecordAck, TypeOK
      <4>2. CASE u # w
        <5>1. /\ acks'[u] = acks[u] /\ acks[u] \in Manifest
              /\ digestOf[acks[u].version] = acks[u].digest
          BY <2>2, <3>3, <4>2 DEF RecordAck, TypeOK, Pinned
        <5>2. acks[u].version \in Versions /\ acks[u].digest # NoDigest
          BY <5>1, RolloutAssumption DEF Manifest
        <5> QED
          BY <3>2, <5>1, <5>2
      <4> QED
        BY <4>1, <4>2
    <3> QED
      BY <3>2, <3>3 DEF Pinned
  <2> QED
    BY <2>1, <2>2, TrackerSteps
<1>3. TypeOK /\ Pinned /\ [Next]_vars => Pinned'
  BY <1>2
<1>4. TypeOK /\ Pinned /\ [Next]_vars =>
        [\A v \in Versions :
           digestOf[v] # NoDigest => digestOf'[v] = digestOf[v]]_vars
  BY <1>2
<1> HIDE DEF Kept
<1> QED
  BY <1>1, <1>3, <1>4, RolloutTypeCorrect, PTL DEF Spec, OneSnapshotPerVersion

\* When the publisher is about to replace latest.json, the file of the
\* version is there.
VersionFileFirst ==
  publishing # Idle => files[publishing.manifest.version] # NoFile

\* Each write keeps the files of the version published and of the latest one.
LEMMA FilesInductive ==
  TypeOK /\ VersionFileFirst /\ LatestHasAFile /\ [Next]_vars
    => VersionFileFirst' /\ LatestHasAFile'
<1> SUFFICES ASSUME TypeOK, VersionFileFirst, LatestHasAFile, [Next]_vars
             PROVE  VersionFileFirst' /\ LatestHasAFile'
  OBVIOUS
<1> USE DEF VersionFileFirst, LatestHasAFile, Readable
<1>1. ASSUME NEW m \in Manifest, StartPublish(m)
      PROVE  VersionFileFirst' /\ LatestHasAFile'
  BY <1>1, RolloutAssumption, ReadManifest DEF StartPublish, TypeOK, Manifest
<1>2. CASE WriteVersion
  BY <1>2, Underway, RolloutAssumption, ReadManifest DEF WriteVersion, TypeOK, Manifest
<1>3. CASE TruncateLatest
  BY <1>3, Underway DEF TruncateLatest
<1>4. CASE WriteLatest
  BY <1>4, Underway DEF WriteLatest
<1>5. CASE PublisherDies
  BY <1>5 DEF PublisherDies
<1>6. ASSUME UNCHANGED registryVars PROVE VersionFileFirst' /\ LatestHasAFile'
  BY <1>6 DEF registryVars
<1> QED
  BY <1>1, <1>2, <1>3, <1>4, <1>5, <1>6
  DEF Next, Load, RecordAck, Dispatch, vars

\* latest.json never names a version without a file, wherever the publisher
\* died.
THEOREM LatestIsBacked == Spec => []LatestHasAFile
<1>1. Init => VersionFileFirst /\ LatestHasAFile
  BY DEF Init, VersionFileFirst, LatestHasAFile, Readable
<1> QED
  BY <1>1, RolloutTypeCorrect, FilesInductive, PTL DEF Spec

-----------------------------------------------------------------------------
\* The active version

Below == {p \in Nat \X Nat : p[1] < p[2]}

\* A set of natural numbers that is not empty has a least element.
LEMMA LeastNatural ==
  ASSUME NEW T \in SUBSET Nat, T # {}
  PROVE  \E n \in T : \A m \in T : n <= m
<1>1. IsWellFoundedOn(Below, Nat)
  BY NatLessThanWellFounded DEF OpToRel, Below
<1>2. PICK n \in T : \A m \in T : ~ (<<m, n>> \in Below)
  BY <1>1, WFMin, Zenon
<1>3. ASSUME NEW m \in T, m < n PROVE FALSE
  <2>1. m \in Nat /\ n \in Nat
    OBVIOUS
  <2>2. <<m, n>> \in Below
    BY <1>3, <2>1 DEF Below
  <2> QED
    BY <1>2, <2>2
<1>4. \A m \in T : m \in Nat
  OBVIOUS
<1> QED
  BY <1>3, <1>4

\* One that is bounded has a greatest.
LEMMA GreatestNatural ==
  ASSUME NEW n \in Nat, NEW T \in SUBSET (1 .. n), T # {}
  PROVE  \E m \in T : \A k \in T : k <= m
<1>1. {n - k : k \in T} \in SUBSET Nat /\ {n - k : k \in T} # {}
  <2>1. ASSUME NEW k \in T PROVE n - k \in Nat
    OBVIOUS
  <2>2. PICK k \in T : TRUE
    OBVIOUS
  <2> QED
    BY <2>1, <2>2
<1>2. PICK d \in {n - k : k \in T} : \A e \in {n - k : k \in T} : d <= e
  BY <1>1, LeastNatural, Zenon
<1>3. PICK m \in T : d = n - m
  OBVIOUS
<1>4. ASSUME NEW k \in T PROVE k <= m
  <2>1. n - m <= n - k
    BY <1>2, <1>3
  <2> QED
    BY <2>1
<1> QED
  BY <1>4

\* The tracker's order lists exactly the workers that have acknowledged.
OrderListsAckers ==
  {ackOrder[i] : i \in DOMAIN ackOrder} = {w \in Workers : acks[w] # NoAck}

LEMMA OrderInductive ==
  TypeOK /\ OrderListsAckers /\ [Next]_vars => OrderListsAckers'
<1> SUFFICES ASSUME TypeOK, OrderListsAckers, [Next]_vars
             PROVE  OrderListsAckers'
  OBVIOUS
<1> USE DEF OrderListsAckers
<1>1. CASE UNCHANGED trackerVars
  BY <1>1 DEF trackerVars
<1>2. ASSUME NEW w \in Workers, loaded[w] # NoManifest, RecordAck(w, loaded[w])
      PROVE  OrderListsAckers'
  <2>1. /\ acks \in [Workers -> Manifest \cup {NoAck}]
        /\ acks' = [acks EXCEPT ![w] = loaded[w]] /\ loaded[w] # NoAck
        /\ ackOrder \in Seq(Workers)
        /\ ackOrder' = IF acks[w] = NoAck THEN Append(ackOrder, w) ELSE ackOrder
    BY <1>2, RolloutAssumption DEF RecordAck, TypeOK
  <2>2. {u \in Workers : acks'[u] # NoAck} = {u \in Workers : acks[u] # NoAck} \cup {w}
    BY <2>1
  <2>3. {ackOrder'[i] : i \in DOMAIN ackOrder'} =
          {ackOrder[i] : i \in DOMAIN ackOrder} \cup {w}
    <3>1. CASE acks[w] = NoAck
      <4>1. /\ DOMAIN ackOrder' = DOMAIN ackOrder \cup {Len(ackOrder) + 1}
            /\ ackOrder'[Len(ackOrder) + 1] = w
            /\ \A i \in DOMAIN ackOrder : ackOrder'[i] = ackOrder[i]
        BY <2>1, <3>1
      <4> QED
        BY <4>1
    <3>2. CASE acks[w] # NoAck
      BY <2>1, <3>2
    <3> QED
      BY <3>1, <3>2
  <2> QED
    BY <2>2, <2>3
<1> QED
  BY <1>1, <1>2, TrackerSteps

\* A version some worker acknowledged is a known one, and its first place in
\* the order tells the version.
LEMMA FirstSeenTells ==
  ASSUME TypeOK, OrderListsAckers, NEW v, WorkersAcked(v) # {}
  PROVE  /\ v \in KnownVersions
         /\ FirstSeen(v) \in DOMAIN ackOrder
         /\ acks[ackOrder[FirstSeen(v)]].version = v
<1> DEFINE places == {i \in DOMAIN ackOrder : Aligned(ackOrder[i], v)}
<1>1. PICK w \in Workers : acks[w] # NoAck /\ acks[w].version = v
  BY DEF WorkersAcked, Aligned
<1>2. PICK i \in DOMAIN ackOrder : ackOrder[i] = w
  BY <1>1 DEF OrderListsAckers
<1>3. places # {} /\ places \in SUBSET Nat
  BY <1>1, <1>2 DEF Aligned, TypeOK
<1>4. PICK n \in places : \A m \in places : n <= m
  BY <1>3, LeastNatural, Zenon
<1>5. \E j \in DOMAIN ackOrder : /\ Aligned(ackOrder[j], v)
                               /\ \A k \in DOMAIN ackOrder :
                                    Aligned(ackOrder[k], v) => j <= k
  BY <1>4
<1>6. FirstSeen(v) \in DOMAIN ackOrder /\ Aligned(ackOrder[FirstSeen(v)], v)
  BY <1>5 DEF FirstSeen
<1> QED
  BY <1>1, <1>2, <1>6 DEF KnownVersions, Aligned

\* Of the versions with a quorum, the one first seen last is active alone.
LEMMA ActiveIsUnique == TypeOK /\ OrderListsAckers => ActiveIffQuorum
<1> SUFFICES ASSUME TypeOK, OrderListsAckers,
                    NEW k \in 1 .. Cardinality(Workers)
             PROVE  /\ \A v \in PoolActive(k) : HasQuorum(v, k)
                    /\ Cardinality(PoolActive(k)) =
                         IF \E v \in Versions : HasQuorum(v, k) THEN 1 ELSE 0
  BY DEF ActiveIffQuorum
<1> DEFINE quorate == {v \in KnownVersions : HasQuorum(v, k)}
           places == {FirstSeen(v) : v \in quorate}
<1>1. \A v : HasQuorum(v, k) => WorkersAcked(v) # {}
  BY FS_EmptySet DEF HasQuorum
<1>2. \A v \in PoolActive(k) : v \in quorate
  BY DEF PoolActive
<1>3. CASE quorate = {}
  <2>1. PoolActive(k) = {}
    BY <1>2, <1>3
  <2>2. ~ \E v \in Versions : HasQuorum(v, k)
    BY <1>1, <1>3, FirstSeenTells
  <2> QED
    BY <1>2, <2>1, <2>2, FS_EmptySet
<1>4. CASE quorate # {}
  <2>1. \A v \in quorate : /\ FirstSeen(v) \in DOMAIN ackOrder
                           /\ acks[ackOrder[FirstSeen(v)]].version = v
    BY <1>1, FirstSeenTells
  <2>2. Len(ackOrder) \in Nat /\ DOMAIN ackOrder = 1 .. Len(ackOrder)
    BY DEF TypeOK
  <2>3. places \in SUBSET (1 .. Len(ackOrder)) /\ places # {}
    BY <1>4, <2>1, <2>2
  <2>4. PICK n \in places : \A m \in places : m <= n
    BY <2>2, <2>3, GreatestNatural, Zenon
  <2>5. PICK a \in quorate : FirstSeen(a) = n
    OBVIOUS
  <2>6. PoolActive(k) = {a}
    <3>1. a \in PoolActive(k)
      BY <2>4, <2>5 DEF PoolActive
    <3>2. ASSUME NEW v \in PoolActive(k) PROVE v = a
      <4>1. v \in quorate /\ FirstSeen(a) <= FirstSeen(v)
        BY <2>5 DEF PoolActive
      <4>2. FirstSeen(v) <= FirstSeen(a)
        BY <2>4, <2>5, <4>1
      <4>3. FirstSeen(v) \in Nat /\ FirstSeen(a) \in Nat
        BY <2>1, <2>2, <4>1
      <4>4. FirstSeen(v) = FirstSeen(a)
        BY <4>1, <4>2, <4>3
      <4> QED
        BY <2>1, <2>5, <4>1, <4>4
    <3> QED
      BY <3>1, <3>2
  <2>7. a \in Versions
    BY DEF KnownVersions, OrderListsAckers, TypeOK, Manifest
  <2> QED
    BY <1>2, <2>6, <2>7, FS_Singleton
<1> QED
  BY <1>3, <1>4

\* The pool has an active version exactly when one has a quorum, and only one:
\* re-acknowledgements that move workers between versions never hide a quorum.
THEOREM QuorumDecides == Spec => []ActiveIffQuorum
<1>1. Init => OrderListsAckers
  BY DEF Init, OrderListsAckers
<1> QED
  BY <1>1, RolloutTypeCorrect, OrderInductive, ActiveIsUnique, PTL DEF Spec
=============================================================================

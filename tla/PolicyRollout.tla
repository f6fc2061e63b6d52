---------------------------- MODULE PolicyRollout ----------------------------
(***************************************************************************)
(* How a new policy reaches the workers: FilePolicyRegistry (registry.py)   *)
(* publishes a manifest in two files, workers load what latest.json names   *)
(* and acknowledge it to the PoolReloadTracker (pool_reload.py), and the    *)
(* dispatcher (dispatcher.py) assigns prompts of the latest policy.         *)
(*                                                                          *)
(* A write_text truncates the file, then writes it: between the two, and    *)
(* for ever if the publisher dies there, the file is Torn and reading it    *)
(* raises.  There is one publisher.  A call that raises is not a step.      *)
(***************************************************************************)
EXTENDS Integers, Sequences, FiniteSets

CONSTANTS
  Workers,
  Versions,       \* policy versions, ordered as they are numbered
  Digests,        \* checkpoint digests
  BeatLists,      \* the lists of heartbeats choose_worker may be given
  NoFile, Torn,   \* a file that is not there, or truncated
  NoManifest, NoAck, NoDigest, NoPrice,
  Idle            \* no publication under way

Manifest == [version : Versions, digest : Digests]

\* What choose_worker reads of a heartbeat; fits stands for the precision
\* and the context length.
Beat == [worker : Workers, healthy : BOOLEAN, fits : BOOLEAN,
         price : Nat \cup {NoPrice}]

ASSUME RolloutAssumption ==
  /\ Versions \subseteq Nat
  /\ BeatLists \subseteq Seq(Beat)
  /\ {NoFile, Torn, NoManifest, NoAck} \cap Manifest = {}
  /\ NoFile # Torn
  /\ NoDigest \notin Digests /\ NoPrice \notin Nat /\ Idle \notin Nat

VARIABLES
  files,        \* <version>.json of each version
  latest,       \* latest.json
  publishing,   \* Idle, or the manifest and the writes done of it
  loaded,       \* the manifest each worker has loaded
  acks,         \* _acks
  ackOrder,     \* _acks: the insertion order of its keys
  digestOf,     \* _digest_by_version
  assignments   \* the assignments made

registryVars == <<files, latest, publishing>>
trackerVars == <<acks, ackOrder, digestOf>>
vars == <<registryVars, loaded, trackerVars, assignments>>

----------------------------------------------------------------------------
\* FilePolicyRegistry

\* publish: four writes, counted by step.
StartPublish_LatestFirst(m) ==  \* (mutant)
  /\ publishing = Idle
  /\ latest' = m
  /\ publishing' = [manifest |-> m, step |-> 1]
  /\ UNCHANGED <<files, loaded, trackerVars, assignments>>

StartPublish(m) ==
  /\ publishing = Idle
  /\ files' = [files EXCEPT ![m.version] = Torn]
  /\ publishing' = [manifest |-> m, step |-> 1]
  /\ UNCHANGED <<latest, loaded, trackerVars, assignments>>

WriteVersion ==
  /\ publishing # Idle /\ publishing.step = 1
  /\ files' = [files EXCEPT ![publishing.manifest.version] = publishing.manifest]
  /\ publishing' = [publishing EXCEPT !.step = 2]
  /\ UNCHANGED <<latest, loaded, trackerVars, assignments>>

TruncateLatest ==
  /\ publishing # Idle /\ publishing.step = 2
  /\ latest' = Torn
  /\ publishing' = [publishing EXCEPT !.step = 3]
  /\ UNCHANGED <<files, loaded, trackerVars, assignments>>

WriteLatest ==
  /\ publishing # Idle /\ publishing.step = 3
  /\ latest' = publishing.manifest
  /\ publishing' = Idle
  /\ UNCHANGED <<files, loaded, trackerVars, assignments>>

\* The publisher dies; the files stay as they are.
PublisherDies ==
  /\ publishing # Idle
  /\ publishing' = Idle
  /\ UNCHANGED <<files, latest, loaded, trackerVars, assignments>>

\* latest() returns a manifest; otherwise it raises.
Readable == latest \notin {NoFile, Torn}

Load_Unparsed(w) ==  \* (mutant)
  /\ latest # NoFile
  /\ loaded' = [loaded EXCEPT ![w] = latest]
  /\ UNCHANGED <<registryVars, trackerVars, assignments>>

\* A worker asks for the latest policy and loads it.
Load(w) ==
  /\ Readable
  /\ loaded' = [loaded EXCEPT ![w] = latest]
  /\ UNCHANGED <<registryVars, trackerVars, assignments>>

----------------------------------------------------------------------------
\* PoolReloadTracker

DigestAgrees_Any(ack) == ack.digest \in Digests  \* (mutant)

\* record_ack raises a QuorumViolation unless this holds.
DigestAgrees(ack) == digestOf[ack.version] \in {NoDigest, ack.digest}

\* A worker that acks again keeps its place in the dictionary.
RecordAck(w, ack) ==
  /\ DigestAgrees(ack)
  /\ digestOf' = [digestOf EXCEPT ![ack.version] = ack.digest]
  /\ acks' = [acks EXCEPT ![w] = ack]
  /\ ackOrder' = IF acks[w] = NoAck THEN Append(ackOrder, w) ELSE ackOrder
  /\ UNCHANGED <<registryVars, loaded, assignments>>

Aligned(w, v) == acks[w] # NoAck /\ acks[w].version = v
WorkersAcked(v) == {w \in Workers : Aligned(w, v)}
HasQuorum(v, k) == Cardinality(WorkersAcked(v)) >= k

KnownVersions_OfFirstAcker ==  \* (mutant)
  {acks[ackOrder[i]].version : i \in DOMAIN ackOrder \cap {1}}

KnownVersions == {acks[ackOrder[i]].version : i \in DOMAIN ackOrder}

\* Where known_versions lists v: at the first place whose worker acked it.
FirstSeen(v) ==
  CHOOSE i \in DOMAIN ackOrder :
    /\ Aligned(ackOrder[i], v)
    /\ \A k \in DOMAIN ackOrder : Aligned(ackOrder[k], v) => i <= k

\* pool_active_version without candidates, as a set of at most one version:
\* the last of the known versions that has k acks.
PoolActive(k) ==
  LET quorate == {v \in KnownVersions : HasQuorum(v, k)}
  IN  {v \in quorate : \A u \in quorate : FirstSeen(u) <= FirstSeen(v)}

----------------------------------------------------------------------------
\* Dispatcher

\* The key choose_worker sorts by: a worker without a price comes last.
NoDearer(b, c) ==
  IF b.price = NoPrice THEN c.price = NoPrice
  ELSE c.price = NoPrice \/ b.price <= c.price

Candidates(beats) == {i \in DOMAIN beats : beats[i].healthy /\ beats[i].fits}

\* The places of the cheapest candidates; sorting is stable, so the first of
\* them is chosen.
Cheapest(beats) == {i \in Candidates(beats) :
                      \A k \in Candidates(beats) : NoDearer(beats[i], beats[k])}

Dispatch(beats) ==
  /\ Readable
  /\ \E i \in Cheapest(beats) :
       /\ \A k \in Cheapest(beats) : i <= k
       /\ assignments' = assignments \cup
            {[worker |-> beats[i].worker, version |-> latest.version]}
  /\ UNCHANGED <<registryVars, loaded, trackerVars>>

----------------------------------------------------------------------------

Init ==
  /\ files = [v \in Versions |-> NoFile]
  /\ latest = NoFile
  /\ publishing = Idle
  /\ loaded = [w \in Workers |-> NoManifest]
  /\ acks = [w \in Workers |-> NoAck]
  /\ ackOrder = << >>
  /\ digestOf = [v \in Versions |-> NoDigest]
  /\ assignments = {}

\* The trainer publishes versions in ascending order; it may publish the
\* newest one again.
NotSuperseded(v) == \A u \in Versions : u > v => files[u] = NoFile

\* A worker acks what it has loaded, at any later time and any number of
\* times.
Next ==
  \/ \E m \in Manifest : NotSuperseded(m.version) /\ StartPublish(m)
  \/ WriteVersion
  \/ TruncateLatest
  \/ WriteLatest
  \/ PublisherDies
  \/ \E w \in Workers :
       \/ Load(w)
       \/ loaded[w] # NoManifest /\ RecordAck(w, loaded[w])
  \/ \E beats \in BeatLists : Dispatch(beats)

Spec == Init /\ [][Next]_vars

----------------------------------------------------------------------------
\* Properties

Assignment == [worker : Workers, version : Versions]

TypeOK ==
  /\ files \in [Versions -> Manifest \cup {NoFile, Torn}]
  /\ latest \in Manifest \cup {NoFile, Torn}
  /\ publishing \in [manifest : Manifest, step : 1 .. 3] \cup {Idle}
  /\ loaded \in [Workers -> Manifest \cup {NoManifest}]
  /\ acks \in [Workers -> Manifest \cup {NoAck}]
  /\ ackOrder \in Seq(Workers)
  /\ digestOf \in [Versions -> Digests \cup {NoDigest}]
  /\ assignments \subseteq Assignment

\* No digest silently wins (pool_reload.py:50-52): all workers in the quorum
\* of a version serve the checkpoint the version was first acknowledged
\* with, and that checkpoint never changes, also when the version is
\* published again with another one or all its workers have moved on.
Pinned == \A w \in Workers :
            acks[w] # NoAck => digestOf[acks[w].version] = acks[w].digest

OneSnapshotPerVersion ==
  /\ []Pinned
  /\ [][\A v \in Versions :
          digestOf[v] # NoDigest => digestOf'[v] = digestOf[v]]_vars

\* The version that latest.json names has a file of its own, wherever the
\* publisher died: publish writes that file first (registry.py:15-17).
LatestHasAFile == Readable => files[latest.version] # NoFile

\* The pool has an active version exactly when some version has k acks, only
\* one, and that one has a quorum: re-acks may move versions in the order
\* they are looked at, but none that counts is overlooked.
ActiveIffQuorum ==
  \A k \in 1 .. Cardinality(Workers) :
    /\ \A v \in PoolActive(k) : HasQuorum(v, k)
    /\ Cardinality(PoolActive(k)) =
         IF \E v \in Versions : HasQuorum(v, k) THEN 1 ELSE 0
=============================================================================

--------------------------- MODULE TrainingLoop ----------------------------
(***************************************************************************)
(* The store of LiveStore together with the FeedbackAggregator of           *)
(* feedback.py: trainers are served groups, the same one more than once,    *)
(* and report on them, late, in any order and again after a retry.  The     *)
(* aggregator rolls the reports up by worker, engine and policy.            *)
(*                                                                          *)
(* A report carries its own attribution; it is that of the group, as in     *)
(* examples/fake_trainer.py.  The sums of observed statistics are left out: *)
(* they are bumped together with the counts.                                *)
(***************************************************************************)
EXTENDS LiveStore

CONSTANTS
  Attribution,     \* the worker, the engine and the policy of every group
  TrainerReasons   \* trainer_rejection_reason: why a trainer refuses a group

Kinds == {"worker", "engine", "policy"}

ASSUME FeedbackAssumption ==
  /\ Attribution \in [Groups -> [Kinds -> STRING]]
  /\ NoReason \notin TrainerReasons

VARIABLES
  seen,     \* _seen: the groups reported on
  stats,    \* _workers, _engines and _policies: QualityStats per key
  first     \* what was said of a group first; no code keeps it

feedbackVars == <<seen, stats, first>>

loopVars == <<records, seen, stats, first>>

Keys(kind) == {Attribution[g][kind] : g \in Groups}

\* A trainer accepts a group, or refuses it and may say why; the validator of
\* TrainerFeedback refuses a reason given with an acceptance.
Verdicts == {v \in [accepted : BOOLEAN, reason : TrainerReasons \cup {NoReason}] :
               v.accepted => v.reason = NoReason}

NewStats == [count |-> 0, accepted |-> 0, reasons |-> [r \in TrainerReasons |-> 0]]

One(b) == IF b THEN 1 ELSE 0

\* _bump
Bump(s, v) ==
  [count |-> s.count + 1,
   accepted |-> s.accepted + One(v.accepted),
   reasons |-> [r \in TrainerReasons |-> s.reasons[r] + One(~ v.accepted /\ v.reason = r)]]

Ignored_Never(g) == FALSE  \* (mutant)

\* A report is ignored when its group was reported on before.
Ignored(g) == g \in seen

\* ingest: the three tables are bumped together.
Ingest(g, v) ==
  IF Ignored(g) THEN UNCHANGED <<seen, stats>>
  ELSE /\ seen' = seen \cup {g}
       /\ stats' = [kind \in Kinds |->
                      [stats[kind] EXCEPT ![Attribution[g][kind]] = Bump(@, v)]]

\* A trainer that was served a group reports on it.  What it says depends on
\* its own numbers; it holds the record and may be late, so that the record
\* may have changed its state since.
Report(g, v) ==
  /\ \E i \in DOMAIN records : records[i].group = g /\ records[i].served > 0
  /\ Ingest(g, v)
  /\ first' = [first EXCEPT ![g] = IF @ = {} THEN {v} ELSE @]
  /\ UNCHANGED records

----------------------------------------------------------------------------

LoopInit ==
  /\ Init
  /\ seen = {}
  /\ stats = [kind \in Kinds |-> [key \in Keys(kind) |-> NewStats]]
  /\ first = [g \in Groups |-> {}]

LoopNext ==
  \/ Next /\ UNCHANGED feedbackVars
  \/ \E g \in Groups, v \in Verdicts : Report(g, v)

LoopSpec == LoopInit /\ [][LoopNext]_loopVars

----------------------------------------------------------------------------

Reported == {g \in Groups : first[g] # {}}

\* "The trainer is not allowed to inflate stats by re-reporting": however
\* often groups are served and reported on, every table counts every reported
\* group once, under its own key and with what was said of it first, so that
\* workers, engines and policies add up to the same totals.
StatsTellFirstVerdicts ==
  \A kind \in Kinds : \A key \in Keys(kind) :
    LET mine == {g \in Reported : Attribution[g][kind] = key}
    IN  /\ stats[kind][key].count = Cardinality(mine)
        /\ stats[kind][key].accepted =
             Cardinality({g \in mine : \E v \in first[g] : v.accepted})
        /\ \A r \in TrainerReasons :
             stats[kind][key].reasons[r] =
               Cardinality({g \in mine : \E v \in first[g] : v.reason = r})

============================================================================

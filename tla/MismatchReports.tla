-------------------------- MODULE MismatchReports --------------------------
(***************************************************************************)
(* From captured trajectories to mismatch reports.                          *)
(*                                                                          *)
(* fill_prompt_token_ids completes the trajectories of a directory,         *)
(* build_hermes_dense_input flattens them into a rollouts file for the      *)
(* trainers and an index that keeps the rollout's log-probabilities, a      *)
(* trainer job (FSDP or Megatron, dense or mixture of experts) scores the   *)
(* same tokens, and the two pair scripts join index, trainer output and     *)
(* trajectories by prompt number into one report per assistant turn.        *)
(*                                                                          *)
(* The stages share nothing but files, which an operator overwrites and     *)
(* copies in any order: every file holds what was last written to it.  A    *)
(* token is <<task, capture, step, i>>, i = 0 for a whole message and i > 0 *)
(* for the i-th token of a response.                                        *)
(***************************************************************************)
EXTENDS Integers, Sequences, FiniteSets, SequencesExt

CONSTANTS
  NTasks,       \* the trajectory files of a directory, in the order of their names
  Precisions,   \* one trajectory directory and one index per rollout precision
  Layers,       \* mixture-of-experts layers of the model
  Scripts,      \* the trainer scripts in use
  Captures,     \* what a capture may leave in a directory: a shape or none per task
  MaxCaptures, MaxBuilds, MaxJobs, MaxPairings,  \* bounds: how often each stage runs
  None          \* a file that is not there

Tasks == 1 .. NTasks

\* A captured step: who spoke, how long the response is, which probes it has.
Shapes == [role : {"assistant", "tool"}, r : Nat,
           probes : {"full", "response", "none"}, routed : BOOLEAN]

ASSUME ReportsAssumption ==
  /\ {NTasks, Layers} \subseteq Nat \ {0}
  /\ Scripts \subseteq {"fsdp", "megatron", "fsdp_moe", "megatron_moe"}
  /\ {MaxCaptures, MaxBuilds, MaxJobs, MaxPairings} \subseteq Nat
  /\ \A c \in Captures : \A t \in Tasks :
       c[t] # None => c[t] \in Seq(Shapes)

VARIABLES
  count,     \* how often each stage ran; captures and builds are numbered by it
  trajs,     \* per precision and task the trajectory file
  rollouts,  \* per precision the rollouts file
  index,     \* per precision the index file
  building,  \* the index a build has yet to write
  input,     \* /tmp/rollouts.json, which the FSDP scripts read
  job,       \* the trainer job in progress with the rollouts it has read
  scores,    \* per script the file with its log-probabilities
  routes,    \* per script the file with its router traces
  pairing,   \* the reports a pairing has yet to write
  reports    \* the report files

vars == <<count, trajs, rollouts, index, building, input, job, scores, routes,
          pairing, reports>>

----------------------------------------------------------------------------
(* Tokens, log-probabilities and routing decisions.                         *)

Header == <<0, 0, 0, 0>>           \* system prompt and tool descriptions
Message(t, g, j) == <<t, g, j, 0>> \* step j of a trajectory, 0 is the task text
Response(t, g, j, r) == [i \in 1 .. r |-> <<t, g, j, i>>]

\* The logits at a position (from 0) have seen the tokens up to that position.
Seen(ids, q) == SubSeq(ids, 1, q + 1)
Scored(ids, q, token) == [token |-> token, context |-> Seen(ids, q)]
Routed(ids, q, layers) == [l \in 1 .. Len(layers) |-> <<Seen(ids, q), layers[l]>>]

AllLayers == [l \in 1 .. Layers |-> l]
LastOf(s, n) == SubSeq(s, Len(s) - n + 1, Len(s))

response_prediction_positions_Late(p, r) ==  \* (mutant)
  [i \in 1 .. r |-> p - 1 + i]

\* The positions whose logits predict the response tokens: P - 1 + i.
response_prediction_positions(p, r) == [i \in 1 .. r |-> p - 1 + (i - 1)]

\* The positions a routing buffer covers: all but the last.
routed_position_indices(p, r) == [q \in 1 .. p + r - 1 |-> q - 1]

ScoresOf(prompt, response) ==
  LET pos == response_prediction_positions(Len(prompt), Len(response))
  IN  [i \in 1 .. Len(response) |-> Scored(prompt \o response, pos[i], response[i])]

RoutesAt(pos, prompt, response, layers) ==
  [i \in 1 .. Len(pos) |-> Routed(prompt \o response, pos[i], layers)]

----------------------------------------------------------------------------
(* Trajectories.                                                            *)

\* The members of a sequence that are in a set, in their order.
SelectIn(s, set) ==
  FlattenSeq([i \in 1 .. Len(s) |-> IF s[i] \in set THEN <<s[i]>> ELSE <<>>])

AssistantSteps(steps) ==
  SelectIn([j \in 1 .. Len(steps) |-> j],
           {j \in DOMAIN steps : steps[j].role = "assistant"})

\* What the model server saw and returned: the response's own predictions, and
\* a routing buffer of all positions that the proxy trims to the response.
CapturedStep(t, g, j, shape) ==
  LET prompt == <<Header>> \o [i \in 1 .. j |-> Message(t, g, i - 1)]
      response == Response(t, g, j, shape.r)
      probed == shape.role = "assistant" /\ shape.probes # "none"
      buffer == RoutesAt(routed_position_indices(Len(prompt), shape.r),
                         prompt, response, AllLayers)
  IN  [role |-> shape.role,
       prompt |-> IF probed /\ shape.probes = "full" THEN prompt ELSE <<>>,
       response |-> IF probed THEN response ELSE <<>>,
       logprobs |-> IF ~probed THEN <<>> ELSE
         [i \in 1 .. shape.r |->
            [token |-> response[i], context |-> prompt \o SubSeq(response, 1, i - 1)]],
       routed |-> IF probed /\ shape.routed THEN LastOf(buffer, shape.r) ELSE <<>>]

\* A capture replaces the trajectory files of one precision.
Capture(p, choice) ==
  /\ count.captures < MaxCaptures
  /\ count' = [count EXCEPT !.captures = @ + 1]
  /\ LET g == count.captures + 1
     IN  trajs' = [trajs EXCEPT ![p] =
           [t \in Tasks |-> IF choice[t] = None THEN @[t] ELSE
              [gen |-> g, steps |-> [j \in 1 .. Len(choice[t]) |->
                                       CapturedStep(t, g, j, choice[t][j])]]]]
  /\ UNCHANGED <<rollouts, index, building, input, job, scores, routes, pairing, reports>>

\* _build_prior_messages: the task text and every step before the k-th assistant
\* step; there is neither a system prompt nor a list of tools.
PriorMessages(t, traj, k) ==
  [i \in 1 .. AssistantSteps(traj.steps)[k] |-> Message(t, traj.gen, i - 1)]

\* fill_trajectory: a turn with a response but no prompt gets one.
Fillable(step) == step.response # <<>> /\ step.prompt = <<>>

FilledSteps(t, traj) ==
  LET turns == AssistantSteps(traj.steps)
      Turn(j) == CHOOSE k \in 1 .. Len(turns) : turns[k] = j
  IN  [j \in 1 .. Len(traj.steps) |->
         IF Fillable(traj.steps[j])
         THEN [traj.steps[j] EXCEPT !.prompt = PriorMessages(t, traj, Turn(j))]
         ELSE traj.steps[j]]

\* One iteration of main: the file is written back if a turn was filled.
Fill(p, t) ==
  /\ trajs[p][t] # None
  /\ \E j \in 1 .. Len(trajs[p][t].steps) : Fillable(trajs[p][t].steps[j])
  /\ trajs' = [trajs EXCEPT ![p][t].steps = FilledSteps(t, trajs[p][t])]
  /\ UNCHANGED <<count, rollouts, index, building, input, job, scores, routes,
                 pairing, reports>>

ExtractedPair_Reencoded(t, traj, k) ==  \* (mutant)
  LET step == traj.steps[AssistantSteps(traj.steps)[k]]
  IN  IF step.prompt # <<>> /\ step.response # <<>>
      THEN <<step.prompt, step.response>>
      ELSE <<PriorMessages(t, traj, k), <<Message(t, traj.gen, AssistantSteps(traj.steps)[k])>>>>

\* extract_token_pairs for one turn: what was captured, and by the chat template
\* what was not; a response encoded anew is that of the whole message.
ExtractedPair(t, traj, k) ==
  LET j == AssistantSteps(traj.steps)[k]
      step == traj.steps[j]
  IN  <<IF step.prompt # <<>> /\ step.response # <<>>
        THEN step.prompt ELSE PriorMessages(t, traj, k),
        IF step.response # <<>> THEN step.response ELSE <<Message(t, traj.gen, j)>>>>

ExtractedPairs(t, traj) ==
  [k \in 1 .. Len(AssistantSteps(traj.steps)) |-> ExtractedPair(t, traj, k)]

----------------------------------------------------------------------------
(* build_hermes_dense_input.                                                *)

\* Every assistant turn of a directory, files by name and turns by number.
AllTurns(dir) ==
  FlattenSeq([t \in Tasks |->
    IF dir[t] = None THEN <<>>
    ELSE [k \in 1 .. Len(AssistantSteps(dir[t].steps)) |-> <<t, k>>]])

StepOf(dir, tk) == dir[tk[1]].steps[AssistantSteps(dir[tk[1]].steps)[tk[2]]]

\* Turns without prompt, response or log-probabilities are skipped.
Kept(dir, tk) == /\ StepOf(dir, tk).prompt # <<>>
                 /\ StepOf(dir, tk).response # <<>>
                 /\ StepOf(dir, tk).logprobs # <<>>

KeptTurns_All(dir) ==  \* (mutant)
  SelectSeq(AllTurns(dir), LAMBDA tk : StepOf(dir, tk).response # <<>>)

KeptTurns(dir) ==
  SelectIn(AllTurns(dir), {tk \in ToSet(AllTurns(dir)) : Kept(dir, tk)})

SkippedTurns(dir) ==
  SelectIn(AllTurns(dir), {tk \in ToSet(AllTurns(dir)) : ~Kept(dir, tk)})

\* The capture a trajectory file is of.
GenOf(traj) == IF traj = None THEN 0 ELSE traj.gen

RolloutEntries(dir) ==
  LET kept == KeptTurns(dir)
  IN  [i \in 1 .. Len(kept) |->
         [idx |-> i, task |-> kept[i][1], turn |-> kept[i][2],
          gen |-> dir[kept[i][1]].gen, prompt |-> StepOf(dir, kept[i]).prompt,
          response |-> StepOf(dir, kept[i]).response]]

IndexEntries_BySteps(dir) ==  \* (mutant)
  LET kept == KeptTurns(dir)
  IN  [i \in 1 .. Len(kept) |->
         [idx |-> i, task |-> kept[i][1],
          turn |-> AssistantSteps(dir[kept[i][1]].steps)[kept[i][2]],
          gen |-> dir[kept[i][1]].gen, logprobs |-> StepOf(dir, kept[i]).logprobs]]

IndexEntries(dir) ==
  LET kept == KeptTurns(dir)
  IN  [i \in 1 .. Len(kept) |->
         [idx |-> i, task |-> kept[i][1], turn |-> kept[i][2],
          gen |-> dir[kept[i][1]].gen, logprobs |-> StepOf(dir, kept[i]).logprobs]]

\* main up to the first file: the rollouts are written, the index is still to come.
Build(p) ==
  /\ building = None
  /\ count.builds < MaxBuilds
  /\ AllTurns(trajs[p]) # <<>>
  /\ LET b == count.builds + 1
     IN  /\ rollouts' = [rollouts EXCEPT ![p] =
                           [build |-> b, entries |-> RolloutEntries(trajs[p])]]
         /\ building' = [p |-> p, build |-> b, entries |-> IndexEntries(trajs[p]),
                         skipped |-> SkippedTurns(trajs[p]),
                         gens |-> [t \in Tasks |-> GenOf(trajs[p][t])]]
         /\ count' = [count EXCEPT !.builds = b]
  /\ UNCHANGED <<trajs, index, input, job, scores, routes, pairing, reports>>

WriteIndex ==
  /\ building # None
  /\ index' = [index EXCEPT ![building.p] = building]
  /\ building' = None
  /\ UNCHANGED <<count, trajs, rollouts, input, job, scores, routes, pairing, reports>>

BuildCrash ==
  /\ building # None
  /\ building' = None
  /\ UNCHANGED <<count, trajs, rollouts, index, input, job, scores, routes,
                 pairing, reports>>

\* cp of one precision's rollouts to the place the FSDP scripts read.
CopyInput(p) ==
  /\ rollouts[p] \notin {None, input}
  /\ input' = rollouts[p]
  /\ UNCHANGED <<count, trajs, rollouts, index, building, job, scores, routes,
                 pairing, reports>>

----------------------------------------------------------------------------
(* The trainer jobs.  The rollouts are read before the model is loaded, and *)
(* the output is written after the last forward pass.                       *)

\* The FSDP scripts have their input, the Megatron launcher is given a rollouts
\* file and removes the router trace of an earlier run, but not its scores.
StartJob(script, file) ==
  /\ job = None
  /\ count.jobs < MaxJobs
  /\ IF script = "megatron_moe" THEN \E p \in Precisions : file = rollouts[p]
     ELSE file = input
  /\ file # None
  /\ file.entries # <<>>
  /\ count' = [count EXCEPT !.jobs = @ + 1]
  /\ job' = [script |-> script, file |-> file, scored |-> FALSE]
  /\ routes' = IF script = "megatron_moe" THEN [routes EXCEPT ![script] = None] ELSE routes
  /\ UNCHANGED <<trajs, rollouts, index, building, input, scores, pairing, reports>>

ScorePayloads(entries) ==
  [i \in 1 .. Len(entries) |->
     [idx |-> entries[i].idx, scores |-> ScoresOf(entries[i].prompt, entries[i].response)]]

\* Both dense loops write the scores of all prompts; the Megatron job then still
\* has its router trace to write.
WriteScores ==
  /\ job # None
  /\ job.script # "fsdp_moe"
  /\ ~job.scored
  /\ scores' = [scores EXCEPT ![job.script] =
                  [build |-> job.file.build, entries |-> ScorePayloads(job.file.entries)]]
  /\ job' = IF job.script = "megatron_moe" THEN [job EXCEPT !.scored = TRUE] ELSE None
  /\ UNCHANGED <<count, trajs, rollouts, index, building, input, routes, pairing, reports>>

\* FSDP traces every position and all layers, Megatron the response's positions
\* and the layers whose hook has a usable output, of as many as there are hooks.
RoutePayloads(script, entries, heard) ==
  [i \in 1 .. Len(entries) |->
     LET P == Len(entries[i].prompt)
         R == Len(entries[i].response)
     IN  [idx |-> entries[i].idx, layers |-> Layers,
          experts |-> IF script = "fsdp_moe"
            THEN RoutesAt(routed_position_indices(P, R), entries[i].prompt,
                          entries[i].response, AllLayers)
            ELSE RoutesAt(response_prediction_positions(P, R), entries[i].prompt,
                          entries[i].response, SelectIn(AllLayers, heard))]]

WriteRoutes(heard) ==
  /\ job # None
  /\ job.script = "fsdp_moe" \/ job.scored
  /\ job.script = "fsdp_moe" => heard = 1 .. Layers
  /\ routes' = [routes EXCEPT ![job.script] =
                  [build |-> job.file.build,
                   entries |-> RoutePayloads(job.script, job.file.entries, heard)]]
  /\ job' = None
  /\ UNCHANGED <<count, trajs, rollouts, index, building, input, scores, pairing, reports>>

\* A job is killed or runs out of memory; what it has not written is lost.
JobCrash ==
  /\ job # None
  /\ job' = None
  /\ UNCHANGED <<count, trajs, rollouts, index, building, input, scores, routes,
                 pairing, reports>>

----------------------------------------------------------------------------
(* The pair scripts.                                                        *)

Payloads(file, e) == {x \in ToSet(file.entries) : x.idx = e.idx}
PayloadFor(file, e) == CHOOSE x \in Payloads(file, e) : TRUE

\* Either comparison needs as many tokens on either side, and one at least.
Comparable(mine, trainers) == mine # <<>> /\ Len(mine) = Len(trainers)

\* pair_reports of the dense script raises unless this holds of every entry.
DensePairs(p, file, e) ==
  /\ Payloads(file, e) # {}
  /\ Comparable(e.logprobs, PayloadFor(file, e).scores)
  /\ trajs[p][e.task] # None

DenseReport(p, script, file, e) ==
  [kind |-> "dense", p |-> p, script |-> script, task |-> e.task, turn |-> e.turn,
   build |-> index[p].build, scored |-> file.build, indexed |-> e.gen, gen |-> e.gen,
   rollout |-> e.logprobs, trainer |-> PayloadFor(file, e).scores]

RolloutRoute(p, e) == StepOf(trajs[p], <<e.task, e.turn>>).routed

Window_Front(trace, n) ==  \* (mutant)
  IF Len(trace) > n THEN SubSeq(trace, 1, n) ELSE trace

\* A longer trainer trace is cut to the rollout's response window.
Window(trace, n) == IF Len(trace) > n THEN LastOf(trace, n) ELSE trace

\* RouterTrace: every token has a decision of every layer.
ValidTrace(trace, layers) == \A row \in ToSet(trace) : Len(row) = layers

\* The mixture-of-experts script reads the routing from the trajectory there is
\* now, and raises unless this holds of every entry.
MoePairs(p, file, e) ==
  /\ Payloads(file, e) # {}
  /\ trajs[p][e.task] # None
  /\ e.turn <= Len(AssistantSteps(trajs[p][e.task].steps))
  /\ LET mine == RolloutRoute(p, e)
         x == PayloadFor(file, e)
         window == Window(x.experts, Len(mine))
     IN  /\ ValidTrace(mine, x.layers)
         /\ ValidTrace(window, x.layers)
         /\ Comparable(mine, window)

MoeReport(p, script, file, e) ==
  [kind |-> "moe", p |-> p, script |-> script, task |-> e.task, turn |-> e.turn,
   build |-> index[p].build, scored |-> file.build, indexed |-> e.gen,
   gen |-> trajs[p][e.task].gen,
   rollout |-> RolloutRoute(p, e),
   trainer |-> Window(PayloadFor(file, e).experts, Len(RolloutRoute(p, e)))]

\* All pairs or none: the reports are written after the last one was computed.
StartPairing(p, file, paired, new) ==
  /\ pairing = <<>>
  /\ count.pairings < MaxPairings
  /\ None \notin {index[p], file}
  /\ index[p].entries # <<>>
  /\ paired
  /\ pairing' = new
  /\ count' = [count EXCEPT !.pairings = @ + 1]
  /\ UNCHANGED <<trajs, rollouts, index, building, input, job, scores, routes, reports>>

PairDense(p, script) ==
  StartPairing(p, scores[script],
    \A e \in ToSet(index[p].entries) : DensePairs(p, scores[script], e),
    [i \in 1 .. Len(index[p].entries) |->
       DenseReport(p, script, scores[script], index[p].entries[i])])

PairMoe(p, script) ==
  StartPairing(p, routes[script],
    \A e \in ToSet(index[p].entries) : MoePairs(p, routes[script], e),
    [i \in 1 .. Len(index[p].entries) |->
       MoeReport(p, script, routes[script], index[p].entries[i])])

\* The file a report goes to.
Path(r) == <<r.kind, r.p, r.script, r.task, r.turn>>

WriteReport ==
  /\ pairing # <<>>
  /\ reports' = {r \in reports : Path(r) # Path(Head(pairing))} \cup {Head(pairing)}
  /\ pairing' = Tail(pairing)
  /\ UNCHANGED <<count, trajs, rollouts, index, building, input, job, scores, routes>>

PairingCrash ==
  /\ pairing # <<>>
  /\ pairing' = <<>>
  /\ UNCHANGED <<count, trajs, rollouts, index, building, input, job, scores, routes,
                 reports>>

----------------------------------------------------------------------------
Init ==
  /\ count = [captures |-> 0, builds |-> 0, jobs |-> 0, pairings |-> 0]
  /\ trajs = [p \in Precisions |-> [t \in Tasks |-> None]]
  /\ rollouts = [p \in Precisions |-> None]
  /\ index = [p \in Precisions |-> None]
  /\ building = None
  /\ input = None
  /\ job = None
  /\ scores = [s \in Scripts |-> None]
  /\ routes = [s \in Scripts |-> None]
  /\ pairing = <<>>
  /\ reports = {}

Next ==
  \/ \E p \in Precisions, c \in Captures : Capture(p, c)
  \/ \E p \in Precisions, t \in Tasks : Fill(p, t)
  \/ \E p \in Precisions : Build(p) \/ CopyInput(p)
  \/ WriteIndex \/ BuildCrash
  \/ \E s \in Scripts, f \in {input} \cup {rollouts[p] : p \in Precisions} : StartJob(s, f)
  \/ WriteScores \/ JobCrash
  \/ \E heard \in {1 .. Layers, 2 .. Layers} : WriteRoutes(heard)
  \/ \E p \in Precisions, s \in Scripts : PairDense(p, s) \/ PairMoe(p, s)
  \/ WriteReport \/ PairingCrash

Spec == Init /\ [][Next]_vars

----------------------------------------------------------------------------
(* What must hold.                                                          *)

Tokens == [1 .. 4 -> Nat]
ScoreType(x) == x.token \in Tokens /\ x.context \in Seq(Tokens) \ {<<>>}

\* Types: what the trainers read has a prompt and a response in every entry, an
\* index entry a log-probability of every response token, and a report as many
\* on either side (AgentStep, build_rollouts_and_index, pair_reports).
TypeOK ==
  /\ count \in [captures : 0 .. MaxCaptures, builds : 0 .. MaxBuilds,
                 jobs : 0 .. MaxJobs, pairings : 0 .. MaxPairings]
  /\ \A p \in Precisions :
       /\ rollouts[p] # None =>
            \A e \in ToSet(rollouts[p].entries) :
              {e.prompt, e.response} \subseteq Seq(Tokens) \ {<<>>}
       /\ index[p] # None =>
            \A e \in ToSet(index[p].entries) :
              e.logprobs # <<>> /\ \A x \in ToSet(e.logprobs) : ScoreType(x)
  /\ input = None \/ input.build \in 1 .. MaxBuilds
  /\ job = None \/ job.script \in Scripts
  /\ \A d \in reports : d.rollout # <<>> /\ Len(d.rollout) = Len(d.trainer)

\* The contexts of a rollout and of a trainer are alike when they are the same
\* or when the prompt was filled in, which has everything but the header.
AlikeContexts(mine, trainers) == mine \in {trainers, <<Header>> \o trainers}

\* When the scores come from the rollouts the index was written with, a dense
\* report compares the same tokens, each predicted from the same tokens before
\* it: numbering, positions, skipped turns and filled prompts never shift one
\* side against the other (pair_hermes_dense_reports, run_fsdp_reference).
DenseReportsCompareAlike ==
  \A d \in reports :
    d.kind = "dense" /\ d.build = d.scored =>
      \A i \in 1 .. Len(d.rollout) :
        /\ d.rollout[i].token = d.trainer[i].token
        /\ AlikeContexts(d.rollout[i].context, d.trainer[i].context)

\* When the trace comes from the rollouts the index was written with and the
\* trajectory was not captured anew, a router report compares the decisions of
\* the same layer at the same position, although the two trainers trace different
\* windows and the proxy a third one (pair_hermes_moe_reports).
RoutingReportsCompareAlike ==
  \A d \in reports :
    d.kind = "moe" /\ d.build = d.scored /\ d.indexed = d.gen =>
      \A i \in 1 .. Len(d.rollout) : \A l \in 1 .. Layers :
        /\ d.rollout[i][l][2] = l /\ d.trainer[i][l][2] = l
        /\ AlikeContexts(d.rollout[i][l][1], d.trainer[i][l][1])

\* Filling in prompts changes nothing for the extractor, and what the trainers are
\* given of a trajectory is what the extractor gives of it: the three ways to a
\* turn's tokens agree (extract_token_pairs, fill_trajectory, build_rollouts_and_index).
ExtractionAgrees ==
  \A p \in Precisions :
    /\ \A t \in Tasks : trajs[p][t] # None =>
         ExtractedPairs(t, trajs[p][t]) =
         ExtractedPairs(t, [trajs[p][t] EXCEPT !.steps = FilledSteps(t, trajs[p][t])])
    /\ rollouts[p] # None => \A e \in ToSet(rollouts[p].entries) :
         GenOf(trajs[p][e.task]) = e.gen =>
           ExtractedPairs(e.task, trajs[p][e.task])[e.turn] = <<e.prompt, e.response>>

TurnsOf(entries) == {<<e.task, e.turn>> : e \in ToSet(entries)}

\* An index lists every assistant turn of the trajectories it was built from once,
\* as an entry or as skipped, and its numbers mean the same turns as those of
\* the rollouts file written just before it (build_hermes_dense_input).
IndexTellsTheTurns ==
  \A p \in Precisions : index[p] # None =>
    LET ix == index[p]
    IN  /\ Cardinality(TurnsOf(ix.entries)) = Len(ix.entries)
        /\ TurnsOf(ix.entries) \cap ToSet(ix.skipped) = {}
        /\ \A t \in Tasks : ix.gens[t] > 0 /\ GenOf(trajs[p][t]) = ix.gens[t] =>
             {tk \in ToSet(AllTurns(trajs[p])) : tk[1] = t} =
             {tk \in TurnsOf(ix.entries) \cup ToSet(ix.skipped) : tk[1] = t}
        /\ rollouts[p].build = ix.build =>
             \A i \in 1 .. Len(ix.entries) :
               [n \in 1 .. Len(ix.entries[i].logprobs) |->
                  ix.entries[i].logprobs[n].token] = rollouts[p].entries[i].response
=============================================================================

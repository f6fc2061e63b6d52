-------------------------- MODULE CapturePipeline --------------------------
(***************************************************************************)
(* How the token probes of a live run get into the agent trajectories.      *)
(*                                                                          *)
(* A driver works through the task list.  minimal_agent_driver sends its    *)
(* chat requests through logprob_capture_proxy, which appends one record    *)
(* per answer to the sidecar file; remote_capture_driver asks the model     *)
(* itself and appends the record itself.  Both write one ShareGPT record    *)
(* per task.  merge_probes_into_trajectories joins the two files and writes *)
(* one trajectory file per task; hermes_agent_runner writes such files      *)
(* from a command line agent and leaves those it finds.                     *)
(*                                                                          *)
(* The model server is external: it answers with tool calls or without,     *)
(* with log-probabilities or without, fails, or answers late.  An answer is *)
(* known by the run, the task and the turn it was given in.                 *)
(***************************************************************************)
EXTENDS Integers, Sequences, FiniteSets, SequencesExt

CONSTANTS
  NTasks,      \* the tasks file lists the tasks 1 .. NTasks
  DigitHash,   \* the tasks whose prompt hash happens to consist of digits
  MaxSteps,    \* --max-steps: the turns a task may take
  Calls,       \* bound: how many tools one answer may call
  TaskChoices, \* the task lists a driver is left with: all, or one by --task-id
  MaxRuns,     \* bound: how often a driver or the runner is started
  MaxFaults,   \* bound: answers without probes, failures, timeouts and crashes
  Absent, Torn \* a trajectory file that is not there, or was cut off

ASSUME CaptureAssumption ==
  /\ {NTasks, MaxSteps, MaxRuns} \subseteq Nat \ {0}
  /\ MaxFaults \in Nat
  /\ Calls \subseteq Nat
  /\ DigitHash \subseteq 1 .. NTasks
  /\ TaskChoices \subseteq {[t \in 1 .. NTasks |-> t]} \cup {<<t>> : t \in 1 .. NTasks}
  /\ Absent # Torn

Tasks == 1 .. NTasks

Answers == [run : 1 .. MaxRuns, task : Tasks, turn : 0 .. MaxSteps - 1,
            calls : Calls, probes : BOOLEAN]

VARIABLES
  run,          \* how many runs were started so far
  faults,       \* how much went wrong so far
  driver,       \* the run in progress: its kind, the tasks left, their messages
  requests,     \* the chat requests the proxy has in its hands
  sidecar,      \* the probe file, shared by all runs and only appended to
  sharegpt,     \* the ShareGPT file of the last driver
  merging,      \* the trajectories a merge has yet to write
  trajectories  \* the trajectory file of every task

vars == <<run, faults, driver, requests, sidecar, sharegpt, merging, trajectories>>

\* Something goes wrong, which the bound allows only so often.
Fault == faults < MaxFaults /\ faults' = faults + 1

Idle == [kind |-> "idle", todo |-> <<>>, place |-> 0, conv |-> <<>>,
         waiting |-> FALSE]

----------------------------------------------------------------------------
(* The conversation of a task: a gpt entry per answer and a tool entry per  *)
(* tool call.                                                               *)

GptEntry(a) == [from |-> "gpt", answer |-> a, call |-> 0]
ToolEntry(a, k) == [from |-> "tool", answer |-> a, call |-> k]

\* What one answer adds to the messages: itself and the results of its calls,
\* each in a message of its own.
EntriesOf(a) == <<GptEntry(a)>> \o [k \in 1 .. a.calls |-> ToolEntry(a, k)]

Turns(conv) == Cardinality({k \in DOMAIN conv : conv[k].from = "gpt"})

Task == Head(driver.todo)

\* The answers the model server may give to the driver's next request.
PossibleAnswers(r, t, k) ==
  [run : {r}, task : {t}, turn : {k}, calls : Calls, probes : BOOLEAN]

\* _coerce_prompt_index: a hash of digits becomes a number.
Coerce(key) == IF key[1] = "hash" /\ key[2] \in DigitHash
               THEN <<"number", key[2]>> ELSE key

SidecarRecords_Always(key, a) ==  \* (mutant)
  <<[key |-> key, turn |-> a.turn, answer |-> a]>>

\* extract_probes: the record an answer leaves, none without log-probabilities.
SidecarRecords(key, a) ==
  IF a.probes THEN <<[key |-> key, turn |-> a.turn, answer |-> a]>> ELSE <<>>

\* An answer without log-probabilities counts as a fault.
Answered(a) == IF a.probes THEN UNCHANGED faults ELSE Fault

----------------------------------------------------------------------------
(* The drivers.                                                             *)

\* main of either driver: --task-id leaves one task of the list, and the
\* output file is opened for writing.
StartDriver(kind, chosen) ==
  /\ driver = Idle
  /\ run < MaxRuns
  /\ run' = run + 1
  /\ driver' = [Idle EXCEPT !.kind = kind, !.place = 1, !.todo = chosen]
  /\ sharegpt' = <<>>
  /\ UNCHANGED <<faults, requests, sidecar, merging, trajectories>>

\* The record of the task at hand is written and the next task begins.
FinishTask(conv, completed, partial) ==
  /\ sharegpt' = Append(sharegpt, [index |-> driver.place, task |-> Task,
                                   conv |-> conv, completed |-> completed,
                                   partial |-> partial])
  /\ driver' = IF Tail(driver.todo) = <<>> THEN Idle
               ELSE [Idle EXCEPT !.kind = driver.kind, !.place = driver.place + 1,
                                 !.todo = Tail(driver.todo)]

\* The loop body of _run_one_task after an answer: its tools are run, and the
\* loop ends with an answer that calls none or with the last step.
Consume(a) ==
  LET conv == driver.conv \o EntriesOf(a)
  IN  IF a.calls = 0 \/ Turns(conv) = MaxSteps
      THEN FinishTask(conv, a.calls = 0, FALSE)
      ELSE /\ driver' = [driver EXCEPT !.conv = conv, !.waiting = FALSE]
           /\ UNCHANGED sharegpt

\* _chat_once: the request of the next turn goes to the proxy.
SendThroughProxy ==
  /\ driver.kind = "minimal"
  /\ ~driver.waiting
  /\ driver' = [driver EXCEPT !.waiting = TRUE]
  /\ requests' = requests \cup {[run |-> run, task |-> Task, turn |-> Turns(driver.conv),
                                 answer |-> Absent, captured |-> FALSE]}
  /\ UNCHANGED <<run, faults, sidecar, sharegpt, merging, trajectories>>

MyRequest == {q \in requests : /\ driver.waiting
                               /\ q.run = run
                               /\ q.task = Task
                               /\ q.turn = Turns(driver.conv)}

\* The proxy's upstream answers, the driver may be waiting for it or not.
UpstreamAnswers ==
  \E q \in requests :
    /\ q.answer = Absent
    /\ \E a \in PossibleAnswers(q.run, q.task, q.turn) :
         /\ Answered(a)
         /\ requests' = (requests \ {q}) \cup {[q EXCEPT !.answer = a]}
    /\ UNCHANGED <<run, driver, sidecar, sharegpt, merging, trajectories>>

\* _proxy: the probes are appended, under the hash of the first user message
\* and the number of assistant messages, before the answer is passed on.
Capture ==
  \E q \in requests :
    /\ q.answer # Absent
    /\ ~q.captured
    /\ sidecar' = sidecar \o SidecarRecords(<<"hash", q.task>>, q.answer)
    /\ requests' = (requests \ {q}) \cup
                     IF q \in MyRequest THEN {[q EXCEPT !.captured = TRUE]} ELSE {}
    /\ UNCHANGED <<run, faults, driver, sharegpt, merging, trajectories>>

MayPassOn_Early(q) == q.answer # Absent  \* (mutant)

MayPassOn(q) == q.captured

\* The driver gets the answer from the proxy.
Receive ==
  \E q \in MyRequest :
    /\ MayPassOn(q)
    /\ Consume(q.answer)
    /\ requests' = IF q.captured THEN requests \ {q} ELSE requests
    /\ UNCHANGED <<run, faults, sidecar, merging, trajectories>>

\* An HTTP error, a refused connection or a proxy that was killed: nothing is
\* recorded, and the waiting driver gives the task up.  A request nobody waits
\* for may as well stay unanswered.
UpstreamFails ==
  /\ Fault
  /\ \E q \in MyRequest :
       /\ q.answer = Absent
       /\ requests' = requests \ {q}
  /\ FinishTask(driver.conv, FALSE, TRUE)
  /\ UNCHANGED <<run, sidecar, merging, trajectories>>

\* The driver's timeout: it gives the task up while its request lives on.  An
\* answer captured already is lost on the way.
TimeOut ==
  /\ Fault
  /\ MyRequest # {}
  /\ FinishTask(driver.conv, FALSE, TRUE)
  /\ requests' = {q \in requests : q \notin MyRequest \/ ~q.captured}
  /\ UNCHANGED <<run, sidecar, merging, trajectories>>

\* _chat_once_with_capture: the driver itself records the answer, under the
\* place of the task in the list it was left with.
AskDirectly ==
  /\ driver.kind = "remote"
  /\ \E a \in PossibleAnswers(run, Task, Turns(driver.conv)) :
       /\ sidecar' = sidecar \o SidecarRecords(<<"index", driver.place>>, a)
       /\ Answered(a)
       /\ Consume(a)
  /\ UNCHANGED <<run, requests, merging, trajectories>>

DirectRequestFails ==
  /\ Fault
  /\ driver.kind = "remote"
  /\ FinishTask(driver.conv, FALSE, TRUE)
  /\ UNCHANGED <<run, requests, sidecar, merging, trajectories>>

\* The driver is killed.  minimal_agent_driver flushes every record; the other
\* one loses what its buffer holds, and a record cut in two fails the merge
\* just as a missing one does.
DriverCrash ==
  /\ Fault
  /\ driver.kind \in {"minimal", "remote"}
  /\ driver' = Idle
  /\ requests' = {q \in requests : ~q.captured}
  /\ \E n \in (IF driver.kind = "minimal" THEN {Len(sharegpt)} ELSE 0 .. Len(sharegpt)) :
       sharegpt' = SubSeq(sharegpt, 1, n)
  /\ UNCHANGED <<run, sidecar, merging, trajectories>>

----------------------------------------------------------------------------
(* The merge.                                                               *)

HasDuplicate_Never(records) == FALSE  \* (mutant)

\* index_probes: two records with one key and one turn refuse the whole merge.
HasDuplicate(records) ==
  \E i, j \in DOMAIN records :
    /\ i # j
    /\ Coerce(records[i].key) = Coerce(records[j].key)
    /\ records[i].turn = records[j].turn

\* The keys under which probes of the i-th ShareGPT record are looked for.
Candidates(sg) == {<<"index", sg.index>>, <<"hash", sg.task>>}

\* merge_to_trajectories: the probes for one turn.  Both keys may have some;
\* then the later record of the file wins.
ProbesFor(sg, turn) ==
  LET fits == {i \in DOMAIN sidecar : /\ Coerce(sidecar[i].key) \in Candidates(sg)
                                      /\ sidecar[i].turn = turn}
  IN  IF fits = {} THEN Absent
      ELSE sidecar[CHOOSE i \in fits : \A j \in fits : j <= i].answer

NewStep(sg, steps, a) ==
  [answer |-> a, probes |-> ProbesFor(sg, Len(steps)), results |-> [k \in 1 .. a.calls |-> 0]]

AdaptEntry_StillPending(sg, acc, e) ==  \* (mutant)
  IF e.from = "gpt"
  THEN [steps |-> Append(acc.steps, NewStep(sg, acc.steps, e.answer)),
        pending |-> e.answer.calls > 0]
  ELSE [acc EXCEPT !.steps = [@ EXCEPT ![Len(@)].results[1] = e.call]]

\* One entry of the conversation is adapted.  A tool entry holds one response,
\* which goes to the first call still pending; then none is pending.
AdaptEntry(sg, acc, e) ==
  IF e.from = "gpt"
  THEN [steps |-> Append(acc.steps, NewStep(sg, acc.steps, e.answer)),
        pending |-> e.answer.calls > 0]
  ELSE [steps |-> IF acc.pending
                  THEN [acc.steps EXCEPT ![Len(acc.steps)].results[1] = e.call]
                  ELSE acc.steps,
        pending |-> FALSE]

\* Why the trajectory ended: terminal_reason.
Terminal(sg, steps) ==
  IF steps = <<>> \/ sg.partial THEN "error"
  ELSE IF sg.completed /\ Last(steps).answer.calls = 0 THEN "answered"
  ELSE "max_steps"

\* inject_probes and adapt_hermes_sharegpt_trajectory on one record.
Adapt(sg) ==
  LET adapted == FoldLeft(LAMBDA acc, e : AdaptEntry(sg, acc, e),
                          [steps |-> <<>>, pending |-> FALSE], sg.conv)
  IN  [steps |-> adapted.steps, terminal |-> Terminal(sg, adapted.steps)]

MayMerge_AnyLength ==  \* (mutant)
  /\ sharegpt # <<>>
  /\ ~HasDuplicate(sidecar)

\* Both files are complete and unambiguous, or the merge raises.
MayMerge == /\ Len(sharegpt) = NTasks
            /\ ~HasDuplicate(sidecar)

\* main: everything is read and joined before the first file is written.  The
\* i-th record goes to the i-th task of the tasks file.
StartMerge ==
  /\ driver = Idle
  /\ merging = <<>>
  /\ MayMerge
  /\ merging' = [i \in DOMAIN sharegpt |-> [task |-> i, file |-> Adapt(sharegpt[i])]]
  /\ UNCHANGED <<run, faults, driver, requests, sidecar, sharegpt, trajectories>>

WriteTrajectory ==
  /\ merging # <<>>
  /\ trajectories' = [trajectories EXCEPT ![Head(merging).task] = Head(merging).file]
  /\ merging' = Tail(merging)
  /\ UNCHANGED <<run, faults, driver, requests, sidecar, sharegpt>>

\* The merge is killed, perhaps within a file, which is then cut off.
MergeCrash ==
  /\ Fault
  /\ merging # <<>>
  /\ \E file \in {trajectories[Head(merging).task], Torn} :
       trajectories' = [trajectories EXCEPT ![Head(merging).task] = file]
  /\ merging' = <<>>
  /\ UNCHANGED <<run, driver, requests, sidecar, sharegpt>>

----------------------------------------------------------------------------
(* The command line runner, which resumes where an earlier run stopped.     *)

StartRunner ==
  /\ driver = Idle
  /\ merging = <<>>
  /\ run < MaxRuns
  /\ run' = run + 1
  /\ driver' = [Idle EXCEPT !.kind = "runner", !.place = 1,
                            !.todo = [t \in Tasks |-> t]]
  /\ UNCHANGED <<faults, requests, sidecar, sharegpt, merging, trajectories>>

RunnerMovesOn ==
  driver' = IF Tail(driver.todo) = <<>> THEN Idle
            ELSE [driver EXCEPT !.todo = Tail(@), !.place = @ + 1]

\* The tasks a resumed runner passes over: all whose file exists, whatever is
\* in it.
Exists(t) == trajectories[t] # Absent

\* [skip] for a file that exists, [error] for a command that failed.
RunnerLeavesTask ==
  /\ driver.kind = "runner"
  /\ RunnerMovesOn
  /\ UNCHANGED <<run, faults, requests, sidecar, sharegpt, merging, trajectories>>

\* adapt_hermes_jsonl: the results are matched by call id, no probes are
\* known, and the last answer tells how the run ended.
AdaptJsonl(answers) ==
  [steps |-> [k \in DOMAIN answers |->
                [answer |-> answers[k], probes |-> Absent,
                 results |-> [c \in 1 .. answers[k].calls |-> c]]],
   terminal |-> IF answers = <<>> THEN "error"
                ELSE IF Last(answers).calls = 0 THEN "answered"
                ELSE IF Len(answers) >= MaxSteps THEN "max_steps"
                ELSE "error"]

\* The logs the command may leave: it goes on while the answers call tools.
Logs == {log \in UNION {[1 .. n -> Calls] : n \in 0 .. MaxSteps} :
           \A k \in 1 .. Len(log) - 1 : log[k] > 0}

RunnerWrites ==
  /\ driver.kind = "runner"
  /\ ~Exists(Task)
  /\ \E log \in Logs :
       trajectories' = [trajectories EXCEPT ![Task] =
         AdaptJsonl([k \in DOMAIN log |->
           [run |-> run, task |-> Task, turn |-> k - 1, calls |-> log[k],
            probes |-> FALSE]])]
  /\ RunnerMovesOn
  /\ UNCHANGED <<run, faults, requests, sidecar, sharegpt, merging>>

\* The runner is killed, or gives up on a log it cannot read, perhaps within
\* a file.
RunnerCrash ==
  /\ Fault
  /\ driver.kind = "runner"
  /\ ~Exists(Task)
  /\ \E file \in {Absent, Torn} :
       trajectories' = [trajectories EXCEPT ![Task] = file]
  /\ driver' = Idle
  /\ UNCHANGED <<run, requests, sidecar, sharegpt, merging>>

----------------------------------------------------------------------------

Init ==
  /\ run = 0
  /\ faults = 0
  /\ driver = Idle
  /\ requests = {}
  /\ sidecar = <<>>
  /\ sharegpt = <<>>
  /\ merging = <<>>
  /\ trajectories = [t \in Tasks |-> Absent]

Next ==
  \/ \E kind \in {"minimal", "remote"} :
       \E chosen \in TaskChoices : StartDriver(kind, chosen)
  \/ SendThroughProxy
  \/ UpstreamAnswers
  \/ Capture
  \/ Receive
  \/ UpstreamFails
  \/ TimeOut
  \/ AskDirectly
  \/ DirectRequestFails
  \/ DriverCrash
  \/ StartMerge
  \/ WriteTrajectory
  \/ MergeCrash
  \/ StartRunner
  \/ RunnerLeavesTask
  \/ RunnerWrites
  \/ RunnerCrash

Spec == Init /\ [][Next]_vars

----------------------------------------------------------------------------

Conversations == {sharegpt[i].conv : i \in DOMAIN sharegpt} \cup {driver.conv}

Written == {t \in Tasks : trajectories[t] \notin {Absent, Torn}}

RecordsOf(a) == {i \in DOMAIN sidecar : sidecar[i].answer = a}

TypeOK ==
  /\ run \in 0 .. MaxRuns
  /\ driver.kind \in {"idle", "minimal", "remote", "runner"}
  /\ driver.kind = "idle" <=> driver.todo = <<>>
  /\ \A q \in requests : q.captured => q \in MyRequest
  /\ \A i \in DOMAIN sidecar : /\ sidecar[i].answer \in Answers
                              /\ sidecar[i].answer.probes
                              /\ sidecar[i].turn = sidecar[i].answer.turn
  /\ Len(sharegpt) <= NTasks
  /\ \A i \in DOMAIN merging : merging[i].task \in Tasks
  /\ DOMAIN trajectories = Tasks

\* "Sidecar capture before we forward": what a driver has in its messages and
\* came with log-probabilities is in the sidecar, whatever happens next.
AnswersAreCaptured ==
  \A conv \in Conversations : \A k \in DOMAIN conv :
    conv[k].answer.probes => \E i \in DOMAIN sidecar : sidecar[i].answer = conv[k].answer

\* The probes on a step were taken from the very answer the step shows, also
\* when the sidecar holds what timed-out requests, killed drivers and runs over
\* part of the tasks left there.  Two things are beyond the merge: an answer
\* that left no record it can find, and a sidecar both drivers wrote to.
ProbesFit ==
  \A t \in Written : \A k \in DOMAIN trajectories[t].steps :
    LET step  == trajectories[t].steps[k]
        found == {i \in RecordsOf(step.answer) : Coerce(sidecar[i].key)[1] # "number"}
    IN  step.probes = step.answer \/
          \A i \in found : \E j \in RecordsOf(step.probes) :
            sidecar[j].key[1] # sidecar[i].key[1]

\* A trajectory file tells one run of its own task from the first turn on, in no
\* more turns than a task may take, and its terminal_reason fits what it shows:
\* "answered" when the last answer calls no tool, "max_steps" only when all the
\* steps were taken.
TrajectoryTellsOneRun ==
  \A t \in Written :
    LET steps == trajectories[t].steps
    IN  /\ Len(steps) <= MaxSteps
        /\ \A k \in DOMAIN steps :
             /\ steps[k].answer.task = t
             /\ steps[k].answer.run = steps[1].answer.run
             /\ steps[k].answer.turn = k - 1
        /\ trajectories[t].terminal = "answered" <=>
             steps # <<>> /\ Last(steps).answer.calls = 0
        /\ trajectories[t].terminal = "max_steps" => Len(steps) = MaxSteps

\* A result shown with a tool call is that call's own, though the drivers send
\* one message per result and the adapter expects all results in one.
ResultsBelongToTheirCalls ==
  \A t \in Written : \A k \in DOMAIN trajectories[t].steps :
    LET results == trajectories[t].steps[k].results
    IN  /\ \A c \in DOMAIN results : results[c] \in {0, c}
        /\ results # <<>> => results[1] = 1

============================================================================

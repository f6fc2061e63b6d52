------------------------ MODULE CapturePipelineProofs ------------------------
(***************************************************************************)
(* For any number of tasks, runs, turns and faults: the proxy records an    *)
(* answer before a driver sees it; and a trajectory file tells one run of   *)
(* its task, each step with the results of its own calls and with the       *)
(* probes of its own answer.                                                *)
(***************************************************************************)
EXTENDS CapturePipeline, SequenceTheorems, FiniteSetTheorems, WellFoundedInduction, TLAPS

Entry == [from : {"gpt", "tool"}, answer : Answers, call : Nat]

Driver == [kind : {"idle", "minimal", "remote", "runner"}, todo : Seq(Tasks),
           place : Nat, conv : Seq(Entry), waiting : BOOLEAN]

ShareGpt == [index : Nat, task : Tasks, conv : Seq(Entry),
             completed : BOOLEAN, partial : BOOLEAN]

Request == [run : 1 .. MaxRuns, task : Tasks, turn : 0 .. MaxSteps - 1,
            answer : Answers \cup {Absent}, captured : BOOLEAN]

Probe == [key : {"hash", "index"} \X Nat, turn : Nat, answer : Answers]

\* Types that Next preserves.
Typed ==
  /\ run \in 0 .. MaxRuns
  /\ driver \in Driver
  /\ driver.kind = "idle" <=> driver.todo = <<>>
  /\ driver.waiting => driver.kind = "minimal"
  /\ driver.kind # "idle" => run # 0
  /\ requests \subseteq Request
  /\ sidecar \in Seq(Probe)
  /\ \A i \in DOMAIN sidecar : /\ sidecar[i].answer.probes
                              /\ sidecar[i].turn = sidecar[i].answer.turn
  /\ sharegpt \in Seq(ShareGpt)
  /\ merging \in Seq(Range(merging))
  /\ \A i \in DOMAIN merging : merging[i].task \in Tasks
  /\ DOMAIN trajectories = Tasks

\* A driver works on each task once and has a turn left for the one at hand.
DriverOnTrack ==
  /\ \A i, k \in DOMAIN driver.todo : driver.todo[i] = driver.todo[k] => i = k
  /\ Len(sharegpt) <= NTasks
  /\ driver.kind \in {"minimal", "remote"} =>
       /\ Len(sharegpt) + Len(driver.todo) <= NTasks
       /\ Turns(driver.conv) < MaxSteps

\* The model server answered what it was asked.
RightAnswer(q) ==
  q.answer # Absent => /\ q.answer.run = q.run
                       /\ q.answer.task = q.task
                       /\ q.answer.turn = q.turn

\* Of the requests of this run for a task not yet given up, there is one at
\* most, the one the driver waits for; and its answer fits the question.
OneRequest ==
  /\ \A q \in requests :
       /\ q.run <= run
       /\ RightAnswer(q)
       /\ q.run = run /\ q.task \in Range(driver.todo) => q \in MyRequest
       /\ q.captured => q \in MyRequest
  /\ \A p, q \in MyRequest : p = q

InSidecar(a) == a.probes => \E i \in DOMAIN sidecar : sidecar[i].answer = a

\* What was captured, what the driver took in and what was written is in the
\* sidecar.
CapturedFirst ==
  /\ \A q \in requests : q.captured => q.answer # Absent /\ InSidecar(q.answer)
  /\ \A k \in DOMAIN driver.conv : InSidecar(driver.conv[k].answer)
  /\ \A i \in DOMAIN sharegpt : \A k \in DOMAIN sharegpt[i].conv :
       InSidecar(sharegpt[i].conv[k].answer)

CaptureInv == Typed /\ DriverOnTrack /\ OneRequest /\ CapturedFirst

-----------------------------------------------------------------------------
\* Conversations

\* What an answer adds to a conversation: its gpt entry, then tool entries.
LEMMA EntriesType ==
  ASSUME NEW a \in Answers
  PROVE  /\ EntriesOf(a) \in Seq(Entry) /\ Len(EntriesOf(a)) \in Nat \ {0}
         /\ a.calls \in Nat /\ Len(EntriesOf(a)) = 1 + a.calls
         /\ EntriesOf(a)[1].from = "gpt"
         /\ \A k \in DOMAIN EntriesOf(a) : /\ EntriesOf(a)[k].answer = a
                                           /\ k # 1 => /\ EntriesOf(a)[k].from = "tool"
                                                       /\ EntriesOf(a)[k].call = k - 1
<1> PICK n \in Nat : n = a.calls
  BY CaptureAssumption DEF Answers
<1> DEFINE results == [k \in 1 .. n |-> ToolEntry(a, k)]
<1>1. GptEntry(a) \in Entry /\ \A k \in 1 .. n : ToolEntry(a, k) \in Entry
  BY DEF GptEntry, ToolEntry, Entry
<1>2. results \in Seq(Entry) /\ Len(results) = n
  BY <1>1
<1>3. /\ <<GptEntry(a)>> \in Seq(Entry) /\ Len(<<GptEntry(a)>>) = 1
      /\ <<GptEntry(a)>>[1] = GptEntry(a)
  BY <1>1
<1>4. /\ EntriesOf(a) \in Seq(Entry) /\ Len(EntriesOf(a)) = 1 + n
      /\ EntriesOf(a)[1] = GptEntry(a)
      /\ \A k \in 2 .. 1 + n : EntriesOf(a)[k] = results[k - 1]
  <2> HIDE DEF results
  <2> QED
    BY <1>2, <1>3 DEF EntriesOf, results
<1>5. \A k \in 2 .. 1 + n : EntriesOf(a)[k] = ToolEntry(a, k - 1)
  <2>1. \A k \in 2 .. 1 + n : k - 1 \in 1 .. n
    OBVIOUS
  <2>2. \A m \in 1 .. n : results[m] = ToolEntry(a, m)
    OBVIOUS
  <2> HIDE DEF results
  <2> QED
    BY <1>4, <2>1, <2>2
<1>6. DOMAIN EntriesOf(a) = 1 .. 1 + n
  BY <1>4
<1>7. ASSUME NEW k \in DOMAIN EntriesOf(a)
      PROVE  /\ EntriesOf(a)[k].answer = a
             /\ k # 1 => EntriesOf(a)[k].from = "tool" /\ EntriesOf(a)[k].call = k - 1
  <2>1. CASE k = 1
    BY <1>4, <2>1 DEF GptEntry
  <2>2. CASE k # 1
    <3>1. k \in 2 .. 1 + n
      BY <1>6, <2>2
    <3>2. EntriesOf(a)[k] = ToolEntry(a, k - 1)
      BY <1>5, <3>1, Zenon
    <3> QED
      BY <2>2, <3>2 DEF ToolEntry
  <2> QED
    BY <2>1, <2>2
<1> QED
  BY <1>4, <1>7 DEF GptEntry

LEMMA NoTurns == Turns(<<>>) = 0
<1>1. {k \in DOMAIN <<>> : <<>>[k].from = "gpt"} = {}
  OBVIOUS
<1> QED
  BY <1>1, FS_EmptySet DEF Turns

\* An answer with the results of its calls is one turn.
LEMMA OneMoreTurn ==
  ASSUME NEW conv \in Seq(Entry), NEW a \in Answers
  PROVE  /\ conv \o EntriesOf(a) \in Seq(Entry)
         /\ Turns(conv) \in Nat
         /\ Turns(conv \o EntriesOf(a)) = Turns(conv) + 1
         /\ \A k \in DOMAIN (conv \o EntriesOf(a)) :
              \/ k \in DOMAIN conv /\ (conv \o EntriesOf(a))[k] = conv[k]
              \/ (conv \o EntriesOf(a))[k].answer = a
<1> DEFINE new == EntriesOf(a)
           gpt(c) == {k \in DOMAIN c : c[k].from = "gpt"}
<1>1. /\ new \in Seq(Entry) /\ Len(new) \in Nat \ {0} /\ DOMAIN new = 1 .. Len(new)
      /\ new[1].from = "gpt"
      /\ \A k \in DOMAIN new : new[k].answer = a /\ (k # 1 => new[k].from = "tool")
  BY EntriesType
<1> HIDE DEF new
<1>2. /\ conv \o new \in Seq(Entry) /\ Len(conv) \in Nat /\ DOMAIN conv = 1 .. Len(conv)
      /\ DOMAIN (conv \o new) = 1 .. Len(conv) + Len(new)
      /\ \A k \in DOMAIN conv : (conv \o new)[k] = conv[k]
      /\ \A k \in Len(conv) + 1 .. Len(conv) + Len(new) :
           (conv \o new)[k] = new[k - Len(conv)]
  BY <1>1
<1>3. gpt(conv \o new) = gpt(conv) \cup {Len(conv) + 1}
  <2>1. ASSUME NEW k \in Len(conv) + 1 .. Len(conv) + Len(new)
        PROVE  k \in gpt(conv \o new) <=> k = Len(conv) + 1
    <3>1. k - Len(conv) \in DOMAIN new /\ (k - Len(conv) = 1 <=> k = Len(conv) + 1)
      BY <1>1, <1>2
    <3>2. (conv \o new)[k].from = new[k - Len(conv)].from
      BY <1>2
    <3>3. k \in DOMAIN (conv \o new)
      BY <1>1, <1>2
    <3> QED
      BY <1>1, <3>1, <3>2, <3>3
  <2>2. \A k \in DOMAIN conv : k \in gpt(conv \o new) <=> k \in gpt(conv)
    BY <1>1, <1>2
  <2>3. DOMAIN (conv \o new) = DOMAIN conv \cup (Len(conv) + 1 .. Len(conv) + Len(new))
    BY <1>1, <1>2
  <2>4. Len(conv) + 1 \in Len(conv) + 1 .. Len(conv) + Len(new)
    BY <1>1, <1>2
  <2> HIDE DEF gpt
  <2>5. gpt(conv \o new) \subseteq DOMAIN (conv \o new) /\ gpt(conv) \subseteq DOMAIN conv
    BY DEF gpt
  <2> QED
    BY <2>1, <2>2, <2>3, <2>4, <2>5
<1>4. IsFiniteSet(gpt(conv)) /\ Len(conv) + 1 \notin gpt(conv)
  <2>1. gpt(conv) \subseteq 1 .. Len(conv)
    BY <1>2
  <2> HIDE DEF gpt
  <2>2. IsFiniteSet(1 .. Len(conv)) /\ Len(conv) + 1 \notin 1 .. Len(conv)
    BY <1>2, FS_Interval
  <2> QED
    BY <2>1, <2>2, FS_Subset
<1>5. Cardinality(gpt(conv)) \in Nat
      /\ Cardinality(gpt(conv \o new)) = Cardinality(gpt(conv)) + 1
  <2> HIDE DEF gpt
  <2> QED
    BY <1>3, <1>4, FS_AddElement, FS_CardinalityType
<1>6. \A k \in DOMAIN (conv \o new) : \/ k \in DOMAIN conv /\ (conv \o new)[k] = conv[k]
                                      \/ (conv \o new)[k].answer = a
  <2>1. ASSUME NEW k \in DOMAIN (conv \o new), k \notin DOMAIN conv
        PROVE  (conv \o new)[k].answer = a
    <3>1. k \in Len(conv) + 1 .. Len(conv) + Len(new) /\ k - Len(conv) \in DOMAIN new
      BY <1>1, <1>2, <2>1
    <3> QED
      BY <1>1, <1>2, <3>1
  <2> QED
    BY <1>2, <2>1
<1> QED
  BY <1>2, <1>5, <1>6 DEF Turns, new

-----------------------------------------------------------------------------
\* The steps of a driver

DriverTypes ==
  /\ driver \in Driver
  /\ driver.kind = "idle" <=> driver.todo = <<>>
  /\ driver.waiting => driver.kind = "minimal"
  /\ sharegpt \in Seq(ShareGpt)

\* A driver at work has a task at hand.
LEMMA TaskAtHand ==
  ASSUME Typed, driver.kind # "idle"
  PROVE  /\ driver.todo \in Seq(Tasks) /\ Len(driver.todo) \in Nat \ {0}
         /\ Task \in Tasks /\ Task = driver.todo[1]
         /\ Tail(driver.todo) \in Seq(Tasks)
         /\ Len(Tail(driver.todo)) = Len(driver.todo) - 1
         /\ \A i \in DOMAIN Tail(driver.todo) :
              /\ i + 1 \in DOMAIN driver.todo /\ i \in Nat \ {0}
              /\ Tail(driver.todo)[i] = driver.todo[i + 1]
<1>1. driver.todo \in Seq(Tasks) /\ driver.todo # <<>>
  BY DEF Typed, Driver
<1>2. ASSUME NEW t \in Seq(Tasks), t # <<>>
      PROVE  /\ Len(t) \in Nat \ {0} /\ Head(t) \in Tasks /\ Head(t) = t[1]
             /\ Tail(t) \in Seq(Tasks) /\ Len(Tail(t)) = Len(t) - 1
             /\ \A i \in DOMAIN Tail(t) : /\ i + 1 \in DOMAIN t /\ i \in Nat \ {0}
                                          /\ Tail(t)[i] = t[i + 1]
  BY <1>2
<1> QED
  BY <1>1, <1>2, Zenon DEF Task

\* What is left to do after the task at hand is without it.
LEMMA MovesOn ==
  ASSUME Typed, DriverOnTrack, driver.kind # "idle"
  PROVE  /\ Range(Tail(driver.todo)) \subseteq Range(driver.todo) \ {Task}
         /\ \A i, k \in DOMAIN Tail(driver.todo) :
              Tail(driver.todo)[i] = Tail(driver.todo)[k] => i = k
<1> DEFINE tail == Tail(driver.todo)
<1>1. /\ Task = driver.todo[1] /\ 1 \in DOMAIN driver.todo
      /\ \A i \in DOMAIN tail : /\ i + 1 \in DOMAIN driver.todo /\ i \in Nat \ {0}
                                /\ tail[i] = driver.todo[i + 1]
  BY TaskAtHand
<1>2. \A i, k \in DOMAIN driver.todo : driver.todo[i] = driver.todo[k] => i = k
  BY DEF DriverOnTrack
<1> HIDE DEF tail
<1>3. ASSUME NEW i \in DOMAIN tail PROVE tail[i] \in Range(driver.todo) \ {Task}
  <2>1. i + 1 # 1
    BY <1>1
  <2> QED
    BY <1>1, <1>2, <2>1 DEF Range
<1>4. ASSUME NEW i \in DOMAIN tail, NEW k \in DOMAIN tail, tail[i] = tail[k]
      PROVE  i = k
  <2>1. i + 1 = k + 1
    BY <1>1, <1>2, <1>4
  <2> QED
    BY <1>1, <2>1
<1> QED
  BY <1>3, <1>4 DEF tail, Range

\* A task is finished.
LEMMA FinishStep ==
  ASSUME Typed, DriverOnTrack, driver.kind \in {"minimal", "remote"},
         NEW conv \in Seq(Entry), NEW completed \in BOOLEAN, NEW partial \in BOOLEAN,
         FinishTask(conv, completed, partial)
  PROVE  /\ DriverTypes' /\ DriverOnTrack'
         /\ driver'.waiting = FALSE /\ driver'.conv = <<>>
         /\ Range(driver'.todo) \subseteq Range(driver.todo) \ {Task}
         /\ \A i \in DOMAIN sharegpt' : \/ sharegpt'[i].conv = conv
                                        \/ i \in DOMAIN sharegpt /\ sharegpt'[i] = sharegpt[i]
<1> DEFINE rec == [index |-> driver.place, task |-> Task, conv |-> conv,
                   completed |-> completed, partial |-> partial]
           tail == Tail(driver.todo)
<1>1. /\ sharegpt \in Seq(ShareGpt) /\ Len(sharegpt) \in Nat /\ NTasks \in Nat
      /\ driver.place \in Nat /\ driver.place + 1 \in Nat
      /\ Len(sharegpt) + Len(driver.todo) <= NTasks
  BY CaptureAssumption DEF Typed, Driver, DriverOnTrack
<1>2. /\ tail \in Seq(Tasks) /\ Len(tail) = Len(driver.todo) - 1 /\ Task \in Tasks
      /\ Len(driver.todo) \in Nat \ {0}
      /\ Range(tail) \subseteq Range(driver.todo) \ {Task}
      /\ \A i, k \in DOMAIN tail : tail[i] = tail[k] => i = k
  BY TaskAtHand, MovesOn
<1>3. rec \in ShareGpt
  BY <1>1, <1>2 DEF ShareGpt
<1> HIDE DEF rec, tail
<1>4. /\ sharegpt' = Append(sharegpt, rec) /\ sharegpt' \in Seq(ShareGpt)
      /\ Len(sharegpt') = Len(sharegpt) + 1
      /\ \A i \in DOMAIN sharegpt' : \/ i = Len(sharegpt) + 1 /\ sharegpt'[i] = rec
                                     \/ i \in DOMAIN sharegpt /\ sharegpt'[i] = sharegpt[i]
  <2>1. sharegpt' = Append(sharegpt, rec)
    BY DEF FinishTask, rec
  <2> QED
    BY <1>1, <1>3, <2>1
<1>5. Len(sharegpt') <= NTasks /\ Len(sharegpt') + Len(tail) <= NTasks
  <2>1. ASSUME NEW m \in Nat, NEW n \in Nat \ {0}, m + n <= NTasks
        PROVE  m + 1 <= NTasks /\ m + 1 + (n - 1) <= NTasks
    BY <1>1, <2>1
  <2> QED
    BY <1>1, <1>2, <1>4, <2>1
<1>6. /\ driver'.kind = IF tail = <<>> THEN "idle" ELSE driver.kind
      /\ driver'.todo = tail
      /\ driver'.waiting = FALSE /\ driver'.conv = <<>>
      /\ driver' \in Driver
  <2>1. CASE tail = <<>>
    <3>1. driver' = Idle
      BY <2>1 DEF FinishTask, tail
    <3> QED
      BY <2>1, <3>1 DEF Idle, Driver
  <2>2. CASE tail # <<>>
    <3>1. driver' = [kind |-> driver.kind, todo |-> tail, place |-> driver.place + 1,
                     conv |-> <<>>, waiting |-> FALSE]
      BY <2>2 DEF FinishTask, Idle, tail
    <3> QED
      BY <1>1, <1>2, <2>2, <3>1 DEF Driver
  <2> QED
    BY <2>1, <2>2
<1>7. DriverTypes'
  BY <1>4, <1>6 DEF DriverTypes
<1>8. DriverOnTrack'
  <2>1. Turns(driver'.conv) < MaxSteps
    BY <1>6, NoTurns, CaptureAssumption
  <2>2. driver'.kind \in {"minimal", "remote"} =>
          /\ Len(sharegpt') + Len(driver'.todo) <= NTasks
          /\ Turns(driver'.conv) < MaxSteps
    BY <1>5, <1>6, <2>1
  <2> QED
    BY <1>2, <1>5, <1>6, <2>2 DEF DriverOnTrack, Turns
<1> QED
  BY <1>2, <1>4, <1>6, <1>7, <1>8 DEF rec

\* A driver takes an answer in and goes on with the task, or finishes it.
LEMMA ConsumeStep ==
  ASSUME Typed, DriverOnTrack, driver.kind \in {"minimal", "remote"},
         NEW a \in Answers, Consume(a)
  PROVE  /\ DriverTypes' /\ DriverOnTrack'
         /\ driver'.waiting = FALSE
         /\ Range(driver'.todo) \subseteq Range(driver.todo)
         /\ \A k \in DOMAIN driver'.conv :
              \/ driver'.conv[k].answer = a
              \/ k \in DOMAIN driver.conv /\ driver'.conv[k] = driver.conv[k]
         /\ \A i \in DOMAIN sharegpt' :
              \/ i \in DOMAIN sharegpt /\ sharegpt'[i] = sharegpt[i]
              \/ \A k \in DOMAIN sharegpt'[i].conv :
                   \/ sharegpt'[i].conv[k].answer = a
                   \/ /\ k \in DOMAIN driver.conv
                      /\ sharegpt'[i].conv[k] = driver.conv[k]
<1> DEFINE conv == driver.conv \o EntriesOf(a)
<1>1. /\ driver.conv \in Seq(Entry) /\ driver.todo \in Seq(Tasks) /\ driver \in Driver
      /\ MaxSteps \in Nat /\ Turns(driver.conv) < MaxSteps
  BY CaptureAssumption DEF Typed, Driver, DriverOnTrack
<1>2. /\ conv \in Seq(Entry) /\ Turns(driver.conv) \in Nat
      /\ Turns(conv) = Turns(driver.conv) + 1
      /\ \A k \in DOMAIN conv : \/ k \in DOMAIN driver.conv /\ conv[k] = driver.conv[k]
                                \/ conv[k].answer = a
  BY <1>1, OneMoreTurn
<1> HIDE DEF conv
<1>3. CASE a.calls = 0 \/ Turns(conv) = MaxSteps
  <2>1. FinishTask(conv, a.calls = 0, FALSE)
    BY <1>3 DEF Consume, conv
  <2>2. (a.calls = 0) \in BOOLEAN
    OBVIOUS
  <2>3. /\ DriverTypes' /\ DriverOnTrack'
        /\ driver'.waiting = FALSE /\ driver'.conv = <<>>
        /\ Range(driver'.todo) \subseteq Range(driver.todo) \ {Task}
        /\ \A i \in DOMAIN sharegpt' : \/ sharegpt'[i].conv = conv
                                       \/ i \in DOMAIN sharegpt /\ sharegpt'[i] = sharegpt[i]
    BY <1>2, <2>1, <2>2, FinishStep
  <2> QED
    BY <1>2, <2>3
<1>4. CASE ~ (a.calls = 0 \/ Turns(conv) = MaxSteps)
  <2>1. /\ driver' = [driver EXCEPT !.conv = conv, !.waiting = FALSE]
        /\ sharegpt' = sharegpt
    BY <1>4 DEF Consume, conv
  <2>2. /\ driver' \in Driver /\ driver'.conv = conv /\ driver'.waiting = FALSE
        /\ driver'.kind = driver.kind /\ driver'.todo = driver.todo
    BY <1>1, <1>2, <2>1 DEF Driver
  <2>3. DriverTypes'
    BY <2>1, <2>2 DEF Typed, DriverTypes
  <2>4. Turns(driver'.conv) < MaxSteps
    BY <1>1, <1>2, <1>4, <2>2
  <2>5. DriverOnTrack'
    BY <2>1, <2>2, <2>4 DEF DriverOnTrack, Turns
  <2> QED
    BY <1>2, <2>1, <2>2, <2>3, <2>5
<1> QED
  BY <1>3, <1>4

\* The list a driver starts with: each task once, and at least one.
LEMMA StartList ==
  ASSUME NEW todo, todo \in TaskChoices \/ todo = [t \in Tasks |-> t]
  PROVE  /\ todo \in Seq(Tasks) /\ todo # <<>> /\ Len(todo) <= NTasks
         /\ \A i, k \in DOMAIN todo : todo[i] = todo[k] => i = k
<1>1. NTasks \in Nat \ {0} /\ Tasks = 1 .. NTasks
  BY CaptureAssumption DEF Tasks
<1>2. CASE todo = [t \in 1 .. NTasks |-> t]
  <2>1. todo \in [1 .. NTasks -> Tasks]
    BY <1>1, <1>2
  <2>2. todo \in Seq(Tasks) /\ Len(todo) = NTasks
    BY <1>1, <2>1, SeqDef
  <2>3. \A i, k \in DOMAIN todo : todo[i] = todo[k] => i = k
    BY <1>2
  <2> QED
    BY <1>1, <2>2, <2>3
<1>3. ASSUME NEW t \in 1 .. NTasks, todo = <<t>>
      PROVE  /\ todo \in Seq(Tasks) /\ todo # <<>> /\ Len(todo) <= NTasks
             /\ \A i, k \in DOMAIN todo : todo[i] = todo[k] => i = k
  BY <1>1, <1>3
<1> QED
  BY <1>1, <1>2, <1>3, CaptureAssumption

\* A driver or the runner is started.
LEMMA StartStep ==
  ASSUME Typed, DriverOnTrack, NEW k \in {"minimal", "remote", "runner"}, NEW list,
         list \in TaskChoices \/ list = [t \in Tasks |-> t],
         driver' = [Idle EXCEPT !.kind = k, !.place = 1, !.todo = list],
         IF k = "runner" THEN sharegpt' = sharegpt ELSE sharegpt' = <<>>
  PROVE  /\ DriverTypes' /\ DriverOnTrack'
         /\ driver'.waiting = FALSE /\ driver'.conv = <<>>
         /\ \A i \in DOMAIN sharegpt' : i \in DOMAIN sharegpt /\ sharegpt'[i] = sharegpt[i]
<1>1. /\ list \in Seq(Tasks) /\ list # <<>> /\ Len(list) <= NTasks /\ Len(list) \in Nat
      /\ \A i, m \in DOMAIN list : list[i] = list[m] => i = m
      /\ NTasks \in Nat /\ MaxSteps \in Nat \ {0}
  BY StartList, CaptureAssumption
<1>2. /\ driver' \in Driver /\ driver'.kind = k /\ driver'.todo = list
      /\ driver'.waiting = FALSE /\ driver'.conv = <<>>
  <2>1. driver' = [kind |-> k, todo |-> list, place |-> 1,
                   conv |-> <<>>, waiting |-> FALSE]
    BY DEF Idle
  <2>2. [kind |-> k, todo |-> list, place |-> 1,
         conv |-> <<>>, waiting |-> FALSE] \in Driver
    BY <1>1 DEF Driver
  <2>3. driver' \in Driver
    BY <2>1, <2>2, Zenon
  <2> QED
    BY <2>1, <2>3 DEF Idle
<1>3. /\ sharegpt' \in Seq(ShareGpt) /\ Len(sharegpt') <= NTasks
      /\ k # "runner" => Len(sharegpt') = 0
      /\ \A i \in DOMAIN sharegpt' : i \in DOMAIN sharegpt /\ sharegpt'[i] = sharegpt[i]
  <2>1. CASE sharegpt' = sharegpt /\ k = "runner"
    BY <2>1 DEF Typed, DriverOnTrack
  <2>2. CASE sharegpt' = <<>>
    BY <1>1, <2>2
  <2> QED
    BY <2>1, <2>2
<1>4. DriverTypes'
  BY <1>1, <1>2, <1>3 DEF DriverTypes
<1>5. Turns(driver'.conv) < MaxSteps
  BY <1>1, <1>2, NoTurns
<1>6. DriverOnTrack'
  BY <1>1, <1>2, <1>3, <1>5 DEF DriverOnTrack, Turns
<1> QED
  BY <1>2, <1>3, <1>4, <1>6

\* The runner goes on to the next task, or ends.
LEMMA RunnerStep ==
  ASSUME Typed, DriverOnTrack, driver.kind = "runner",
         RunnerMovesOn \/ driver' = Idle, sharegpt' = sharegpt
  PROVE  /\ DriverTypes' /\ DriverOnTrack'
         /\ driver'.waiting = FALSE
         /\ Range(driver'.todo) \subseteq Range(driver.todo)
         /\ driver'.conv \in {driver.conv, <<>>}
<1> DEFINE tail == Tail(driver.todo)
<1>1. /\ tail \in Seq(Tasks) /\ Range(tail) \subseteq Range(driver.todo)
      /\ \A i, k \in DOMAIN tail : tail[i] = tail[k] => i = k
      /\ driver \in Driver /\ sharegpt \in Seq(ShareGpt) /\ Len(sharegpt) <= NTasks
      /\ driver.waiting = FALSE
  BY TaskAtHand, MovesOn DEF Typed, Driver, DriverOnTrack
<1> HIDE DEF tail
<1>2. CASE driver' = Idle
  <2>1. /\ driver' \in Driver /\ driver'.kind = "idle" /\ driver'.todo = <<>>
        /\ driver'.waiting = FALSE /\ driver'.conv = <<>>
    BY <1>2 DEF Idle, Driver
  <2> QED
    BY <1>1, <2>1 DEF DriverTypes, DriverOnTrack, Range
<1>3. CASE driver' # Idle
  <2>1. driver' = [driver EXCEPT !.todo = tail, !.place = @ + 1] /\ tail # <<>>
    BY <1>3 DEF RunnerMovesOn, tail
  <2>2. driver.place + 1 \in Nat
    BY <1>1 DEF Driver
  <2>3. /\ driver' \in Driver /\ driver'.kind = "runner" /\ driver'.todo = tail
        /\ driver'.waiting = FALSE /\ driver'.conv = driver.conv
    BY <1>1, <2>1, <2>2 DEF Driver
  <2> QED
    BY <1>1, <2>1, <2>3 DEF DriverTypes, DriverOnTrack
<1> QED
  BY <1>2, <1>3

\* A driver is killed; the file may lose its last records.
LEMMA CrashStep ==
  ASSUME Typed, DriverOnTrack, DriverCrash
  PROVE  /\ DriverTypes' /\ DriverOnTrack'
         /\ driver'.waiting = FALSE /\ driver'.conv = <<>> /\ driver'.todo = <<>>
         /\ \A i \in DOMAIN sharegpt' : i \in DOMAIN sharegpt /\ sharegpt'[i] = sharegpt[i]
<1>1. sharegpt \in Seq(ShareGpt) /\ Len(sharegpt) \in Nat /\ Len(sharegpt) <= NTasks
      /\ NTasks \in Nat
  BY CaptureAssumption DEF Typed, DriverOnTrack
<1>2. PICK n \in 0 .. Len(sharegpt) : sharegpt' = SubSeq(sharegpt, 1, n)
  BY <1>1 DEF DriverCrash
<1>3. /\ sharegpt' \in Seq(ShareGpt) /\ Len(sharegpt') = n
      /\ \A i \in DOMAIN sharegpt' : i \in DOMAIN sharegpt /\ sharegpt'[i] = sharegpt[i]
  BY <1>1, <1>2
<1>4. /\ driver' \in Driver /\ driver'.kind = "idle" /\ driver'.todo = <<>>
      /\ driver'.waiting = FALSE /\ driver'.conv = <<>>
  BY DEF DriverCrash, Idle, Driver
<1>5. Len(sharegpt') <= NTasks
  BY <1>1, <1>3
<1> QED
  BY <1>3, <1>4, <1>5 DEF DriverTypes, DriverOnTrack

-----------------------------------------------------------------------------
\* The sidecar

SidecarTypes ==
  /\ sidecar \in Seq(Probe)
  /\ \A i \in DOMAIN sidecar : /\ sidecar[i].answer.probes
                              /\ sidecar[i].turn = sidecar[i].answer.turn

SidecarGrows == \A i \in DOMAIN sidecar : i \in DOMAIN sidecar' /\ sidecar'[i] = sidecar[i]

\* A record that is appended is there, with all that were there before.
LEMMA Recorded ==
  ASSUME SidecarTypes, NEW a \in Answers, NEW key \in {"hash", "index"} \X Nat,
         sidecar' = sidecar \o SidecarRecords(key, a)
  PROVE  SidecarTypes' /\ SidecarGrows /\ InSidecar(a)'
<1> DEFINE rec == [key |-> key, turn |-> a.turn, answer |-> a]
<1>1. rec \in Probe /\ rec.answer = a /\ rec.turn = a.turn
  BY CaptureAssumption DEF Probe, Answers
<1> HIDE DEF rec
<1>2. CASE a.probes
  <2>1. sidecar' = sidecar \o <<rec>>
    BY <1>2 DEF SidecarRecords, rec
  <2>2. /\ sidecar' \in Seq(Probe)
        /\ DOMAIN sidecar' = DOMAIN sidecar \cup {Len(sidecar) + 1}
        /\ Len(sidecar) + 1 \in DOMAIN sidecar'
        /\ sidecar'[Len(sidecar) + 1] = rec
        /\ \A i \in DOMAIN sidecar : sidecar'[i] = sidecar[i]
    BY <1>1, <2>1 DEF SidecarTypes
  <2>3. SidecarTypes'
    BY <1>1, <1>2, <2>2 DEF SidecarTypes
  <2>4. SidecarGrows
    BY <2>2 DEF SidecarGrows
  <2>5. InSidecar(a)'
    BY <1>1, <2>2 DEF InSidecar
  <2> QED
    BY <2>3, <2>4, <2>5
<1>3. CASE ~ a.probes
  <2>1. sidecar' = sidecar
    BY <1>3 DEF SidecarRecords, SidecarTypes
  <2> QED
    BY <1>3, <2>1 DEF SidecarTypes, SidecarGrows, InSidecar
<1> QED
  BY <1>2, <1>3

\* The next answer to a driver is one the model server may give.
LEMMA NextTurn ==
  ASSUME Typed, DriverOnTrack, driver.kind \in {"minimal", "remote"}
  PROVE  /\ run \in 1 .. MaxRuns /\ Task \in Tasks
         /\ Turns(driver.conv) \in 0 .. MaxSteps - 1
         /\ driver.conv \in Seq(Entry)
<1>1. driver.conv \in Seq(Entry) /\ Turns(driver.conv) < MaxSteps /\ MaxSteps \in Nat
  BY CaptureAssumption DEF Typed, Driver, DriverOnTrack
<1>2. Turns(driver.conv) \in Nat
  <2>1. IsFiniteSet(1 .. Len(driver.conv)) /\ DOMAIN driver.conv = 1 .. Len(driver.conv)
    BY <1>1, FS_Interval
  <2>2. {k \in DOMAIN driver.conv : driver.conv[k].from = "gpt"} \subseteq DOMAIN driver.conv
    OBVIOUS
  <2> QED
    BY <2>1, <2>2, FS_Subset, FS_CardinalityType DEF Turns
<1>3. run \in 1 .. MaxRuns
  BY CaptureAssumption DEF Typed
<1> QED
  BY <1>1, <1>2, <1>3, TaskAtHand

-----------------------------------------------------------------------------
\* Types

\* The files of a merge keep their types, whatever it does.
LEMMA MergeTypes ==
  ASSUME Typed, StartMerge \/ WriteTrajectory \/ MergeCrash
  PROVE  /\ merging' \in Seq(Range(merging'))
         /\ \A i \in DOMAIN merging' : merging'[i].task \in Tasks
         /\ DOMAIN trajectories' = Tasks
<1>0. ASSUME NEW n \in Nat, NEW f, f = [i \in 1 .. n |-> f[i]]
      PROVE  f \in Seq(Range(f))
  <2>1. f \in [1 .. n -> Range(f)]
    BY <1>0 DEF Range
  <2> QED
    BY <2>1, SeqDef
<1>1. CASE StartMerge
  <2>1. Len(sharegpt) \in Nat /\ DOMAIN sharegpt = 1 .. Len(sharegpt) /\ Len(sharegpt) = NTasks
    BY <1>1 DEF StartMerge, MayMerge, Typed
  <2>2. merging' = [i \in DOMAIN sharegpt |-> [task |-> i, file |-> Adapt(sharegpt[i])]]
        /\ trajectories' = trajectories
    BY <1>1 DEF StartMerge
  <2>3. merging' \in Seq(Range(merging'))
    BY <1>0, <2>1, <2>2
  <2> QED
    BY <2>1, <2>2, <2>3 DEF Typed, Tasks
<1>2. CASE WriteTrajectory
  <2>1. /\ merging \in Seq(Range(merging)) /\ merging # <<>>
        /\ Len(merging) \in Nat \ {0} /\ DOMAIN merging = 1 .. Len(merging)
    BY <1>2 DEF Typed, WriteTrajectory
  <2>2. /\ merging' = Tail(merging) /\ DOMAIN trajectories' = DOMAIN trajectories
    BY <1>2 DEF WriteTrajectory
  <2>3. merging' = [i \in 1 .. Len(merging) - 1 |-> merging[i + 1]]
    <3>1. ASSUME NEW S, NEW m \in Seq(S), m # <<>>
          PROVE  Tail(m) = [i \in 1 .. Len(m) - 1 |-> m[i + 1]]
      <4>1. Len(m) \in Nat \ {0}
        BY <3>1
      <4>2. /\ Tail(m) \in Seq(S) /\ Len(Tail(m)) = Len(m) - 1
            /\ \A i \in 1 .. Len(m) - 1 : Tail(m)[i] = m[i + 1]
        BY <3>1
      <4>3. Tail(m) \in [1 .. Len(m) - 1 -> S]
        BY <4>2, LenProperties
      <4> QED
        BY <4>2, <4>3
    <3> QED
      BY <2>1, <2>2, <3>1
  <2>4. merging' \in Seq(Range(merging'))
    BY <1>0, <2>1, <2>3
  <2>5. \A i \in 1 .. Len(merging) - 1 : i + 1 \in DOMAIN merging
    BY <2>1
  <2> QED
    BY <2>2, <2>3, <2>4, <2>5 DEF Typed
<1>3. CASE MergeCrash
  <2>1. merging' = <<>> /\ DOMAIN trajectories' = DOMAIN trajectories
    BY <1>3 DEF MergeCrash
  <2> QED
    BY <2>1 DEF Typed
<1> QED
  BY <1>1, <1>2, <1>3

\* The runner writes files of its tasks and no others.
LEMMA RunnerTypes ==
  ASSUME Typed, RunnerLeavesTask \/ RunnerWrites \/ RunnerCrash
  PROVE  DOMAIN trajectories' = Tasks
BY DEF RunnerLeavesTask, RunnerWrites, RunnerCrash, Typed

LEMMA RequestTypes ==
  ASSUME Typed, DriverOnTrack,
         \/ SendThroughProxy \/ UpstreamAnswers \/ Capture \/ Receive
         \/ UpstreamFails \/ TimeOut \/ DriverCrash
  PROVE  requests' \subseteq Request
<1>1. requests \subseteq Request
  BY DEF Typed
<1>2. CASE SendThroughProxy
  <2>1. /\ run \in 1 .. MaxRuns /\ Task \in Tasks
        /\ Turns(driver.conv) \in 0 .. MaxSteps - 1
    BY <1>2, NextTurn DEF SendThroughProxy
  <2>2. [run |-> run, task |-> Task, turn |-> Turns(driver.conv),
         answer |-> Absent, captured |-> FALSE] \in Request
    BY <2>1 DEF Request
  <2> QED
    BY <1>1, <1>2, <2>2 DEF SendThroughProxy
<1>3. CASE UpstreamAnswers
  <2>1. PICK q \in requests : \E a \in PossibleAnswers(q.run, q.task, q.turn) :
          requests' = (requests \ {q}) \cup {[q EXCEPT !.answer = a]}
    BY <1>3 DEF UpstreamAnswers
  <2>2. PICK a \in PossibleAnswers(q.run, q.task, q.turn) :
          requests' = (requests \ {q}) \cup {[q EXCEPT !.answer = a]}
    BY <2>1
  <2>3. q \in Request
    BY <1>1
  <2>4. a \in Answers
    BY <2>3 DEF PossibleAnswers, Answers, Request
  <2>5. [q EXCEPT !.answer = a] \in Request
    BY <2>3, <2>4 DEF Request
  <2> QED
    BY <1>1, <2>2, <2>5
<1>4. CASE Capture
  <2>1. PICK q \in requests : requests' = (requests \ {q}) \cup
          IF q \in MyRequest THEN {[q EXCEPT !.captured = TRUE]} ELSE {}
    BY <1>4 DEF Capture
  <2>2. [q EXCEPT !.captured = TRUE] \in Request
    BY <1>1 DEF Request
  <2> QED
    BY <1>1, <2>1, <2>2
<1> QED
  BY <1>1, <1>2, <1>3, <1>4 DEF Receive, UpstreamFails, TimeOut, DriverCrash

\* A captured answer is an answer.
LEMMA AnswerTypes ==
  ASSUME Typed, NEW q \in requests, q.answer # Absent
  PROVE  q.answer \in Answers /\ q.task \in Nat
BY CaptureAssumption DEF Typed, Request, Tasks

LEMMA Waiting ==
  ASSUME Typed, MyRequest # {}
  PROVE  driver.kind = "minimal" /\ driver.waiting
BY DEF Typed, MyRequest

LEMMA TypesInductive == CaptureInv /\ [Next]_vars => Typed' /\ DriverOnTrack'
<1> SUFFICES ASSUME Typed, DriverOnTrack, OneRequest, CapturedFirst, [Next]_vars
             PROVE  Typed' /\ DriverOnTrack'
  BY DEF CaptureInv
<1> USE DEF SidecarGrows
<1>1. /\ DriverTypes /\ SidecarTypes /\ run \in 0 .. MaxRuns /\ requests \subseteq Request
      /\ driver.kind # "idle" => run # 0
      /\ merging \in Seq(Range(merging)) /\ \A i \in DOMAIN merging : merging[i].task \in Tasks
      /\ DOMAIN trajectories = Tasks
      /\ MaxRuns \in Nat
  BY CaptureAssumption DEF Typed, DriverTypes, SidecarTypes
<1>2. ASSUME UNCHANGED <<driver, sharegpt>> PROVE DriverTypes' /\ DriverOnTrack'
  BY <1>1, <1>2 DEF DriverTypes, DriverOnTrack, Turns
<1>3. ASSUME UNCHANGED sidecar PROVE SidecarTypes'
  BY <1>1, <1>3 DEF SidecarTypes
<1>4. ASSUME UNCHANGED <<merging, trajectories>>
      PROVE  /\ merging' \in Seq(Range(merging'))
             /\ \A i \in DOMAIN merging' : merging'[i].task \in Tasks
             /\ DOMAIN trajectories' = Tasks
  BY <1>1, <1>4
<1>5. ASSUME DriverTypes', SidecarTypes', run' \in 0 .. MaxRuns, requests' \subseteq Request,
             driver'.kind # "idle" => run' # 0,
             merging' \in Seq(Range(merging')),
             \A i \in DOMAIN merging' : merging'[i].task \in Tasks,
             DOMAIN trajectories' = Tasks
      PROVE  Typed'
  BY <1>5 DEF DriverTypes, SidecarTypes, Typed
<1>6. CASE UNCHANGED vars
  BY <1>1, <1>2, <1>3, <1>4, <1>5, <1>6 DEF vars
<1>7. ASSUME NEW kind \in {"minimal", "remote"}, NEW chosen \in TaskChoices,
             StartDriver(kind, chosen)
      PROVE  Typed' /\ DriverOnTrack'
  <2>1. DriverTypes' /\ DriverOnTrack'
    BY <1>7, StartStep DEF StartDriver
  <2>2. run' \in 0 .. MaxRuns /\ run' # 0
    BY <1>1, <1>7 DEF StartDriver
  <2> QED
    BY <1>1, <1>3, <1>4, <1>5, <1>7, <2>1, <2>2 DEF StartDriver
<1>8. CASE StartRunner
  <2>1. DriverTypes' /\ DriverOnTrack'
    BY <1>8, StartStep DEF StartRunner
  <2>2. run' \in 0 .. MaxRuns /\ run' # 0
    BY <1>1, <1>8 DEF StartRunner
  <2> QED
    BY <1>1, <1>3, <1>4, <1>5, <1>8, <2>1, <2>2 DEF StartRunner
<1>9. CASE SendThroughProxy
  <2>1. /\ driver' \in Driver /\ driver'.kind = driver.kind /\ driver'.todo = driver.todo
        /\ driver'.conv = driver.conv /\ driver.kind = "minimal"
    BY <1>1, <1>9 DEF SendThroughProxy, DriverTypes, Driver
  <2>2. DriverTypes' /\ DriverOnTrack'
    BY <1>1, <1>9, <2>1 DEF SendThroughProxy, DriverTypes, DriverOnTrack, Turns
  <2> QED
    BY <1>1, <1>3, <1>4, <1>5, <1>9, <2>1, <2>2, RequestTypes DEF SendThroughProxy
<1>10. CASE UpstreamAnswers
  BY <1>1, <1>2, <1>3, <1>4, <1>5, <1>10, RequestTypes DEF UpstreamAnswers
<1>11. CASE Capture
  <2>1. PICK q \in requests : /\ q.answer # Absent
                              /\ sidecar' = sidecar \o SidecarRecords(<<"hash", q.task>>, q.answer)
    BY <1>11 DEF Capture
  <2>2. SidecarTypes'
    BY <1>1, <2>1, AnswerTypes, Recorded
  <2> QED
    BY <1>1, <1>2, <1>4, <1>5, <1>11, <2>2, RequestTypes DEF Capture
<1>12. CASE Receive
  <2>1. PICK q \in MyRequest : q.captured /\ Consume(q.answer)
    BY <1>12 DEF Receive, MayPassOn
  <2>2. driver.kind = "minimal" /\ q.answer \in Answers
    BY <2>1, Waiting, AnswerTypes DEF MyRequest, CapturedFirst
  <2>3. DriverTypes' /\ DriverOnTrack'
    BY <2>1, <2>2, ConsumeStep
  <2> QED
    BY <1>1, <1>3, <1>4, <1>5, <1>12, <2>2, <2>3, RequestTypes DEF Receive
<1>13. CASE UpstreamFails \/ TimeOut
  <2>1. driver.kind = "minimal" /\ driver.conv \in Seq(Entry)
    BY <1>13, Waiting, NextTurn DEF UpstreamFails, TimeOut
  <2>2. FinishTask(driver.conv, FALSE, TRUE)
    BY <1>13 DEF UpstreamFails, TimeOut
  <2>3. DriverTypes' /\ DriverOnTrack'
    BY <2>1, <2>2, FinishStep
  <2> QED
    BY <1>1, <1>3, <1>4, <1>5, <1>13, <2>1, <2>3, RequestTypes DEF UpstreamFails, TimeOut
<1>14. CASE AskDirectly
  <2>1. PICK a \in PossibleAnswers(run, Task, Turns(driver.conv)) :
          /\ sidecar' = sidecar \o SidecarRecords(<<"index", driver.place>>, a)
          /\ Consume(a)
    BY <1>14 DEF AskDirectly
  <2>2. a \in Answers /\ driver.kind = "remote" /\ driver.place \in Nat
    BY <1>1, <1>14, NextTurn DEF AskDirectly, PossibleAnswers, Answers, DriverTypes, Driver
  <2>3. SidecarTypes'
    BY <1>1, <2>1, <2>2, Recorded
  <2>4. DriverTypes' /\ DriverOnTrack'
    BY <2>1, <2>2, ConsumeStep
  <2> QED
    BY <1>1, <1>4, <1>5, <1>14, <2>2, <2>3, <2>4 DEF AskDirectly
<1>15. CASE DirectRequestFails
  <2>1. driver.kind = "remote" /\ driver.conv \in Seq(Entry)
    BY <1>15, NextTurn DEF DirectRequestFails
  <2>2. DriverTypes' /\ DriverOnTrack'
    BY <1>15, <2>1, FinishStep DEF DirectRequestFails
  <2> QED
    BY <1>1, <1>3, <1>4, <1>5, <1>15, <2>1, <2>2 DEF DirectRequestFails
<1>16. CASE DriverCrash
  <2>1. DriverTypes' /\ DriverOnTrack' /\ driver'.kind = "idle"
    BY <1>16, CrashStep DEF DriverCrash, Idle
  <2> QED
    BY <1>1, <1>3, <1>4, <1>5, <1>16, <2>1, RequestTypes DEF DriverCrash
<1>17. CASE StartMerge \/ WriteTrajectory \/ MergeCrash
  BY <1>1, <1>2, <1>3, <1>5, <1>17, MergeTypes DEF StartMerge, WriteTrajectory, MergeCrash
<1>18. CASE RunnerLeavesTask \/ RunnerWrites \/ RunnerCrash
  <2>1. driver.kind = "runner" /\ sharegpt' = sharegpt /\ (RunnerMovesOn \/ driver' = Idle)
    BY <1>18 DEF RunnerLeavesTask, RunnerWrites, RunnerCrash
  <2>2. DriverTypes' /\ DriverOnTrack'
    BY <2>1, RunnerStep
  <2> QED
    BY <1>1, <1>3, <1>5, <1>18, <2>1, <2>2, RunnerTypes
       DEF RunnerLeavesTask, RunnerWrites, RunnerCrash
<1> QED
  BY <1>6, <1>7, <1>8, <1>9, <1>10, <1>11, <1>12, <1>13, <1>14, <1>15, <1>16, <1>17, <1>18
     DEF Next

-----------------------------------------------------------------------------
\* Requests

\* A driver that stops waiting leaves no request of a task it has yet to do.
LEMMA StopsWaiting ==
  ASSUME OneRequest, run' = run, driver'.waiting = FALSE,
         Range(driver'.todo) \subseteq Range(driver.todo),
         requests' \subseteq requests,
         \A q \in requests' : q \in MyRequest =>
           q.captured = FALSE /\ q.task \notin Range(driver'.todo)
  PROVE  OneRequest'
<1>1. MyRequest' = {}
  BY DEF MyRequest
<1>2. ASSUME NEW q \in requests'
      PROVE  /\ q.run <= run'
             /\ RightAnswer(q)
             /\ ~ (q.run = run' /\ q.task \in Range(driver'.todo))
             /\ ~ q.captured
  BY DEF OneRequest
<1> QED
  BY <1>1, <1>2 DEF OneRequest

\* A new run knows no request of its own, and captured ones went with the last.
LEMMA StartsAfresh ==
  ASSUME Typed, OneRequest, driver = Idle, run' = run + 1, driver'.waiting = FALSE,
         requests' = requests
  PROVE  OneRequest'
<1>1. MyRequest = {} /\ MyRequest' = {}
  BY DEF MyRequest, Idle
<1>2. run \in Nat /\ \A q \in requests : q.run \in Nat
  BY CaptureAssumption DEF Typed, Request
<1>3. ASSUME NEW q \in requests
      PROVE  /\ q.run <= run' /\ q.run # run'
             /\ RightAnswer(q)
             /\ ~ q.captured
  <2>1. q.run <= run
    BY DEF OneRequest
  <2> QED
    BY <1>1, <1>2, <2>1 DEF OneRequest
<1> QED
  BY <1>1, <1>3 DEF OneRequest

\* A request is answered or captured; it stays the same request.
LEMMA RequestMoves ==
  ASSUME OneRequest, UNCHANGED <<run, driver>>, NEW q \in requests, NEW r,
         requests' = (requests \ {q}) \cup {r},
         r.run = q.run, r.task = q.task, r.turn = q.turn,
         RightAnswer(r),
         r.captured => q \in MyRequest
  PROVE  OneRequest'
<1>1. /\ q \in MyRequest => r \in MyRequest'
      /\ r \in MyRequest' => q \in MyRequest
  BY DEF MyRequest, Task
<1>2. \A p \in requests \ {q} : p \in MyRequest <=> p \in MyRequest'
  BY DEF MyRequest, Task
<1>3. MyRequest' \subseteq requests'
  BY DEF MyRequest
<1>4. ASSUME NEW p \in MyRequest', NEW u \in MyRequest' PROVE p = u
  <2>1. \A x, y \in MyRequest : x = y
    BY DEF OneRequest
  <2> QED
    BY <1>1, <1>2, <1>3, <2>1
<1>5. ASSUME NEW p \in requests'
      PROVE  /\ p.run <= run'
             /\ RightAnswer(p)
             /\ p.run = run' /\ p.task \in Range(driver'.todo) => p \in MyRequest'
             /\ p.captured => p \in MyRequest'
  <2>1. CASE p = r
    BY <1>1, <2>1 DEF OneRequest
  <2>2. CASE p \in requests \ {q}
    BY <1>2, <2>2 DEF OneRequest
  <2> QED
    BY <2>1, <2>2
<1> QED
  BY <1>4, <1>5 DEF OneRequest

LEMMA RequestsInductive == CaptureInv /\ [Next]_vars => OneRequest'
<1> SUFFICES ASSUME Typed, DriverOnTrack, OneRequest, CapturedFirst, [Next]_vars
             PROVE  OneRequest'
  BY DEF CaptureInv
<1>1. ASSUME UNCHANGED <<run, driver, requests>> PROVE OneRequest'
  <2>1. MyRequest' = MyRequest
    BY <1>1 DEF MyRequest, Task
  <2> QED
    BY <1>1, <2>1 DEF OneRequest
<1>2. ASSUME NEW kind \in {"minimal", "remote"}, NEW chosen \in TaskChoices,
             StartDriver(kind, chosen)
      PROVE  OneRequest'
  BY <1>2, StartStep, StartsAfresh DEF StartDriver
<1>3. CASE StartRunner
  BY <1>3, StartStep, StartsAfresh DEF StartRunner
<1>4. CASE SendThroughProxy
  <2> DEFINE r == [run |-> run, task |-> Task, turn |-> Turns(driver.conv),
                   answer |-> Absent, captured |-> FALSE]
  <2>1. /\ requests' = requests \cup {r} /\ run' = run
        /\ driver'.todo = driver.todo /\ driver'.conv = driver.conv
        /\ driver'.waiting = TRUE
        /\ MyRequest = {}
    BY <1>4 DEF SendThroughProxy, MyRequest, Typed, Driver
  <2>2. r \in MyRequest' /\ Task' = Task /\ Turns(driver.conv)' = Turns(driver.conv)
    BY <2>1 DEF MyRequest, Task, Turns
  <2>3. run \in Nat /\ Task \in Range(driver.todo)
    <3>1. Task = driver.todo[1] /\ 1 \in DOMAIN driver.todo
      BY <1>4, TaskAtHand DEF SendThroughProxy
    <3> QED
      BY <3>1, CaptureAssumption DEF Typed, Range
  <2>4. ASSUME NEW q \in requests
        PROVE  /\ q.run <= run /\ ~ q.captured
               /\ ~ (q.run = run /\ q.task \in Range(driver.todo))
               /\ RightAnswer(q)
    BY <2>1 DEF OneRequest
  <2>5. MyRequest' = {r}
    <3>1. \A q \in MyRequest' : q \in requests' /\ q.run = run /\ q.task = Task
      BY <2>1, <2>2 DEF MyRequest
    <3>2. requests' = requests \cup {r} /\ r \in MyRequest'
      BY <2>1, <2>2
    <3> HIDE DEF r
    <3>3. \A q \in MyRequest' : q \notin requests
      BY <2>3, <2>4, <3>1
    <3> QED
      BY <3>1, <3>2, <3>3
  <2>6. r.run = run /\ r.answer = Absent /\ r.captured = FALSE
    OBVIOUS
  <2> HIDE DEF r
  <2> QED
    BY <2>1, <2>3, <2>4, <2>5, <2>6 DEF OneRequest, RightAnswer
<1>5. CASE UpstreamAnswers
  <2>1. PICK q \in requests : /\ q.answer = Absent
                              /\ \E a \in PossibleAnswers(q.run, q.task, q.turn) :
                                   requests' = (requests \ {q}) \cup {[q EXCEPT !.answer = a]}
    BY <1>5 DEF UpstreamAnswers
  <2>2. PICK a \in PossibleAnswers(q.run, q.task, q.turn) :
          requests' = (requests \ {q}) \cup {[q EXCEPT !.answer = a]}
    BY <2>1
  <2> DEFINE r == [q EXCEPT !.answer = a]
  <2>3. /\ r.run = q.run /\ r.task = q.task /\ r.turn = q.turn /\ r.answer = a
        /\ r.captured = q.captured
    BY DEF Typed, Request
  <2>4. a.run = q.run /\ a.turn = q.turn /\ a.task = q.task
    BY DEF PossibleAnswers
  <2>5. UNCHANGED <<run, driver>>
    BY <1>5 DEF UpstreamAnswers
  <2>6. q.captured => q \in MyRequest
    BY DEF OneRequest
  <2>7. requests' = (requests \ {q}) \cup {r}
    BY <2>2
  <2>8. RightAnswer(r)
    BY <2>3, <2>4 DEF RightAnswer
  <2> HIDE DEF r
  <2> QED
    BY <2>3, <2>5, <2>6, <2>7, <2>8, RequestMoves
<1>6. CASE Capture
  <2>1. PICK q \in requests : /\ q.answer # Absent
                              /\ requests' = (requests \ {q}) \cup
                                   IF q \in MyRequest THEN {[q EXCEPT !.captured = TRUE]} ELSE {}
    BY <1>6 DEF Capture
  <2>2. UNCHANGED <<run, driver>>
    BY <1>6 DEF Capture
  <2>3. CASE q \in MyRequest
    <3> DEFINE r == [q EXCEPT !.captured = TRUE]
    <3>1. r.run = q.run /\ r.task = q.task /\ r.turn = q.turn /\ r.answer = q.answer
      BY DEF Typed, Request
    <3>2. requests' = (requests \ {q}) \cup {r}
      BY <2>1, <2>3
    <3>3. RightAnswer(r)
      BY <3>1 DEF OneRequest, RightAnswer
    <3> HIDE DEF r
    <3> QED
      BY <2>2, <2>3, <3>1, <3>2, <3>3, RequestMoves
  <2>4. CASE q \notin MyRequest
    <3>1. requests' = requests \ {q}
      BY <2>1, <2>4
    <3>2. MyRequest' = MyRequest
      BY <2>2, <2>4, <3>1 DEF MyRequest, Task
    <3> QED
      BY <2>2, <3>1, <3>2 DEF OneRequest
  <2> QED
    BY <2>3, <2>4
<1>7. CASE Receive
  <2>1. PICK q \in MyRequest : q.captured /\ Consume(q.answer) /\ requests' = requests \ {q}
    BY <1>7 DEF Receive, MayPassOn
  <2>2. driver.kind = "minimal" /\ q.answer \in Answers
    BY <2>1, Waiting, AnswerTypes DEF MyRequest, CapturedFirst
  <2>3. driver'.waiting = FALSE /\ Range(driver'.todo) \subseteq Range(driver.todo)
    BY <2>1, <2>2, ConsumeStep
  <2>4. \A p \in requests' : p \notin MyRequest
    BY <2>1 DEF OneRequest
  <2> QED
    BY <1>7, <2>1, <2>3, <2>4, StopsWaiting DEF Receive
<1>8. CASE UpstreamFails \/ TimeOut
  <2>1. driver.kind = "minimal" /\ driver.conv \in Seq(Entry)
    BY <1>8, Waiting, NextTurn DEF UpstreamFails, TimeOut
  <2>2. FinishTask(driver.conv, FALSE, TRUE) /\ run' = run
    BY <1>8 DEF UpstreamFails, TimeOut
  <2>3. /\ driver'.waiting = FALSE
        /\ Range(driver'.todo) \subseteq Range(driver.todo) \ {Task}
    BY <2>1, <2>2, FinishStep
  <2>4. \A q \in MyRequest : q.task \notin Range(driver'.todo)
    BY <2>3 DEF MyRequest
  <2>5. ASSUME NEW q \in requests', q \in MyRequest PROVE q.captured = FALSE
    <3>1. CASE UpstreamFails
      BY <2>5, <3>1 DEF UpstreamFails, OneRequest
    <3>2. CASE TimeOut
      BY <2>5, <3>2 DEF TimeOut, Typed, Request
    <3> QED
      BY <1>8, <3>1, <3>2
  <2>6. requests' \subseteq requests
    BY <1>8 DEF UpstreamFails, TimeOut
  <2> QED
    BY <2>2, <2>3, <2>4, <2>5, <2>6, StopsWaiting
<1>9. CASE AskDirectly \/ DirectRequestFails
  <2>1. driver.kind = "remote" /\ MyRequest = {} /\ run' = run /\ requests' = requests
    BY <1>9 DEF AskDirectly, DirectRequestFails, MyRequest, Typed
  <2>2. driver'.waiting = FALSE /\ Range(driver'.todo) \subseteq Range(driver.todo)
    <3>1. CASE AskDirectly
      <4>1. PICK a \in PossibleAnswers(run, Task, Turns(driver.conv)) : Consume(a)
        BY <3>1 DEF AskDirectly
      <4>2. a \in Answers
        BY <2>1, NextTurn DEF PossibleAnswers, Answers
      <4> QED
        BY <2>1, <4>1, <4>2, ConsumeStep
    <3>2. CASE DirectRequestFails
      BY <2>1, <3>2, NextTurn, FinishStep DEF DirectRequestFails
    <3> QED
      BY <1>9, <3>1, <3>2
  <2> QED
    BY <2>1, <2>2, StopsWaiting
<1>10. CASE DriverCrash
  <2>1. driver'.waiting = FALSE /\ driver'.todo = <<>>
    BY <1>10, CrashStep
  <2>2. \A q \in requests' : q \in requests /\ q.captured = FALSE
    BY <1>10 DEF DriverCrash, Typed, Request
  <2>3. Range(driver'.todo) = {} /\ run' = run
    BY <1>10, <2>1 DEF Range, DriverCrash
  <2> QED
    BY <2>1, <2>2, <2>3, StopsWaiting
<1>11. CASE RunnerLeavesTask \/ RunnerWrites \/ RunnerCrash
  <2>1. /\ driver.kind = "runner" /\ sharegpt' = sharegpt /\ (RunnerMovesOn \/ driver' = Idle)
        /\ run' = run /\ requests' = requests
    BY <1>11 DEF RunnerLeavesTask, RunnerWrites, RunnerCrash
  <2>2. MyRequest = {}
    BY <2>1 DEF MyRequest, Typed
  <2> QED
    BY <2>1, <2>2, RunnerStep, StopsWaiting
<1>12. CASE UNCHANGED vars \/ StartMerge \/ WriteTrajectory \/ MergeCrash
  BY <1>1, <1>12 DEF vars, StartMerge, WriteTrajectory, MergeCrash
<1> QED
  BY <1>2, <1>3, <1>4, <1>5, <1>6, <1>7, <1>8, <1>9, <1>10, <1>11, <1>12 DEF Next

-----------------------------------------------------------------------------
\* Recorded before it is seen

\* The answer is in the sidecar after the step.
InNextSidecar(a) == a.probes => \E i \in DOMAIN sidecar' : sidecar'[i].answer = a

\* What was recorded of the requests, the messages and the file stays recorded,
\* and what a driver adds is what it took in or had before.
LEMMA RecordsKept ==
  ASSUME CapturedFirst, SidecarGrows, NEW a, InNextSidecar(a),
         \A q \in requests' : q.captured =>
           q.answer # Absent /\ (q.answer = a \/ q \in requests),
         \A k \in DOMAIN driver'.conv :
           \/ driver'.conv[k].answer = a
           \/ k \in DOMAIN driver.conv /\ driver'.conv[k] = driver.conv[k],
         \A i \in DOMAIN sharegpt' :
           \/ i \in DOMAIN sharegpt /\ sharegpt'[i] = sharegpt[i]
           \/ \A k \in DOMAIN sharegpt'[i].conv :
                \/ sharegpt'[i].conv[k].answer = a
                \/ k \in DOMAIN driver.conv /\ sharegpt'[i].conv[k] = driver.conv[k]
  PROVE  CapturedFirst'
<1>1. \A b : InSidecar(b) => InNextSidecar(b)
  BY DEF SidecarGrows, InSidecar, InNextSidecar
<1>2. ASSUME NEW q \in requests', q.captured
      PROVE  q.answer # Absent /\ InNextSidecar(q.answer)
  BY <1>1, <1>2 DEF CapturedFirst
<1>3. ASSUME NEW k \in DOMAIN driver'.conv PROVE InNextSidecar(driver'.conv[k].answer)
  BY <1>1 DEF CapturedFirst
<1>4. ASSUME NEW i \in DOMAIN sharegpt', NEW k \in DOMAIN sharegpt'[i].conv
      PROVE  InNextSidecar(sharegpt'[i].conv[k].answer)
  <2>1. CASE i \in DOMAIN sharegpt /\ sharegpt'[i] = sharegpt[i]
    BY <1>1, <2>1 DEF CapturedFirst
  <2>2. CASE sharegpt'[i].conv[k].answer = a
    BY <2>2
  <2>3. CASE k \in DOMAIN driver.conv /\ sharegpt'[i].conv[k] = driver.conv[k]
    BY <1>1, <2>3 DEF CapturedFirst
  <2> QED
    BY <2>1, <2>2, <2>3
<1> QED
  BY <1>2, <1>3, <1>4 DEF CapturedFirst, InSidecar, InNextSidecar

\* A step that captures nothing and takes no answer in.
LEMMA NothingSeen ==
  ASSUME CapturedFirst, sidecar' = sidecar,
         \A q \in requests' : q.captured => q \in requests,
         driver'.conv \in {driver.conv, <<>>},
         \A i \in DOMAIN sharegpt' :
           \/ i \in DOMAIN sharegpt /\ sharegpt'[i] = sharegpt[i]
           \/ sharegpt'[i].conv = driver.conv
  PROVE  CapturedFirst'
<1> DEFINE none == [probes |-> FALSE]
<1>1. SidecarGrows /\ InNextSidecar(none)
  BY DEF SidecarGrows, InNextSidecar
<1>2. \A q \in requests' : q.captured => q.answer # Absent /\ q \in requests
  BY DEF CapturedFirst
<1>3. \A k \in DOMAIN driver'.conv : k \in DOMAIN driver.conv /\ driver'.conv[k] = driver.conv[k]
  OBVIOUS
<1> HIDE DEF none
<1> QED
  BY <1>1, <1>2, <1>3, RecordsKept

LEMMA CapturedInductive == CaptureInv /\ [Next]_vars => CapturedFirst'
<1> SUFFICES ASSUME Typed, DriverOnTrack, OneRequest, CapturedFirst, [Next]_vars
             PROVE  CapturedFirst'
  BY DEF CaptureInv
<1>1. SidecarTypes
  BY DEF Typed, SidecarTypes
<1>2. ASSUME NEW a, InSidecar(a)' PROVE InNextSidecar(a)
  BY <1>2 DEF InSidecar, InNextSidecar
<1>3. ASSUME NEW kind \in {"minimal", "remote"}, NEW chosen \in TaskChoices,
             StartDriver(kind, chosen)
      PROVE  CapturedFirst'
  BY <1>3, StartStep, NothingSeen DEF StartDriver
<1>4. CASE StartRunner
  BY <1>4, StartStep, NothingSeen DEF StartRunner
<1>5. CASE SendThroughProxy
  <2>1. driver'.conv = driver.conv /\ sidecar' = sidecar /\ sharegpt' = sharegpt
    BY <1>5 DEF SendThroughProxy, Typed, Driver
  <2>2. \A q \in requests' : q.captured => q \in requests
    BY <1>5 DEF SendThroughProxy
  <2> QED
    BY <2>1, <2>2, NothingSeen
<1>6. CASE UpstreamAnswers
  <2>1. PICK q \in requests :
          /\ q.answer = Absent
          /\ \E a : requests' = (requests \ {q}) \cup {[q EXCEPT !.answer = a]}
    BY <1>6 DEF UpstreamAnswers
  <2>2. PICK a : requests' = (requests \ {q}) \cup {[q EXCEPT !.answer = a]}
    BY <2>1
  <2>3. [q EXCEPT !.answer = a].captured = FALSE
    BY <2>1 DEF CapturedFirst, Typed, Request
  <2>4. \A p \in requests' : p.captured => p \in requests
    BY <2>2, <2>3
  <2>5. UNCHANGED <<driver, sidecar, sharegpt>>
    BY <1>6 DEF UpstreamAnswers
  <2> QED
    BY <2>4, <2>5, NothingSeen
<1>7. CASE Capture
  <2>1. PICK q \in requests :
          /\ q.answer # Absent
          /\ sidecar' = sidecar \o SidecarRecords(<<"hash", q.task>>, q.answer)
          /\ requests' = (requests \ {q}) \cup
                           IF q \in MyRequest THEN {[q EXCEPT !.captured = TRUE]} ELSE {}
    BY <1>7 DEF Capture
  <2>2. SidecarGrows /\ InNextSidecar(q.answer)
    BY <1>1, <1>2, <2>1, AnswerTypes, Recorded
  <2>3. [q EXCEPT !.captured = TRUE].answer = q.answer
    BY DEF Typed, Request
  <2>4. \A p \in requests' : p.captured =>
          p.answer # Absent /\ (p.answer = q.answer \/ p \in requests)
    BY <2>1, <2>3 DEF CapturedFirst
  <2>5. UNCHANGED <<driver, sharegpt>>
    BY <1>7 DEF Capture
  <2> QED
    BY <2>2, <2>4, <2>5, RecordsKept
<1>8. CASE Receive
  <2>1. PICK q \in MyRequest : q.captured /\ Consume(q.answer) /\ requests' = requests \ {q}
    BY <1>8 DEF Receive, MayPassOn
  <2>2. /\ driver.kind = "minimal" /\ q \in requests
        /\ q.answer \in Answers /\ InSidecar(q.answer)
    BY <2>1, Waiting, AnswerTypes DEF MyRequest, CapturedFirst
  <2>3. SidecarGrows /\ InNextSidecar(q.answer)
    BY <1>8, <2>2 DEF Receive, SidecarGrows, InSidecar, InNextSidecar
  <2>4. \A p \in requests' : p.captured => p.answer # Absent /\ p \in requests
    BY <2>1 DEF CapturedFirst
  <2> QED
    BY <2>1, <2>2, <2>3, <2>4, ConsumeStep, RecordsKept
<1>9. CASE AskDirectly
  <2>1. PICK a \in PossibleAnswers(run, Task, Turns(driver.conv)) :
          /\ sidecar' = sidecar \o SidecarRecords(<<"index", driver.place>>, a)
          /\ Consume(a)
    BY <1>9 DEF AskDirectly
  <2>2. a \in Answers /\ driver.kind = "remote" /\ driver.place \in Nat
    BY <1>9, NextTurn DEF AskDirectly, PossibleAnswers, Answers, Typed, Driver
  <2>3. SidecarGrows /\ InNextSidecar(a)
    BY <1>1, <1>2, <2>1, <2>2, Recorded
  <2>4. \A q \in requests' : q.captured => q.answer # Absent /\ q \in requests
    BY <1>9 DEF AskDirectly, CapturedFirst
  <2> QED
    BY <2>1, <2>2, <2>3, <2>4, ConsumeStep, RecordsKept
<1>10. CASE UpstreamFails \/ TimeOut \/ DirectRequestFails
  <2>1. driver.kind \in {"minimal", "remote"} /\ driver.conv \in Seq(Entry)
    BY <1>10, Waiting, NextTurn DEF UpstreamFails, TimeOut, DirectRequestFails
  <2>2. /\ FinishTask(driver.conv, FALSE, TRUE) /\ sidecar' = sidecar
        /\ requests' \subseteq requests
    BY <1>10 DEF UpstreamFails, TimeOut, DirectRequestFails
  <2> QED
    BY <2>1, <2>2, FinishStep, NothingSeen
<1>11. CASE DriverCrash
  BY <1>11, CrashStep, NothingSeen DEF DriverCrash
<1>12. CASE RunnerLeavesTask \/ RunnerWrites \/ RunnerCrash
  <2>1. /\ driver.kind = "runner" /\ sharegpt' = sharegpt /\ (RunnerMovesOn \/ driver' = Idle)
        /\ sidecar' = sidecar /\ requests' = requests
    BY <1>12 DEF RunnerLeavesTask, RunnerWrites, RunnerCrash
  <2> QED
    BY <2>1, RunnerStep, NothingSeen
<1>13. CASE UNCHANGED vars \/ StartMerge \/ WriteTrajectory \/ MergeCrash
  <2>1. UNCHANGED <<driver, requests, sidecar, sharegpt>>
    BY <1>13 DEF vars, StartMerge, WriteTrajectory, MergeCrash
  <2> QED
    BY <2>1, NothingSeen
<1> QED
  BY <1>3, <1>4, <1>5, <1>6, <1>7, <1>8, <1>9, <1>10, <1>11, <1>12, <1>13 DEF Next

-----------------------------------------------------------------------------
\* Theorems

LEMMA CaptureStarts == Init => CaptureInv
<1> SUFFICES ASSUME Init PROVE CaptureInv
  OBVIOUS
<1>1. MaxRuns \in Nat /\ MaxSteps \in Nat \ {0} /\ NTasks \in Nat
  BY CaptureAssumption
<1>2. Idle \in Driver
  BY DEF Idle, Driver
<1>3. Range(merging) = {} /\ merging \in Seq(Range(merging))
  BY DEF Init, Range
<1>4. Typed
  BY <1>1, <1>2, <1>3 DEF Init, Typed, Idle
<1>5. DriverOnTrack
  BY <1>1, NoTurns DEF Init, DriverOnTrack, Idle
<1>6. OneRequest
  BY DEF Init, OneRequest, MyRequest
<1>7. CapturedFirst
  BY DEF Init, CapturedFirst, Idle
<1> QED
  BY <1>4, <1>5, <1>6, <1>7 DEF CaptureInv

LEMMA CaptureInvariant == Spec => []CaptureInv
<1>1. CaptureInv /\ [Next]_vars => CaptureInv'
  BY TypesInductive, RequestsInductive, CapturedInductive DEF CaptureInv
<1> QED
  BY <1>1, CaptureStarts, PTL DEF Spec

\* The pipeline's state keeps its types: whoever is at work has a task left, only
\* the request the driver waits for is kept after its capture, every probe of the
\* sidecar came with an answer, and a driver writes at most one record per task.
THEOREM CaptureTypeCorrect == Spec => []TypeOK
<1>1. CaptureInv => TypeOK
  <2> SUFFICES ASSUME CaptureInv PROVE TypeOK
    OBVIOUS
  <2>1. /\ run \in 0 .. MaxRuns
        /\ driver.kind \in {"idle", "minimal", "remote", "runner"}
        /\ driver.kind = "idle" <=> driver.todo = <<>>
        /\ \A i \in DOMAIN merging : merging[i].task \in Tasks
        /\ DOMAIN trajectories = Tasks
    BY DEF CaptureInv, Typed, Driver
  <2>2. \A i \in DOMAIN sidecar : sidecar[i] \in Probe
    BY DEF CaptureInv, Typed
  <2>3. \A i \in DOMAIN sidecar : /\ sidecar[i].answer \in Answers
                                  /\ sidecar[i].answer.probes
                                  /\ sidecar[i].turn = sidecar[i].answer.turn
    BY <2>2 DEF CaptureInv, Typed, Probe
  <2>4. /\ \A q \in requests : q.captured => q \in MyRequest
        /\ Len(sharegpt) <= NTasks
    BY DEF CaptureInv, OneRequest, DriverOnTrack
  <2> QED
    BY <2>1, <2>3, <2>4 DEF TypeOK
<1> QED
  BY <1>1, CaptureInvariant, PTL

\* "Sidecar capture before we forward": what a driver has in its messages, or
\* wrote to the ShareGPT file, and came with log-probabilities is in the sidecar,
\* whatever timeouts, failures, late answers, crashes and further runs do.
THEOREM CapturedBeforeSeen == Spec => []AnswersAreCaptured
<1>1. CaptureInv => AnswersAreCaptured
  <2> SUFFICES ASSUME CapturedFirst, NEW conv \in Conversations, NEW k \in DOMAIN conv,
                      conv[k].answer.probes
               PROVE  \E i \in DOMAIN sidecar : sidecar[i].answer = conv[k].answer
    BY DEF CaptureInv, AnswersAreCaptured
  <2>1. InSidecar(conv[k].answer)
    BY DEF CapturedFirst, Conversations
  <2> QED
    BY <2>1 DEF InSidecar
<1> QED
  BY <1>1, CaptureInvariant, PTL

-----------------------------------------------------------------------------
\* What the trajectory files rest on

\* Nobody will take this answer in any more: its turn is over in the driver's
\* task, or its task is no more to be done in this run.
Settled(a) ==
  /\ a \in Answers /\ a.run <= run
  /\ a.run = run /\ a.task \in Range(driver.todo) =>
       a.task = Task /\ a.turn < Turns(driver.conv)

\* And no request for it is under way.
Past(a) ==
  /\ Settled(a)
  /\ \A q \in requests : <<q.run, q.task, q.turn>> # <<a.run, a.task, a.turn>>

\* The turn of the next answer to a conversation.
NextOf(conv, k) == IF k = 0 THEN 0 ELSE conv[k].answer.turn + 1

\* A conversation of run r on task t: turn by turn an answer with the results
\* of all its calls.
Tells(conv, r, t) ==
  \A k \in DOMAIN conv :
    /\ conv[k].answer.run = r /\ conv[k].answer.task = t
    /\ conv[k].from = "gpt" =>
         /\ conv[k].answer.turn = NextOf(conv, k - 1)
         /\ conv[k].answer.calls # 0 => /\ k + 1 \in DOMAIN conv
                                        /\ conv[k + 1].from = "tool"
                                        /\ conv[k + 1].call = 1
    /\ conv[k].from = "tool" => /\ k - 1 \in DOMAIN conv
                                /\ conv[k].answer = conv[k - 1].answer

\* An answer that was taken in, with all that the sidecar has of it under the
\* keys of the i-th record.
KnownAs(a, i, task) ==
  Past(a) /\ \A k \in RecordsOf(a) : sidecar[k].key \in {<<"index", i>>, <<"hash", task>>}

\* A record of a driver fits the way its task ended.
EndsWell(sg) ==
  LET n == Len(sg.conv)
  IN  /\ NextOf(sg.conv, n) <= MaxSteps
      /\ \A k \in 1 .. n : sg.conv[k].answer.calls = 0 =>
           k = n /\ sg.completed /\ ~sg.partial
      /\ sg.completed => n # 0 /\ sg.conv[n].answer.calls = 0
      /\ ~sg.completed /\ ~sg.partial => NextOf(sg.conv, n) = MaxSteps

\* The i-th record tells a whole run of its task.
RecordFits(sg, i) ==
  /\ sg.index = i /\ EndsWell(sg)
  /\ \E r \in 1 .. run : Tells(sg.conv, r, sg.task)
  /\ \A k \in DOMAIN sg.conv : KnownAs(sg.conv[k].answer, i, sg.task)

\* The messages of the task at hand, which goes on.
DriverFits ==
  /\ driver.kind \notin {"minimal", "remote"} => driver.conv = <<>>
  /\ driver.kind \in {"minimal", "remote"} =>
       /\ driver.place = Len(sharegpt) + 1
       /\ Tells(driver.conv, run, Task)
       /\ Turns(driver.conv) = NextOf(driver.conv, Len(driver.conv))
       /\ \A k \in DOMAIN driver.conv : /\ driver.conv[k].answer.calls # 0
                                        /\ KnownAs(driver.conv[k].answer, driver.place, Task)

RecordsFit == DriverFits /\ \A i \in DOMAIN sharegpt : RecordFits(sharegpt[i], i)

\* The tasks a driver still has to write a record for.
Left == IF driver.kind \in {"minimal", "remote"} THEN Len(driver.todo) ELSE 0

\* The list a driver was left with: the i-th record is of the i-th task, unless
\* the list is one task out of several.
ListsFit ==
  \/ /\ \A i \in DOMAIN sharegpt : sharegpt[i].task = i
     /\ \A i \in 1 .. Left : driver.todo[i] = Len(sharegpt) + i
  \/ NTasks # 1 /\ Len(sharegpt) + Left <= 1

\* A record is under the hash of its task; or a driver wrote it itself, with an
\* answer that is of the past.
SidecarFits ==
  \A i \in DOMAIN sidecar :
    \/ sidecar[i].key = <<"hash", sidecar[i].answer.task>>
    \/ sidecar[i].key[1] = "index" /\ Past(sidecar[i].answer)

\* What ProbesFit asks of a step.
StepFits(step) ==
  LET found == {i \in RecordsOf(step.answer) : Coerce(sidecar[i].key)[1] # "number"}
  IN  step.probes = step.answer \/
        \A i \in found : \E j \in RecordsOf(step.probes) :
          sidecar[j].key[1] # sidecar[i].key[1]

\* What ResultsBelongToTheirCalls asks of a step's results.
RightResults(results) ==
  /\ \A c \in DOMAIN results : results[c] \in {0, c}
  /\ results # <<>> => results[1] = 1

\* What TrajectoryTellsOneRun asks of a file, and the results of its steps.
FileOfRun(f, t) ==
  /\ Len(f.steps) <= MaxSteps
  /\ \A k \in DOMAIN f.steps :
       /\ f.steps[k].answer.task = t
       /\ f.steps[k].answer.run = f.steps[1].answer.run
       /\ f.steps[k].answer.turn = k - 1
       /\ RightResults(f.steps[k].results)
  /\ f.terminal = "answered" <=> f.steps # <<>> /\ Last(f.steps).answer.calls = 0
  /\ f.terminal = "max_steps" => Len(f.steps) = MaxSteps

\* A file, written or yet to be, all of whose answers are of the past.
GoodFile(f, t) ==
  /\ FileOfRun(f, t)
  /\ \A k \in DOMAIN f.steps : Past(f.steps[k].answer) /\ StepFits(f.steps[k])

FilesFit ==
  /\ \A i \in DOMAIN merging : GoodFile(merging[i].file, merging[i].task)
  /\ \A t \in Written : GoodFile(trajectories[t], t)

-----------------------------------------------------------------------------
\* How a record is adapted
LessThan == {p \in Nat \X Nat : p[1] < p[2]}

\* Every nonempty set of numbers has a least element.
LEMMA LeastNatural ==
  ASSUME NEW T \in SUBSET Nat, T # {}
  PROVE  \E n \in T : \A m \in T : n <= m
<1>1. IsWellFoundedOn(LessThan, Nat)
  BY NatLessThanWellFounded DEF OpToRel, LessThan
<1>2. PICK n \in T : \A m \in T : ~ (<<m, n>> \in LessThan)
  BY <1>1, WFMin, Zenon
<1>3. ASSUME NEW m \in T PROVE n <= m
  <2>1. m \in Nat /\ n \in Nat
    OBVIOUS
  <2>2. m < n => <<m, n>> \in LessThan
    BY <2>1 DEF LessThan
  <2> QED
    BY <1>2, <2>1, <2>2
<1> QED
  BY <1>3

NoSteps == [steps |-> <<>>, pending |-> FALSE]

\* f adapts the entries of every set of places among the first m, in their order.
AdaptsPlaces(f, sg, m) ==
  \A T \in SUBSET (1 .. m) :
    f[T] = IF T = {} THEN NoSteps
           ELSE AdaptEntry(sg, f[T \ {Max(T)}], sg.conv[Max(T)])

LEMMA PlacesAdapted ==
  ASSUME NEW sg, NEW m \in Nat
  PROVE  \E f : AdaptsPlaces(f, sg, m)
<1> DEFINE bad == {k \in Nat : ~ \E f : AdaptsPlaces(f, sg, k)}
<1> SUFFICES ASSUME bad # {} PROVE FALSE
  OBVIOUS
<1>1. PICK k \in bad : \A j \in bad : k <= j
  BY LeastNatural
<1>2. CASE k = 0
  <2> DEFINE f == [T \in {{}} |-> NoSteps]
  <2>1. \A T \in SUBSET (1 .. 0) : T = {}
    OBVIOUS
  <2>2. AdaptsPlaces(f, sg, 0)
    BY <2>1 DEF AdaptsPlaces
  <2> QED
    BY <1>2, <2>2
<1>3. CASE k # 0
  <2>1. k - 1 \in Nat /\ k \in Nat /\ k - 1 \notin bad
    BY <1>1, <1>3
  <2>2. PICK f : AdaptsPlaces(f, sg, k - 1)
    BY <2>1
  <2> DEFINE g == [T \in SUBSET (1 .. k) |->
                     IF k \in T THEN AdaptEntry(sg, f[T \ {k}], sg.conv[k]) ELSE f[T]]
  <2>3. ASSUME NEW T \in SUBSET (1 .. k)
        PROVE  g[T] = IF T = {} THEN NoSteps
                      ELSE AdaptEntry(sg, g[T \ {Max(T)}], sg.conv[Max(T)])
    <3>1. CASE k \in T
      <4>1. Max(T) = k
        <5>1. \A j \in T : k >= j /\ j \in Nat
          BY <2>1
        <5>2. \A x \in T : (\A j \in T : x >= j) => x = k
          BY <3>1, <5>1, <2>1
        <5> QED
          BY <3>1, <5>1, <5>2 DEF Max
      <4>2. T \ {k} \in SUBSET (1 .. k) /\ k \notin T \ {k}
        OBVIOUS
      <4>3. g[T \ {k}] = f[T \ {k}]
        BY <4>2
      <4>4. g[T] = AdaptEntry(sg, f[T \ {k}], sg.conv[k])
        BY <3>1
      <4> HIDE DEF g
      <4> QED
        BY <3>1, <4>1, <4>3, <4>4
    <3>2. CASE k \notin T
      <4>1. T \in SUBSET (1 .. k - 1) /\ T \ {Max(T)} \in SUBSET (1 .. k) /\ k \notin T \ {Max(T)}
        <5>1. \A j \in T : j \in 1 .. k /\ j # k
          BY <3>2
        <5>2. \A j \in 1 .. k : j # k => j \in 1 .. k - 1
          BY <2>1
        <5> QED
          BY <3>2, <5>1, <5>2
      <4>2. g[T] = f[T] /\ g[T \ {Max(T)}] = f[T \ {Max(T)}]
        BY <3>2, <4>1
      <4> HIDE DEF g
      <4> QED
        BY <2>2, <4>1, <4>2 DEF AdaptsPlaces
    <3> QED
      BY <3>1, <3>2
  <2>4. AdaptsPlaces(g, sg, k)
    <3> HIDE DEF g
    <3> QED
      BY <2>3 DEF AdaptsPlaces
  <2> QED
    BY <2>4
<1> QED
  BY <1>2, <1>3

\* The conversation is adapted entry by entry.
LEMMA AdaptedInOrder ==
  ASSUME NEW sg, NEW n \in Nat, DOMAIN sg.conv = 1 .. n
  PROVE  \E acc : /\ acc[0] = NoSteps
                  /\ \A k \in 1 .. n : acc[k] = AdaptEntry(sg, acc[k - 1], sg.conv[k])
                  /\ Adapt(sg) = [steps |-> acc[n].steps, terminal |-> Terminal(sg, acc[n].steps)]
<1> DEFINE D == SUBSET (1 .. n)
           IsFold(iter) == iter = [T \in D |-> IF T = {} THEN NoSteps
                              ELSE AdaptEntry(sg, iter[T \ {Max(T)}], sg.conv[Max(T)])]
           fold == CHOOSE iter : IsFold(iter)
<1>1. PICK f : AdaptsPlaces(f, sg, n)
  BY PlacesAdapted
<1>2. IsFold([T \in D |-> f[T]])
  <2> DEFINE g == [T \in D |-> f[T]]
  <2>1. \A T \in D : T \ {Max(T)} \in D
    OBVIOUS
  <2>2. \A T \in D : g[T] = f[T]
    OBVIOUS
  <2>3. \A T \in D : f[T] = IF T = {} THEN NoSteps
                            ELSE AdaptEntry(sg, g[T \ {Max(T)}], sg.conv[Max(T)])
    <3> HIDE DEF g
    <3> QED
      BY <1>1, <2>1, <2>2 DEF AdaptsPlaces
  <2> QED
    BY <2>3
<1>3. IsFold(fold)
  <2> HIDE DEF IsFold
  <2> QED
    BY <1>2
<1>4. Adapt(sg) = [steps |-> fold[1 .. n].steps, terminal |-> Terminal(sg, fold[1 .. n].steps)]
  BY DEF Adapt, FoldLeft, MapThenFoldSet, NoSteps
<1>5. \A T \in D : fold[T] = IF T = {} THEN NoSteps
                             ELSE AdaptEntry(sg, fold[T \ {Max(T)}], sg.conv[Max(T)])
  <2> HIDE DEF fold
  <2> QED
    BY <1>3
<1> HIDE DEF fold, IsFold
<1> DEFINE acc == [k \in 0 .. n |-> fold[1 .. k]]
<1>6. acc[0] = NoSteps
  <2>1. 1 .. 0 = {} /\ {} \in D /\ 0 \in 0 .. n
    OBVIOUS
  <2> QED
    BY <1>5, <2>1
<1>7. ASSUME NEW k \in 1 .. n PROVE acc[k] = AdaptEntry(sg, acc[k - 1], sg.conv[k])
  <2>1. 1 .. k \in D /\ 1 .. k # {} /\ k \in 0 .. n /\ k - 1 \in 0 .. n
    OBVIOUS
  <2>2. Max(1 .. k) = k
    <3>1. k \in 1 .. k /\ \A j \in 1 .. k : k >= j
      OBVIOUS
    <3>2. \A x \in 1 .. k : (\A j \in 1 .. k : x >= j) => x = k
      BY <3>1
    <3> QED
      BY <3>1, <3>2 DEF Max
  <2>3. (1 .. k) \ {k} = 1 .. k - 1
    OBVIOUS
  <2>4. acc[k] = fold[1 .. k] /\ acc[k - 1] = fold[1 .. k - 1]
    BY <2>1
  <2> HIDE DEF acc
  <2> QED
    BY <1>5, <2>1, <2>2, <2>3, <2>4
<1>8. acc[n] = fold[1 .. n]
  OBVIOUS
<1> HIDE DEF acc
<1> QED
  BY <1>4, <1>6, <1>7, <1>8

Step == [answer : Answers, probes : Answers \cup {Absent}, results : Seq(Nat)]

\* The first k entries of a record are adapted: one step per answer, with what
\* the sidecar has for its turn, and with its first result unless that is still
\* to come.
AdaptedSoFar(sg, r, acc, k) ==
  LET n == Len(acc.steps)
  IN  /\ acc.steps \in Seq(Step) /\ n = NextOf(sg.conv, k)
      /\ \A m \in 1 .. n :
           /\ acc.steps[m].answer.run = r
           /\ acc.steps[m].answer.task = sg.task
           /\ acc.steps[m].answer.turn = m - 1
           /\ \E j \in 1 .. k : sg.conv[j].answer = acc.steps[m].answer
           /\ acc.steps[m].probes = ProbesFor(sg, m - 1)
           /\ m # n \/ ~acc.pending => RightResults(acc.steps[m].results)
      /\ k # 0 => n # 0 /\ acc.steps[n].answer = sg.conv[k].answer
      /\ acc.pending =>
           /\ k # 0 /\ sg.conv[k].from = "gpt" /\ sg.conv[k].answer.calls # 0
           /\ acc.steps[n].results = [c \in 1 .. sg.conv[k].answer.calls |-> 0]

LEMMA ProbeTypes ==
  ASSUME Typed, NEW i \in DOMAIN sidecar
  PROVE  /\ sidecar[i].answer \in Answers /\ sidecar[i].answer.probes
         /\ sidecar[i].turn = sidecar[i].answer.turn
         /\ sidecar[i].key \in {"hash", "index"} \X Nat
<1>1. sidecar[i] \in Probe
  BY DEF Typed
<1> QED
  BY <1>1 DEF Typed, Probe

LEMMA EntryTypes ==
  ASSUME NEW conv \in Seq(Entry), NEW k \in DOMAIN conv
  PROVE  /\ conv[k].answer \in Answers /\ conv[k].answer.calls \in Nat
         /\ conv[k].from \in {"gpt", "tool"}
<1>1. conv[k] \in Entry
  OBVIOUS
<1>2. conv[k].answer \in Answers /\ conv[k].from \in {"gpt", "tool"}
  BY <1>1 DEF Entry
<1> QED
  BY <1>2, CaptureAssumption DEF Answers

\* The latest of some records.
LEMMA Latest ==
  ASSUME Typed, NEW T \in SUBSET DOMAIN sidecar, T # {}
  PROVE  \E i \in T : \A j \in T : j <= i
<1>1. Len(sidecar) \in Nat /\ DOMAIN sidecar = 1 .. Len(sidecar)
  BY DEF Typed
<1> DEFINE n == Len(sidecar)
           U == {n - i : i \in T}
<1> HIDE DEF n
<1>2. n \in Nat /\ \A i \in T : i \in 1 .. n
  BY <1>1 DEF n
<1>3. U \in SUBSET Nat /\ U # {}
  <2>1. \A i \in T : n - i \in Nat
    BY <1>2
  <2> QED
    BY <2>1
<1>4. PICK u \in U : \A v \in U : u <= v
  <2> HIDE DEF U
  <2> QED
    BY <1>3, LeastNatural
<1>5. PICK i \in T : u = n - i
  BY <1>4
<1>6. ASSUME NEW j \in T PROVE j <= i
  <2>1. n - i <= n - j
    BY <1>4, <1>5
  <2> QED
    BY <1>2, <2>1
<1> QED
  BY <1>6

\* What is found for a turn is the latest record of it, if there is one.
LEMMA Found ==
  ASSUME Typed, NEW sg, NEW turn
  PROVE  LET fits == {i \in DOMAIN sidecar : /\ Coerce(sidecar[i].key) \in Candidates(sg)
                                             /\ sidecar[i].turn = turn}
         IN  /\ ProbesFor(sg, turn) \in Answers \cup {Absent}
             /\ fits # {} => \E i \in fits : ProbesFor(sg, turn) = sidecar[i].answer
<1> DEFINE fits == {i \in DOMAIN sidecar : /\ Coerce(sidecar[i].key) \in Candidates(sg)
                                           /\ sidecar[i].turn = turn}
           latest == CHOOSE i \in fits : \A j \in fits : j <= i
<1>1. ProbesFor(sg, turn) = IF fits = {} THEN Absent ELSE sidecar[latest].answer
  BY DEF ProbesFor
<1>2. fits \in SUBSET DOMAIN sidecar
  OBVIOUS
<1> HIDE DEF fits
<1>3. fits # {} => latest \in fits
  BY <1>2, Latest
<1> HIDE DEF latest
<1>4. \A i \in DOMAIN sidecar : sidecar[i].answer \in Answers
  BY ProbeTypes
<1>5. /\ ProbesFor(sg, turn) \in Answers \cup {Absent}
      /\ fits # {} => \E i \in fits : ProbesFor(sg, turn) = sidecar[i].answer
  BY <1>1, <1>2, <1>3, <1>4
<1> QED
  BY <1>5 DEF fits

\* One more answer is adapted: a step that has no results yet.
LEMMA AdaptsAnswer ==
  ASSUME Typed, NEW sg \in ShareGpt, NEW r, Tells(sg.conv, r, sg.task),
         NEW acc, NEW k \in Nat, k + 1 \in DOMAIN sg.conv,
         AdaptedSoFar(sg, r, acc, k), sg.conv[k + 1].from = "gpt"
  PROVE  AdaptedSoFar(sg, r, AdaptEntry(sg, acc, sg.conv[k + 1]), k + 1)
<1> DEFINE a == sg.conv[k + 1].answer
           new == NewStep(sg, acc.steps, a)
           after == AdaptEntry(sg, acc, sg.conv[k + 1])
           n == Len(acc.steps)
<1>1. /\ sg.conv \in Seq(Entry) /\ k + 1 \in Nat /\ k + 1 # 0 /\ k + 1 - 1 = k
      /\ a \in Answers /\ a.calls \in Nat
  <2>1. sg.conv \in Seq(Entry)
    BY DEF ShareGpt
  <2> QED
    BY <2>1, EntryTypes
<1>2. /\ acc.steps \in Seq(Step) /\ n \in Nat /\ n = NextOf(sg.conv, k)
      /\ DOMAIN acc.steps = 1 .. n
  BY DEF AdaptedSoFar
<1>3. /\ a.run = r /\ a.task = sg.task /\ a.turn = n
  <2>1. /\ sg.conv[k + 1].answer.run = r /\ sg.conv[k + 1].answer.task = sg.task
        /\ sg.conv[k + 1].answer.turn = NextOf(sg.conv, k + 1 - 1)
    BY DEF Tells
  <2> QED
    BY <1>1, <1>2, <2>1
<1>4. ~ acc.pending
  <2>1. ASSUME acc.pending PROVE FALSE
    <3>1. /\ k # 0 /\ sg.conv[k].from = "gpt" /\ sg.conv[k].answer.calls # 0
      BY <2>1 DEF AdaptedSoFar
    <3>2. k \in DOMAIN sg.conv
      BY <1>1, <3>1
    <3>3. sg.conv[k + 1].from = "tool"
      BY <3>1, <3>2 DEF Tells
    <3> QED
      BY <3>3
  <2> QED
    BY <2>1
<1>5. new = [answer |-> a, probes |-> ProbesFor(sg, n), results |-> [c \in 1 .. a.calls |-> 0]]
  BY DEF NewStep
<1>6. new \in Step
  <2>1. ProbesFor(sg, n) \in Answers \cup {Absent}
    BY Found
  <2>2. [c \in 1 .. a.calls |-> 0] \in Seq(Nat)
    BY <1>1
  <2> QED
    BY <1>1, <1>5, <2>1, <2>2 DEF Step
<1>7. /\ after.steps = Append(acc.steps, new)
      /\ a.calls = 0 => ~ after.pending
      /\ a.calls # 0 => after.pending
  <2>1. after = [steps |-> Append(acc.steps, new), pending |-> a.calls > 0]
    BY DEF AdaptEntry
  <2> HIDE DEF new, after
  <2>2. after.steps = Append(acc.steps, new) /\ after.pending = (a.calls > 0)
    BY <2>1, Zenon
  <2>3. (a.calls = 0 => ~ (a.calls > 0)) /\ (a.calls # 0 => a.calls > 0)
    BY <1>1
  <2> QED
    BY <2>2, <2>3, Zenon
<1> HIDE DEF new, after
<1>8. /\ after.steps \in Seq(Step) /\ Len(after.steps) = n + 1
      /\ after.steps[n + 1] = new /\ \A m \in 1 .. n : after.steps[m] = acc.steps[m]
  BY <1>2, <1>6, <1>7
<1>9. n + 1 = NextOf(sg.conv, k + 1)
  BY <1>1, <1>3 DEF NextOf
<1>10. ASSUME NEW m \in 1 .. n + 1
       PROVE  /\ after.steps[m].answer.run = r
              /\ after.steps[m].answer.task = sg.task
              /\ after.steps[m].answer.turn = m - 1
              /\ \E j \in 1 .. k + 1 : sg.conv[j].answer = after.steps[m].answer
              /\ after.steps[m].probes = ProbesFor(sg, m - 1)
              /\ m # n + 1 \/ ~after.pending => RightResults(after.steps[m].results)
  <2>1. CASE m \in 1 .. n
    <3>1. \A j \in 1 .. k : j \in 1 .. k + 1
      OBVIOUS
    <3> QED
      BY <1>4, <1>8, <2>1, <3>1 DEF AdaptedSoFar
  <2>2. CASE m = n + 1
    <3>1. after.steps[m] = new /\ m - 1 = n
      BY <1>2, <1>8, <2>2
    <3>2. k + 1 \in 1 .. k + 1
      OBVIOUS
    <3>3. ASSUME ~after.pending PROVE RightResults(new.results)
      <4>1. 1 .. a.calls = {}
        BY <1>1, <1>7, <3>3
      <4>2. new.results = <<>>
        BY <1>5, <4>1
      <4> QED
        BY <4>2 DEF RightResults
    <3> QED
      BY <1>3, <1>5, <2>2, <3>1, <3>2, <3>3
  <2> QED
    BY <1>2, <2>1, <2>2
<1>11. after.steps[n + 1].answer = a /\ after.steps[n + 1].results = [c \in 1 .. a.calls |-> 0]
  BY <1>5, <1>8
<1>12. after.pending => a.calls # 0
  BY <1>1, <1>7
<1> HIDE DEF n
<1>13. AdaptedSoFar(sg, r, after, k + 1)
  BY <1>1, <1>2, <1>8, <1>9, <1>10, <1>11, <1>12 DEF AdaptedSoFar
<1> QED
  BY <1>13 DEF after

\* A tool entry is adapted: the first gives the first call its result, the
\* others change nothing.
LEMMA AdaptsResult ==
  ASSUME Typed, NEW sg \in ShareGpt, NEW r, Tells(sg.conv, r, sg.task),
         NEW acc, NEW k \in Nat, k + 1 \in DOMAIN sg.conv,
         AdaptedSoFar(sg, r, acc, k), sg.conv[k + 1].from = "tool"
  PROVE  AdaptedSoFar(sg, r, AdaptEntry(sg, acc, sg.conv[k + 1]), k + 1)
<1> DEFINE a == sg.conv[k].answer
           after == AdaptEntry(sg, acc, sg.conv[k + 1])
           n == Len(acc.steps)
<1>1. /\ k \in DOMAIN sg.conv /\ sg.conv[k + 1].answer = a /\ sg.conv \in Seq(Entry)
      /\ k \in Nat \ {0} /\ k + 1 \in Nat \ {0} /\ a \in Answers /\ a.calls \in Nat
  <2>1. k + 1 - 1 \in DOMAIN sg.conv /\ sg.conv[k + 1].answer = sg.conv[k + 1 - 1].answer
    BY DEF Tells
  <2>2. sg.conv \in Seq(Entry) /\ k + 1 - 1 = k
    BY DEF ShareGpt
  <2> QED
    BY <2>1, <2>2, EntryTypes
<1>2. /\ acc.steps \in Seq(Step) /\ n \in Nat \ {0} /\ n = NextOf(sg.conv, k)
      /\ DOMAIN acc.steps = 1 .. n /\ acc.steps[n].answer = a
  BY <1>1 DEF AdaptedSoFar
<1>3. n = NextOf(sg.conv, k + 1)
  BY <1>1, <1>2 DEF NextOf
<1>4. /\ ~ after.pending
      /\ ~acc.pending => after.steps = acc.steps
      /\ acc.pending =>
           after.steps = [acc.steps EXCEPT ![Len(acc.steps)].results[1] = sg.conv[k + 1].call]
  BY DEF AdaptEntry
<1> HIDE DEF after
<1>5. /\ after.steps \in Seq(Step) /\ Len(after.steps) = n
      /\ \A m \in 1 .. n : /\ after.steps[m].answer = acc.steps[m].answer
                           /\ after.steps[m].probes = acc.steps[m].probes
                           /\ RightResults(after.steps[m].results)
  <2>1. CASE ~acc.pending
    <3>1. after.steps = acc.steps
      BY <1>4, <2>1
    <3> QED
      BY <1>2, <2>1, <3>1 DEF AdaptedSoFar
  <2>2. CASE acc.pending
    <3>1. /\ sg.conv[k].from = "gpt" /\ a.calls # 0
          /\ acc.steps[n].results = [c \in 1 .. a.calls |-> 0]
      BY <2>2 DEF AdaptedSoFar
    <3>2. sg.conv[k + 1].call = 1
      BY <1>1, <3>1 DEF Tells
    <3> DEFINE results == [[c \in 1 .. a.calls |-> 0] EXCEPT ![1] = 1]
               last == [acc.steps[n] EXCEPT !.results = results]
    <3>3. results = [c \in 1 .. a.calls |-> IF c = 1 THEN 1 ELSE 0]
      BY <1>1, <3>1
    <3>4. results \in Seq(Nat) /\ RightResults(results)
      <4>1. \A c \in 1 .. a.calls : (IF c = 1 THEN 1 ELSE 0) \in Nat
        OBVIOUS
      <4>2. results \in Seq(Nat)
        <5>1. results \in [1 .. a.calls -> Nat]
          BY <3>3, <4>1
        <5> QED
          BY <1>1, <5>1, SeqDef
      <4>3. DOMAIN results = 1 .. a.calls /\ 1 \in 1 .. a.calls
        BY <1>1, <3>1, <3>3
      <4>4. \A c \in 1 .. a.calls : results[c] = IF c = 1 THEN 1 ELSE 0
        BY <3>3
      <4> HIDE DEF results
      <4> QED
        BY <4>2, <4>3, <4>4 DEF RightResults
    <3>5. after.steps = [acc.steps EXCEPT ![n] = last]
      <4>1. after.steps = [acc.steps EXCEPT ![n].results[1] = 1]
        BY <1>4, <2>2, <3>2
      <4>2. [acc.steps EXCEPT ![n].results[1] = 1]
            = [acc.steps EXCEPT ![n] =
                 [acc.steps[n] EXCEPT !.results = [acc.steps[n].results EXCEPT ![1] = 1]]]
        OBVIOUS
      <4> QED
        BY <1>2, <3>1, <4>1, <4>2
    <3> HIDE DEF results
    <3>6. acc.steps[n] \in Step
      BY <1>2
    <3>61. /\ last \in Step /\ last.answer = acc.steps[n].answer
          /\ last.probes = acc.steps[n].probes /\ last.results = results
      BY <3>4, <3>6 DEF Step
    <3> HIDE DEF last
    <3>7. /\ after.steps \in Seq(Step) /\ Len(after.steps) = n /\ after.steps[n] = last
          /\ \A m \in 1 .. n : m # n => after.steps[m] = acc.steps[m]
      BY <1>2, <3>5, <3>61
    <3>8. \A m \in 1 .. n : m # n => RightResults(acc.steps[m].results)
      BY DEF AdaptedSoFar
    <3>9. ASSUME NEW m \in 1 .. n
          PROVE  /\ after.steps[m].answer = acc.steps[m].answer
                 /\ after.steps[m].probes = acc.steps[m].probes
                 /\ RightResults(after.steps[m].results)
      <4>1. CASE m = n
        BY <3>4, <3>61, <3>7, <4>1
      <4>2. CASE m # n
        BY <3>7, <3>8, <4>2
      <4> QED
        BY <4>1, <4>2
    <3> QED
      BY <3>7, <3>9
  <2> QED
    BY <2>1, <2>2
<1>6. ASSUME NEW m \in 1 .. n
      PROVE  /\ after.steps[m].answer.run = r
             /\ after.steps[m].answer.task = sg.task
             /\ after.steps[m].answer.turn = m - 1
             /\ \E j \in 1 .. k + 1 : sg.conv[j].answer = after.steps[m].answer
             /\ after.steps[m].probes = ProbesFor(sg, m - 1)
  <2>1. \A j \in 1 .. k : j \in 1 .. k + 1
    OBVIOUS
  <2>2. /\ acc.steps[m].answer.run = r
        /\ acc.steps[m].answer.task = sg.task
        /\ acc.steps[m].answer.turn = m - 1
        /\ \E j \in 1 .. k : sg.conv[j].answer = acc.steps[m].answer
        /\ acc.steps[m].probes = ProbesFor(sg, m - 1)
    BY DEF AdaptedSoFar
  <2>3. /\ after.steps[m].answer = acc.steps[m].answer
        /\ after.steps[m].probes = acc.steps[m].probes
    BY <1>5
  <2> HIDE DEF n
  <2> QED
    BY <2>1, <2>2, <2>3
<1>7. n \in 1 .. n
  BY <1>2
<1> HIDE DEF n
<1>8. AdaptedSoFar(sg, r, after, k + 1)
  <2>1. /\ after.steps \in Seq(Step) /\ Len(after.steps) = n /\ n = NextOf(sg.conv, k + 1)
        /\ n # 0 /\ ~after.pending
    BY <1>2, <1>3, <1>4, <1>5
  <2>2. after.steps[n].answer = sg.conv[k + 1].answer
    BY <1>1, <1>2, <1>5, <1>7
  <2>3. ASSUME NEW m \in 1 .. n
        PROVE  /\ after.steps[m].answer.run = r
               /\ after.steps[m].answer.task = sg.task
               /\ after.steps[m].answer.turn = m - 1
               /\ \E j \in 1 .. k + 1 : sg.conv[j].answer = after.steps[m].answer
               /\ after.steps[m].probes = ProbesFor(sg, m - 1)
               /\ RightResults(after.steps[m].results)
    BY <1>5, <1>6
  <2> QED
    BY <2>1, <2>2, <2>3 DEF AdaptedSoFar
<1> QED
  BY <1>8 DEF after

\* A whole record is adapted.
LEMMA Adapted ==
  ASSUME Typed, NEW sg \in ShareGpt, NEW r, Tells(sg.conv, r, sg.task)
  PROVE  \E acc : /\ AdaptedSoFar(sg, r, acc, Len(sg.conv))
                  /\ Adapt(sg) = [steps |-> acc.steps, terminal |-> Terminal(sg, acc.steps)]
<1> DEFINE n == Len(sg.conv)
<1>1. n \in Nat /\ DOMAIN sg.conv = 1 .. n /\ sg.conv \in Seq(Entry)
  BY DEF ShareGpt
<1> HIDE DEF n
<1>2. PICK acc : /\ acc[0] = NoSteps
                 /\ \A k \in 1 .. n : acc[k] = AdaptEntry(sg, acc[k - 1], sg.conv[k])
                 /\ Adapt(sg) = [steps |-> acc[n].steps, terminal |-> Terminal(sg, acc[n].steps)]
  BY <1>1, AdaptedInOrder
<1> DEFINE bad == {k \in 0 .. n : ~ AdaptedSoFar(sg, r, acc[k], k)}
<1>3. bad = {}
  <2> SUFFICES ASSUME bad # {} PROVE FALSE
    OBVIOUS
  <2>1. bad \in SUBSET Nat
    BY <1>1
  <2>2. PICK k \in bad : \A j \in bad : k <= j
    BY <2>1, LeastNatural
  <2>3. AdaptedSoFar(sg, r, acc[0], 0)
    <3>1. acc[0].steps = <<>> /\ acc[0].pending = FALSE
      BY <1>2 DEF NoSteps
    <3>2. <<>> \in Seq(Step) /\ Len(<<>>) = 0 /\ 1 .. 0 = {}
      OBVIOUS
    <3>3. acc[0].steps \in Seq(Step) /\ Len(acc[0].steps) = 0 /\ ~acc[0].pending
      BY <3>1, <3>2
    <3>4. NextOf(sg.conv, 0) = 0
      BY DEF NextOf
    <3> QED
      BY <3>2, <3>3, <3>4 DEF AdaptedSoFar
  <2>4. k \in 1 .. n /\ k - 1 \in 0 .. n /\ k - 1 \in Nat /\ k - 1 < k /\ k - 1 + 1 = k
    BY <1>1, <2>2, <2>3
  <2>5. AdaptedSoFar(sg, r, acc[k - 1], k - 1)
    BY <2>2, <2>4
  <2>6. sg.conv[k].from \in {"gpt", "tool"}
    BY <1>1, <2>4, EntryTypes
  <2>7. AdaptedSoFar(sg, r, AdaptEntry(sg, acc[k - 1], sg.conv[k - 1 + 1]), k - 1 + 1)
    BY <1>1, <2>4, <2>5, <2>6, AdaptsAnswer, AdaptsResult
  <2> QED
    BY <1>2, <2>2, <2>4, <2>7
<1>4. AdaptedSoFar(sg, r, acc[n], n)
  BY <1>1, <1>3
<1> QED
  BY <1>2, <1>4 DEF n

-----------------------------------------------------------------------------
\* What a step does to the answers of the past

Extended(conv, a) == conv \o EntriesOf(a)

\* A conversation goes on with the next answer.
LEMMA TellsOn ==
  ASSUME NEW conv \in Seq(Entry), NEW a \in Answers, NEW new, new = Extended(conv, a),
         Tells(conv, a.run, a.task), a.turn = NextOf(conv, Len(conv))
  PROVE  /\ Tells(new, a.run, a.task) /\ Len(new) = Len(conv) + 1 + a.calls
         /\ Len(new) \in Nat \ {0}
         /\ NextOf(new, Len(new)) = a.turn + 1 /\ new[Len(new)].answer = a
<1> DEFINE e == EntriesOf(a)
           n == Len(conv)
           m == Len(e)
<1>1. /\ e \in Seq(Entry) /\ m \in Nat \ {0} /\ DOMAIN e = 1 .. m /\ e[1].from = "gpt"
      /\ a.calls \in Nat /\ m = 1 + a.calls
      /\ \A k \in 1 .. m : /\ e[k].answer = a
                           /\ k # 1 => e[k].from = "tool" /\ e[k].call = k - 1
  BY EntriesType
<1>0. new = conv \o e
  BY DEF Extended
<1> HIDE DEF e
<1>2. /\ n \in Nat /\ DOMAIN conv = 1 .. n /\ DOMAIN new = 1 .. n + m /\ Len(new) = n + m
      /\ \A k \in 1 .. n : new[k] = conv[k]
      /\ \A k \in n + 1 .. n + m : new[k] = e[k - n]
  <2>1. ASSUME NEW c \in Seq(Entry), NEW d \in Seq(Entry)
        PROVE  /\ Len(c) \in Nat /\ DOMAIN c = 1 .. Len(c)
               /\ DOMAIN (c \o d) = 1 .. Len(c) + Len(d) /\ Len(c \o d) = Len(c) + Len(d)
               /\ \A k \in 1 .. Len(c) : (c \o d)[k] = c[k]
               /\ \A k \in Len(c) + 1 .. Len(c) + Len(d) : (c \o d)[k] = d[k - Len(c)]
    BY <2>1
  <2>2. /\ Len(conv) \in Nat /\ DOMAIN conv = 1 .. Len(conv)
        /\ DOMAIN (conv \o e) = 1 .. Len(conv) + Len(e)
        /\ Len(conv \o e) = Len(conv) + Len(e)
        /\ \A k \in 1 .. Len(conv) : (conv \o e)[k] = conv[k]
        /\ \A k \in Len(conv) + 1 .. Len(conv) + Len(e) : (conv \o e)[k] = e[k - Len(conv)]
    BY <1>1, <2>1, Zenon
  <2> QED
    BY <1>0, <2>2
<1> HIDE DEF n, m
<1>3. \A k \in 0 .. n : NextOf(new, k) = NextOf(conv, k)
  BY <1>2 DEF NextOf
<1>4. /\ n + 1 \in 1 .. n + m /\ new[n + 1].from = "gpt"
      /\ \A k \in n + 1 .. n + m : new[k].answer = a /\ (k # n + 1 => new[k].from = "tool")
  <2>1. \A k \in n + 1 .. n + m : k - n \in 1 .. m /\ (k # n + 1 => k - n # 1)
    BY <1>1, <1>2
  <2>2. n + 1 - n = 1 /\ n + 1 \in n + 1 .. n + m /\ n + 1 \in 1 .. n + m
    BY <1>1, <1>2
  <2>3. ASSUME NEW k \in n + 1 .. n + m
        PROVE  new[k].answer = a /\ (k # n + 1 => new[k].from = "tool")
    <3>1. k - n \in 1 .. m /\ (k # n + 1 => k - n # 1) /\ new[k] = e[k - n]
      BY <1>2, <2>1
    <3> QED
      BY <1>1, <3>1
  <2>4. new[n + 1] = e[1]
    BY <1>2, <2>2
  <2> QED
    BY <1>1, <2>2, <2>3, <2>4
<1>5. a.calls # 0 => /\ n + 1 + 1 \in 1 .. n + m
                     /\ new[n + 1 + 1].from = "tool" /\ new[n + 1 + 1].call = 1
  <2>1. ASSUME a.calls # 0
        PROVE  /\ n + 1 + 1 \in n + 1 .. n + m /\ n + 1 + 1 - n = 2 /\ 2 \in 1 .. m
               /\ n + 1 + 1 \in 1 .. n + m /\ n + 1 + 1 # n + 1
    <3>1. m \in Nat \ {0, 1} /\ n \in Nat
      BY <1>1, <1>2, <2>1
    <3> QED
      BY <3>1
  <2> SUFFICES ASSUME a.calls # 0
               PROVE  /\ n + 1 + 1 \in 1 .. n + m
                      /\ new[n + 1 + 1].from = "tool" /\ new[n + 1 + 1].call = 1
    OBVIOUS
  <2>2. new[n + 1 + 1].from = "tool"
    BY <1>4, <2>1
  <2>3. new[n + 1 + 1] = e[2]
    BY <1>2, <2>1
  <2>4. e[2].call = 2 - 1
    BY <1>1, <2>1
  <2> QED
    BY <2>1, <2>2, <2>3, <2>4
<1>6. ASSUME NEW k \in 1 .. n + m
      PROVE  /\ new[k].answer.run = a.run /\ new[k].answer.task = a.task
             /\ new[k].from = "gpt" =>
                  /\ new[k].answer.turn = NextOf(new, k - 1)
                  /\ new[k].answer.calls # 0 => /\ k + 1 \in 1 .. n + m
                                                /\ new[k + 1].from = "tool"
                                                /\ new[k + 1].call = 1
             /\ new[k].from = "tool" => /\ k - 1 \in 1 .. n + m
                                        /\ new[k].answer = new[k - 1].answer
  <2>1. CASE k \in 1 .. n
    <3>1. k - 1 \in 0 .. n /\ \A j \in 1 .. n : j \in 1 .. n + m
      BY <1>1, <1>2, <2>1
    <3>2. /\ conv[k].answer.run = a.run /\ conv[k].answer.task = a.task
          /\ conv[k].from = "gpt" =>
               /\ conv[k].answer.turn = NextOf(conv, k - 1)
               /\ conv[k].answer.calls # 0 => /\ k + 1 \in 1 .. n
                                              /\ conv[k + 1].from = "tool"
                                              /\ conv[k + 1].call = 1
          /\ conv[k].from = "tool" => /\ k - 1 \in 1 .. n
                                      /\ conv[k].answer = conv[k - 1].answer
      BY <1>2, <2>1 DEF Tells
    <3> QED
      BY <1>2, <1>3, <2>1, <3>1, <3>2
  <2>2. CASE k = n + 1
    <3>1. k - 1 = n /\ n \in 0 .. n /\ new[k].answer = a
      BY <1>2, <1>4, <2>2
    <3> QED
      BY <1>3, <1>4, <1>5, <2>2, <3>1 DEF n
  <2>3. CASE k \notin 1 .. n /\ k # n + 1
    <3>1. k \in n + 1 .. n + m /\ k - 1 \in n + 1 .. n + m /\ k - 1 \in 1 .. n + m
      <4>1. n \in Nat /\ m \in Nat
        BY <1>1, <1>2
      <4> QED
        BY <2>3, <4>1
    <3> QED
      BY <1>4, <2>3, <3>1
  <2> QED
    BY <2>1, <2>2, <2>3
<1>7. Tells(new, a.run, a.task)
  BY <1>2, <1>6 DEF Tells
<1>8. /\ n + m \in n + 1 .. n + m /\ n + m \in Nat \ {0}
      /\ Len(new) = Len(conv) + 1 + a.calls
  BY <1>1, <1>2 DEF n
<1> QED
  BY <1>2, <1>4, <1>7, <1>8 DEF NextOf

\* How a driver moves: on to a new run, within its task, or past it.
DriverMoves ==
  \/ run' = run + 1
  \/ /\ run' = run /\ driver'.todo = driver.todo
     /\ Turns(driver.conv) \in Nat /\ Turns(driver'.conv) \in Nat
     /\ Turns(driver'.conv) >= Turns(driver.conv)
  \/ run' = run /\ Range(driver'.todo) \subseteq Range(driver.todo) \ {Task}

\* A request that was not there before is one for the driver's next turn.
RequestsMove ==
  \A q \in requests' :
    \/ \E p \in requests : <<p.run, p.task, p.turn>> = <<q.run, q.task, q.turn>>
    \/ /\ Task \in Range(driver.todo)
       /\ <<q.run, q.task, q.turn>> = <<run, Task, Turns(driver.conv)>>

LEMMA Moves == CaptureInv /\ [Next]_vars => DriverMoves /\ RequestsMove
<1> SUFFICES ASSUME Typed, DriverOnTrack, OneRequest, CapturedFirst, [Next]_vars
             PROVE  DriverMoves /\ RequestsMove
  BY DEF CaptureInv
<1>1. ASSUME requests' \subseteq requests PROVE RequestsMove
  BY <1>1 DEF RequestsMove
<1>2. Turns(driver.conv) \in Nat
  <2>1. driver.conv \in Seq(Entry)
    BY DEF Typed, Driver
  <2>2. IsFiniteSet(1 .. Len(driver.conv)) /\ DOMAIN driver.conv = 1 .. Len(driver.conv)
    BY <2>1, FS_Interval
  <2>3. {k \in DOMAIN driver.conv : driver.conv[k].from = "gpt"} \subseteq DOMAIN driver.conv
    OBVIOUS
  <2> QED
    BY <2>2, <2>3, FS_Subset, FS_CardinalityType DEF Turns
<1>3. ASSUME run' = run, driver'.todo = driver.todo, driver'.conv = driver.conv
      PROVE  DriverMoves
  <2>1. Turns(driver'.conv) = Turns(driver.conv)
    BY <1>3
  <2> QED
    BY <1>2, <1>3, <2>1 DEF DriverMoves
<1>4. ASSUME NEW conv \in Seq(Entry), NEW completed \in BOOLEAN, NEW partial \in BOOLEAN,
             driver.kind \in {"minimal", "remote"},
             FinishTask(conv, completed, partial), run' = run
      PROVE  DriverMoves
  BY <1>4, FinishStep DEF DriverMoves
<1>5. ASSUME NEW a \in Answers, driver.kind \in {"minimal", "remote"}, Consume(a), run' = run
      PROVE  DriverMoves
  <2> DEFINE conv == driver.conv \o EntriesOf(a)
  <2>1. conv \in Seq(Entry) /\ Turns(conv) = Turns(driver.conv) + 1
    BY OneMoreTurn DEF Typed, Driver
  <2> HIDE DEF conv
  <2>2. CASE a.calls = 0 \/ Turns(conv) = MaxSteps
    <3>1. FinishTask(conv, a.calls = 0, FALSE) /\ (a.calls = 0) \in BOOLEAN
      BY <1>5, <2>2 DEF Consume, conv
    <3> QED
      BY <1>4, <1>5, <2>1, <3>1
  <2>3. CASE ~ (a.calls = 0 \/ Turns(conv) = MaxSteps)
    <3>1. driver' = [driver EXCEPT !.conv = conv, !.waiting = FALSE]
      BY <1>5, <2>3 DEF Consume, conv
    <3>2. driver'.todo = driver.todo /\ driver'.conv = conv
      BY <3>1 DEF Typed, Driver
    <3>3. Turns(driver'.conv) = Turns(driver.conv) + 1
      BY <2>1, <3>2
    <3> QED
      BY <1>2, <1>5, <3>2, <3>3 DEF DriverMoves
  <2> QED
    BY <2>2, <2>3
<1>6. ASSUME NEW kind \in {"minimal", "remote"}, NEW chosen \in TaskChoices,
             StartDriver(kind, chosen)
      PROVE  DriverMoves /\ RequestsMove
  BY <1>1, <1>6 DEF StartDriver, DriverMoves
<1>7. CASE StartRunner
  BY <1>1, <1>7 DEF StartRunner, DriverMoves
<1>8. CASE SendThroughProxy
  <2>1. driver'.todo = driver.todo /\ driver'.conv = driver.conv /\ run' = run
    BY <1>8 DEF SendThroughProxy, Typed, Driver
  <2>2. Task \in Range(driver.todo)
    BY <1>8, TaskAtHand DEF SendThroughProxy, Range
  <2>3. requests' = requests \cup {[run |-> run, task |-> Task, turn |-> Turns(driver.conv),
                                    answer |-> Absent, captured |-> FALSE]}
    BY <1>8 DEF SendThroughProxy
  <2> QED
    BY <1>3, <2>1, <2>2, <2>3 DEF RequestsMove
<1>9. CASE UpstreamAnswers \/ Capture
  <2>1. PICK q \in requests : \E r :
          /\ <<r.run, r.task, r.turn>> = <<q.run, q.task, q.turn>>
          /\ requests' \subseteq requests \cup {r}
    <3>1. CASE UpstreamAnswers
      <4>1. PICK q \in requests : \E a :
              requests' = (requests \ {q}) \cup {[q EXCEPT !.answer = a]}
        BY <3>1 DEF UpstreamAnswers
      <4>2. PICK a : requests' = (requests \ {q}) \cup {[q EXCEPT !.answer = a]}
        BY <4>1
      <4> DEFINE r == [q EXCEPT !.answer = a]
      <4>3. <<r.run, r.task, r.turn>> = <<q.run, q.task, q.turn>>
        BY DEF Typed, Request
      <4> QED
        BY <4>2, <4>3
    <3>2. CASE Capture
      <4>1. PICK q \in requests : requests' = (requests \ {q}) \cup
              IF q \in MyRequest THEN {[q EXCEPT !.captured = TRUE]} ELSE {}
        BY <3>2 DEF Capture
      <4> DEFINE r == [q EXCEPT !.captured = TRUE]
      <4>2. <<r.run, r.task, r.turn>> = <<q.run, q.task, q.turn>>
        BY DEF Typed, Request
      <4>3. requests' \subseteq requests \cup {r}
        BY <4>1
      <4> QED
        BY <4>2, <4>3
    <3> QED
      BY <1>9, <3>1, <3>2
  <2>2. RequestsMove
    BY <2>1 DEF RequestsMove
  <2> QED
    BY <1>3, <1>9, <2>2 DEF UpstreamAnswers, Capture
<1>10. CASE Receive
  <2>1. PICK q \in MyRequest : q.captured /\ Consume(q.answer) /\ requests' = requests \ {q}
    BY <1>10 DEF Receive, MayPassOn
  <2>2. driver.kind = "minimal" /\ q.answer \in Answers
    BY <2>1, Waiting, AnswerTypes DEF MyRequest, CapturedFirst
  <2> QED
    BY <1>1, <1>5, <1>10, <2>1, <2>2 DEF Receive
<1>11. CASE UpstreamFails \/ TimeOut \/ DirectRequestFails
  <2>1. driver.kind \in {"minimal", "remote"} /\ driver.conv \in Seq(Entry)
    BY <1>11, Waiting, NextTurn DEF UpstreamFails, TimeOut, DirectRequestFails
  <2>2. /\ FinishTask(driver.conv, FALSE, TRUE) /\ run' = run
        /\ requests' \subseteq requests
    BY <1>11 DEF UpstreamFails, TimeOut, DirectRequestFails
  <2> QED
    BY <1>1, <1>4, <2>1, <2>2
<1>12. CASE AskDirectly
  <2>1. PICK a \in PossibleAnswers(run, Task, Turns(driver.conv)) : Consume(a)
    BY <1>12 DEF AskDirectly
  <2>2. a \in Answers /\ driver.kind = "remote"
    BY <1>12, NextTurn DEF AskDirectly, PossibleAnswers, Answers
  <2> QED
    BY <1>1, <1>5, <1>12, <2>1, <2>2 DEF AskDirectly
<1>13. CASE DriverCrash
  <2>1. Range(driver'.todo) = {}
    BY <1>13, CrashStep DEF Range
  <2> QED
    BY <1>1, <1>13, <2>1 DEF DriverCrash, DriverMoves
<1>14. CASE RunnerLeavesTask \/ RunnerWrites \/ RunnerCrash
  <2>1. /\ driver.kind = "runner" /\ (RunnerMovesOn \/ driver' = Idle)
        /\ run' = run /\ requests' = requests
    BY <1>14 DEF RunnerLeavesTask, RunnerWrites, RunnerCrash
  <2>2. Range(driver'.todo) \subseteq Range(driver.todo) \ {Task}
    <3>1. Range(Tail(driver.todo)) \subseteq Range(driver.todo) \ {Task}
      BY <2>1, MovesOn
    <3>2. driver' = Idle => Range(driver'.todo) = {}
      BY DEF Idle, Range
    <3>3. driver' # Idle => driver'.todo = Tail(driver.todo)
      BY <2>1 DEF RunnerMovesOn, Typed, Driver
    <3> QED
      BY <3>1, <3>2, <3>3
  <2> QED
    BY <1>1, <2>1, <2>2 DEF DriverMoves
<1>15. CASE UNCHANGED vars \/ StartMerge \/ WriteTrajectory \/ MergeCrash
  BY <1>1, <1>3, <1>15 DEF vars, StartMerge, WriteTrajectory, MergeCrash
<1> QED
  BY <1>6, <1>7, <1>8, <1>9, <1>10, <1>11, <1>12, <1>13, <1>14, <1>15 DEF Next

\* An answer of the past stays one.
LEMMA PastStays ==
  ASSUME CaptureInv, [Next]_vars, NEW a, Past(a)
  PROVE  Past(a)'
<1>1. DriverMoves /\ RequestsMove
  BY Moves
<1>2. run \in Nat /\ a \in Answers /\ a.run \in 1 .. run /\ a.turn \in Nat
  BY CaptureAssumption DEF CaptureInv, Typed, Past, Settled, Answers
<1>3. \A q \in requests' : <<q.run, q.task, q.turn>> # <<a.run, a.task, a.turn>>
  <2>1. ~ (/\ Task \in Range(driver.todo)
           /\ <<a.run, a.task, a.turn>> = <<run, Task, Turns(driver.conv)>>)
    <3>1. ASSUME /\ Task \in Range(driver.todo)
                 /\ <<a.run, a.task, a.turn>> = <<run, Task, Turns(driver.conv)>>
          PROVE  FALSE
      <4>1. a.run = run /\ a.task = Task /\ a.turn = Turns(driver.conv)
        BY <3>1
      <4>2. a.turn < Turns(driver.conv) /\ driver.conv \in Seq(Entry)
        BY <3>1, <4>1 DEF Past, Settled, CaptureInv, Typed, Driver
      <4>3. Turns(driver.conv) \in Nat
        <5>1. /\ IsFiniteSet(1 .. Len(driver.conv))
              /\ DOMAIN driver.conv = 1 .. Len(driver.conv)
          BY <4>2, FS_Interval
        <5>2. {k \in DOMAIN driver.conv : driver.conv[k].from = "gpt"} \subseteq DOMAIN driver.conv
          OBVIOUS
        <5> QED
          BY <5>1, <5>2, FS_Subset, FS_CardinalityType DEF Turns
      <4> HIDE DEF Turns
      <4> QED
        BY <4>1, <4>2, <4>3
    <3> QED
      BY <3>1
  <2> QED
    BY <1>1, <2>1 DEF RequestsMove, Past
<1>4. ASSUME a.run = run', a.task \in Range(driver'.todo)
      PROVE  a.task = Task' /\ a.turn < Turns(driver'.conv)
  <2>1. CASE run' = run + 1
    BY <1>2, <1>4, <2>1
  <2>2. CASE /\ run' = run /\ driver'.todo = driver.todo
             /\ Turns(driver.conv) \in Nat /\ Turns(driver'.conv) \in Nat
             /\ Turns(driver'.conv) >= Turns(driver.conv)
    <3>1. a.task = Task /\ a.turn < Turns(driver.conv) /\ Task' = Task
      BY <1>4, <2>2 DEF Past, Settled, Task
    <3> HIDE DEF Turns
    <3> QED
      BY <1>2, <2>2, <3>1
  <2>3. CASE run' = run /\ Range(driver'.todo) \subseteq Range(driver.todo) \ {Task}
    BY <1>4, <2>3 DEF Past, Settled
  <2> QED
    BY <1>1, <2>1, <2>2, <2>3 DEF DriverMoves
<1>5. a.run <= run'
  BY <1>1, <1>2 DEF DriverMoves
<1> QED
  BY <1>2, <1>3, <1>4, <1>5 DEF Past, Settled, Turns

-----------------------------------------------------------------------------
\* What a step adds to the sidecar

\* A record the step adds: a request's answer, or what the driver was told.
NewRecord(rec) ==
  \/ /\ rec.key = <<"hash", rec.answer.task>>
     /\ \E q \in requests : q.answer # Absent /\ q.answer = rec.answer
  \/ /\ driver.kind = "remote" /\ AskDirectly
     /\ rec.key = <<"index", driver.place>>
     /\ rec.answer \in PossibleAnswers(run, Task, Turns(driver.conv))
     /\ Consume(rec.answer)

LEMMA AppendedRecord ==
  ASSUME SidecarTypes, NEW a \in Answers, NEW key \in {"hash", "index"} \X Nat,
         sidecar' = sidecar \o SidecarRecords(key, a), NEW i \in DOMAIN sidecar'
  PROVE  \/ i \in DOMAIN sidecar
         \/ sidecar'[i] = [key |-> key, turn |-> a.turn, answer |-> a]
<1> DEFINE rec == [key |-> key, turn |-> a.turn, answer |-> a]
<1>1. rec \in Probe
  BY CaptureAssumption DEF Probe, Answers
<1> HIDE DEF rec
<1>2. CASE a.probes
  <2>1. sidecar' = sidecar \o <<rec>>
    BY <1>2 DEF SidecarRecords, rec
  <2>2. /\ DOMAIN sidecar' = DOMAIN sidecar \cup {Len(sidecar) + 1}
        /\ sidecar'[Len(sidecar) + 1] = rec
    BY <1>1, <2>1 DEF SidecarTypes
  <2> QED
    BY <2>2 DEF rec
<1>3. CASE ~ a.probes
  <2>1. sidecar' = sidecar
    BY <1>3 DEF SidecarRecords, SidecarTypes
  <2> QED
    BY <2>1
<1> QED
  BY <1>2, <1>3

LEMMA SidecarSteps ==
  CaptureInv /\ [Next]_vars =>
    /\ SidecarGrows
    /\ \A i \in DOMAIN sidecar' : i \in DOMAIN sidecar \/ NewRecord(sidecar'[i])
<1> SUFFICES ASSUME CaptureInv, Typed, DriverOnTrack, OneRequest, [Next]_vars
             PROVE  /\ SidecarGrows
                    /\ \A i \in DOMAIN sidecar' : \/ i \in DOMAIN sidecar
                                                  \/ NewRecord(sidecar'[i])
  BY DEF CaptureInv
<1>1. SidecarTypes
  BY DEF Typed, SidecarTypes
<1>2. CASE Capture
  <2>1. PICK q \in requests :
          /\ q.answer # Absent
          /\ sidecar' = sidecar \o SidecarRecords(<<"hash", q.task>>, q.answer)
    BY <1>2 DEF Capture
  <2>2. q.answer \in Answers /\ q.task \in Nat /\ q.answer.task = q.task
    BY <2>1, AnswerTypes DEF OneRequest, RightAnswer
  <2>3. SidecarGrows
    BY <1>1, <2>1, <2>2, Recorded
  <2>4. ASSUME NEW i \in DOMAIN sidecar', i \notin DOMAIN sidecar
        PROVE  NewRecord(sidecar'[i])
    <3>1. sidecar'[i] = [key |-> <<"hash", q.task>>, turn |-> q.answer.turn, answer |-> q.answer]
      BY <1>1, <2>1, <2>2, <2>4, AppendedRecord
    <3>2. sidecar'[i].key = <<"hash", q.task>> /\ sidecar'[i].answer = q.answer
      BY <3>1
    <3> QED
      BY <2>1, <2>2, <3>2 DEF NewRecord
  <2> QED
    BY <2>3, <2>4
<1>3. CASE AskDirectly
  <2>1. PICK a \in PossibleAnswers(run, Task, Turns(driver.conv)) :
          /\ sidecar' = sidecar \o SidecarRecords(<<"index", driver.place>>, a)
          /\ Consume(a)
    BY <1>3 DEF AskDirectly
  <2>2. a \in Answers /\ driver.kind = "remote" /\ driver.place \in Nat
    BY <1>3, NextTurn DEF AskDirectly, PossibleAnswers, Answers, Typed, Driver
  <2>3. SidecarGrows
    BY <1>1, <2>1, <2>2, Recorded
  <2>4. ASSUME NEW i \in DOMAIN sidecar', i \notin DOMAIN sidecar
        PROVE  NewRecord(sidecar'[i])
    <3>1. sidecar'[i] = [key |-> <<"index", driver.place>>, turn |-> a.turn, answer |-> a]
      BY <1>1, <2>1, <2>2, <2>4, AppendedRecord
    <3>2. sidecar'[i].key = <<"index", driver.place>> /\ sidecar'[i].answer = a
      BY <3>1
    <3> QED
      BY <1>3, <2>1, <2>2, <3>2 DEF NewRecord
  <2> QED
    BY <2>3, <2>4
<1>4. CASE ~ Capture /\ ~ AskDirectly
  <2>1. sidecar' = sidecar
    BY <1>4 DEF Next, vars, StartDriver, SendThroughProxy, UpstreamAnswers, Receive,
                UpstreamFails, TimeOut, DirectRequestFails, DriverCrash, StartMerge,
                WriteTrajectory, MergeCrash, StartRunner, RunnerLeavesTask, RunnerWrites,
                RunnerCrash
  <2> QED
    BY <2>1 DEF SidecarGrows
<1> QED
  BY <1>2, <1>3, <1>4

\* What is recorded only now was not taken in before.
LEMMA RecordedNow ==
  ASSUME CaptureInv, NEW rec, NewRecord(rec)
  PROVE  ~ Past(rec.answer)
<1> SUFFICES ASSUME Past(rec.answer) PROVE FALSE
  OBVIOUS
<1> DEFINE a == rec.answer
<1>1. CASE \E q \in requests : q.answer # Absent /\ q.answer = a
  <2>1. PICK q \in requests : q.answer # Absent /\ q.answer = a
    BY <1>1
  <2>2. a.run = q.run /\ a.task = q.task /\ a.turn = q.turn
    BY <2>1 DEF CaptureInv, OneRequest, RightAnswer
  <2> QED
    BY <2>2 DEF Past
<1>2. CASE driver.kind = "remote" /\ a \in PossibleAnswers(run, Task, Turns(driver.conv))
  <2>1. a.run = run /\ a.task = Task /\ a.turn = Turns(driver.conv)
    BY <1>2 DEF PossibleAnswers
  <2>2. Task \in Range(driver.todo) /\ Turns(driver.conv) \in 0 .. MaxSteps - 1
    BY <1>2, TaskAtHand, NextTurn DEF CaptureInv, Range
  <2>3. a.turn < Turns(driver.conv)
    BY <2>1, <2>2 DEF Past, Settled
  <2> HIDE DEF Turns
  <2> QED
    BY <2>1, <2>2, <2>3
<1> QED
  BY <1>1, <1>2 DEF NewRecord

\* No record of an answer of the past is added or changed.
LEMMA RecordsStay ==
  ASSUME CaptureInv, [Next]_vars, NEW a, Past(a)
  PROVE  /\ RecordsOf(a)' = RecordsOf(a)
         /\ \A i \in RecordsOf(a) : sidecar'[i] = sidecar[i]
<1>1. /\ SidecarGrows
      /\ \A i \in DOMAIN sidecar' : i \in DOMAIN sidecar \/ NewRecord(sidecar'[i])
  BY SidecarSteps
<1>2. ASSUME NEW i \in DOMAIN sidecar', sidecar'[i].answer = a
      PROVE  i \in DOMAIN sidecar
  <2>1. ~ NewRecord(sidecar'[i])
    <3>1. PICK rec : rec = sidecar'[i]
      OBVIOUS
    <3>2. ~ NewRecord(rec)
      BY <1>2, <3>1, RecordedNow
    <3> QED
      BY <3>1, <3>2
  <2> QED
    BY <1>1, <2>1
<1> QED
  BY <1>1, <1>2 DEF RecordsOf, SidecarGrows

LEMMA KnownStays ==
  ASSUME CaptureInv, [Next]_vars, NEW a, NEW i, NEW task, KnownAs(a, i, task)
  PROVE  KnownAs(a, i, task)'
<1>1. Past(a) /\ Past(a)'
  BY PastStays DEF KnownAs
<1>2. /\ RecordsOf(a)' = RecordsOf(a)
      /\ \A k \in RecordsOf(a) : sidecar'[k] = sidecar[k]
  BY <1>1, RecordsStay
<1> QED
  BY <1>1, <1>2 DEF KnownAs

\* What a driver takes in is of the past from then on.
LEMMA TakenIn ==
  ASSUME CaptureInv, driver.kind \in {"minimal", "remote"}, run' = run,
         NEW a \in PossibleAnswers(run, Task, Turns(driver.conv)), Consume(a),
         \A q \in requests' : <<q.run, q.task, q.turn>> # <<a.run, a.task, a.turn>>
  PROVE  a \in Answers /\ Past(a)'
<1>1. /\ a.run = run /\ a.task = Task /\ a.turn = Turns(driver.conv) /\ a \in Answers
      /\ Turns(driver.conv) \in 0 .. MaxSteps - 1 /\ run \in Nat
  BY NextTurn, CaptureAssumption DEF PossibleAnswers, CaptureInv, Answers, Typed
<1> DEFINE conv == driver.conv \o EntriesOf(a)
<1>2. conv \in Seq(Entry) /\ Turns(conv) = Turns(driver.conv) + 1
  BY <1>1, OneMoreTurn DEF CaptureInv, Typed, Driver
<1> HIDE DEF conv
<1>3. a.task \in Range(driver'.todo) => a.task = Task' /\ a.turn < Turns(driver'.conv)
  <2>1. CASE a.calls = 0 \/ Turns(conv) = MaxSteps
    <3>1. FinishTask(conv, a.calls = 0, FALSE) /\ (a.calls = 0) \in BOOLEAN
      BY <2>1 DEF Consume, conv
    <3>2. Range(driver'.todo) \subseteq Range(driver.todo) \ {Task}
      BY <1>2, <3>1, FinishStep DEF CaptureInv
    <3> QED
      BY <1>1, <3>2
  <2>2. CASE ~ (a.calls = 0 \/ Turns(conv) = MaxSteps)
    <3>1. driver' = [driver EXCEPT !.conv = conv, !.waiting = FALSE]
      BY <2>2 DEF Consume, conv
    <3>2. driver'.todo = driver.todo /\ driver'.conv = conv
      BY <3>1 DEF CaptureInv, Typed, Driver
    <3>3. Task' = Task /\ Turns(driver'.conv) = Turns(driver.conv) + 1
      BY <1>2, <3>2 DEF Task
    <3> HIDE DEF Turns
    <3> QED
      BY <1>1, <3>3
  <2> QED
    BY <2>1, <2>2
<1> QED
  BY <1>1, <1>3 DEF Past, Settled, Turns

\* The proxy's answer is the one asked for, and no other request asks it.
LEMMA Received ==
  ASSUME CaptureInv, Receive
  PROVE  \E a \in PossibleAnswers(run, Task, Turns(driver.conv)) :
           /\ driver.kind = "minimal" /\ run' = run /\ sidecar' = sidecar
           /\ Consume(a) /\ ~ Past(a)
           /\ \A q \in requests' : <<q.run, q.task, q.turn>> # <<a.run, a.task, a.turn>>
<1>1. PICK q \in MyRequest : q.captured /\ Consume(q.answer) /\ requests' = requests \ {q}
  BY DEF Receive, MayPassOn
<1>2. /\ driver.kind = "minimal" /\ q.answer \in Answers /\ q \in requests
      /\ q.run = run /\ q.task = Task /\ q.turn = Turns(driver.conv) /\ q.answer # Absent
  BY <1>1, Waiting, AnswerTypes DEF MyRequest, CaptureInv, CapturedFirst
<1>3. q.answer.run = q.run /\ q.answer.task = q.task /\ q.answer.turn = q.turn
  BY <1>2 DEF CaptureInv, OneRequest, RightAnswer
<1>4. q.answer \in PossibleAnswers(run, Task, Turns(driver.conv))
  BY <1>2, <1>3 DEF PossibleAnswers, Answers
<1>5. ~ Past(q.answer)
  BY <1>2, <1>3 DEF Past
<1>6. ASSUME NEW p \in requests',
             <<p.run, p.task, p.turn>> = <<q.answer.run, q.answer.task, q.answer.turn>>
      PROVE  FALSE
  <2>1. p.run = run /\ p.task = Task /\ p.turn = Turns(driver.conv) /\ p \in requests /\ p # q
    BY <1>1, <1>2, <1>3, <1>6
  <2>2. p \in MyRequest
    BY <1>1, <2>1 DEF MyRequest
  <2> QED
    BY <1>1, <2>1, <2>2 DEF CaptureInv, OneRequest
<1> QED
  BY <1>1, <1>2, <1>4, <1>5, <1>6 DEF Receive

\* A remote driver's answer is asked for by no request.
LEMMA Told ==
  ASSUME CaptureInv, AskDirectly
  PROVE  \E a \in PossibleAnswers(run, Task, Turns(driver.conv)) :
           /\ driver.kind = "remote" /\ run' = run
           /\ Consume(a) /\ ~ Past(a)
           /\ sidecar' = sidecar \o SidecarRecords(<<"index", driver.place>>, a)
           /\ \A q \in requests' : <<q.run, q.task, q.turn>> # <<a.run, a.task, a.turn>>
<1>1. PICK a \in PossibleAnswers(run, Task, Turns(driver.conv)) :
        /\ sidecar' = sidecar \o SidecarRecords(<<"index", driver.place>>, a)
        /\ Consume(a)
  BY DEF AskDirectly
<1>2. /\ driver.kind = "remote" /\ run' = run /\ requests' = requests
      /\ a.run = run /\ a.task = Task /\ a.turn = Turns(driver.conv)
  BY DEF AskDirectly, PossibleAnswers
<1>3. Task \in Range(driver.todo) /\ Turns(driver.conv) \in 0 .. MaxSteps - 1
  BY <1>2, TaskAtHand, NextTurn DEF CaptureInv, Range
<1>4. ~ Past(a)
  <2> HIDE DEF Turns
  <2>1. Past(a) => a.turn < Turns(driver.conv)
    BY <1>2, <1>3 DEF Past, Settled
  <2> QED
    BY <1>2, <1>3, <2>1
<1>5. ASSUME NEW q \in requests, q.run = run, q.task = Task PROVE FALSE
  <2>1. q \in MyRequest
    BY <1>3, <1>5 DEF CaptureInv, OneRequest
  <2> QED
    BY <1>2, <2>1, Waiting DEF CaptureInv
<1> QED
  BY <1>1, <1>2, <1>4, <1>5

LEMMA SidecarFitsInductive == CaptureInv /\ SidecarFits /\ [Next]_vars => SidecarFits'
<1> SUFFICES ASSUME CaptureInv, SidecarFits, [Next]_vars, NEW i \in DOMAIN sidecar'
             PROVE  \/ sidecar'[i].key = <<"hash", sidecar'[i].answer.task>>
                    \/ sidecar'[i].key[1] = "index" /\ Past(sidecar[i].answer)'
  BY DEF SidecarFits
<1>1. PICK a : a = sidecar'[i].answer
  OBVIOUS
<1>2. CASE i \in DOMAIN sidecar
  <2>1. sidecar'[i] = sidecar[i]
    BY <1>2, SidecarSteps DEF SidecarGrows
  <2>2. \/ sidecar[i].key = <<"hash", sidecar[i].answer.task>>
        \/ sidecar[i].key[1] = "index" /\ Past(a)
    BY <1>1, <1>2, <2>1 DEF SidecarFits
  <2>3. Past(a) => Past(a)'
    BY PastStays
  <2> QED
    BY <1>1, <2>1, <2>2, <2>3
<1>3. CASE i \notin DOMAIN sidecar
  <2>1. NewRecord(sidecar'[i])
    BY <1>3, SidecarSteps
  <2>2. CASE sidecar'[i].key = <<"hash", sidecar'[i].answer.task>>
    BY <2>2
  <2>3. CASE AskDirectly
    <3>1. PICK b \in PossibleAnswers(run, Task, Turns(driver.conv)) :
            /\ driver.kind = "remote" /\ run' = run
            /\ Consume(b)
            /\ sidecar' = sidecar \o SidecarRecords(<<"index", driver.place>>, b)
            /\ \A q \in requests' : <<q.run, q.task, q.turn>> # <<b.run, b.task, b.turn>>
      BY <2>3, Told
    <3>2. b \in Answers /\ Past(b)'
      BY <3>1, TakenIn
    <3>3. SidecarTypes /\ driver.place \in Nat
      BY DEF CaptureInv, Typed, SidecarTypes, Driver
    <3>4. sidecar'[i] = [key |-> <<"index", driver.place>>, turn |-> b.turn, answer |-> b]
      BY <1>3, <3>1, <3>2, <3>3, AppendedRecord
    <3>5. sidecar'[i].key[1] = "index" /\ sidecar'[i].answer = b
      BY <3>4
    <3> QED
      BY <3>2, <3>5
  <2> QED
    BY <2>1, <2>2, <2>3 DEF NewRecord
<1> QED
  BY <1>2, <1>3

-----------------------------------------------------------------------------
\* The records of the tasks

\* The record of a finished task and the driver that goes on.
LEMMA Finished ==
  ASSUME Typed, DriverOnTrack, driver.kind \in {"minimal", "remote"},
         NEW conv \in Seq(Entry), NEW completed \in BOOLEAN, NEW partial \in BOOLEAN,
         FinishTask(conv, completed, partial)
  PROVE  /\ Len(sharegpt) \in Nat /\ DOMAIN sharegpt = 1 .. Len(sharegpt)
         /\ Len(sharegpt') = Len(sharegpt) + 1 /\ DOMAIN sharegpt' = 1 .. Len(sharegpt) + 1
         /\ \A i \in 1 .. Len(sharegpt) : sharegpt'[i] = sharegpt[i]
         /\ sharegpt'[Len(sharegpt) + 1] =
              [index |-> driver.place, task |-> Task, conv |-> conv,
               completed |-> completed, partial |-> partial]
         /\ driver'.conv = <<>> /\ driver'.todo = Tail(driver.todo)
         /\ driver'.kind = IF Tail(driver.todo) = <<>> THEN "idle" ELSE driver.kind
         /\ driver'.kind # "idle" => driver'.place = driver.place + 1
<1> DEFINE rec == [index |-> driver.place, task |-> Task, conv |-> conv,
                   completed |-> completed, partial |-> partial]
<1>1. sharegpt \in Seq(ShareGpt) /\ driver.place \in Nat /\ Task \in Tasks
  BY TaskAtHand DEF Typed, Driver
<1>2. rec \in ShareGpt
  BY <1>1 DEF ShareGpt
<1>3. sharegpt' = Append(sharegpt, rec)
  BY DEF FinishTask
<1> HIDE DEF rec
<1>4. /\ Len(sharegpt) \in Nat /\ DOMAIN sharegpt = 1 .. Len(sharegpt)
      /\ Len(sharegpt') = Len(sharegpt) + 1 /\ DOMAIN sharegpt' = 1 .. Len(sharegpt) + 1
      /\ \A i \in 1 .. Len(sharegpt) : sharegpt'[i] = sharegpt[i]
      /\ sharegpt'[Len(sharegpt) + 1] = rec
  BY <1>1, <1>2, <1>3
<1>5. /\ driver'.conv = <<>> /\ driver'.todo = Tail(driver.todo)
      /\ driver'.kind = IF Tail(driver.todo) = <<>> THEN "idle" ELSE driver.kind
      /\ driver'.kind # "idle" => driver'.place = driver.place + 1
  <2>1. CASE Tail(driver.todo) = <<>>
    <3>1. driver' = Idle
      BY <2>1 DEF FinishTask
    <3> QED
      BY <2>1, <3>1 DEF Idle
  <2>2. CASE Tail(driver.todo) # <<>>
    <3>1. driver' = [kind |-> driver.kind, todo |-> Tail(driver.todo),
                     place |-> driver.place + 1, conv |-> <<>>, waiting |-> FALSE]
      BY <2>2 DEF FinishTask, Idle
    <3> QED
      BY <2>2, <3>1
  <2> QED
    BY <2>1, <2>2
<1> QED
  BY <1>4, <1>5 DEF rec

\* An answer finishes the task, or the driver goes on with it.
LEMMA Consumed ==
  ASSUME Typed, DriverOnTrack, driver.kind \in {"minimal", "remote"},
         NEW a \in Answers, Consume(a), NEW conv, conv = driver.conv \o EntriesOf(a)
  PROVE  /\ conv \in Seq(Entry)
         /\ Turns(driver.conv) \in Nat /\ Turns(conv) = Turns(driver.conv) + 1
         /\ \A k \in DOMAIN conv : \/ k \in DOMAIN driver.conv /\ conv[k] = driver.conv[k]
                                   \/ conv[k].answer = a
         /\ \/ /\ a.calls = 0 \/ Turns(conv) = MaxSteps
               /\ FinishTask(conv, a.calls = 0, FALSE)
            \/ /\ a.calls # 0 /\ sharegpt' = sharegpt
               /\ driver'.kind = driver.kind /\ driver'.place = driver.place
               /\ driver'.todo = driver.todo /\ driver'.conv = conv
<1>1. /\ conv \in Seq(Entry)
      /\ Turns(driver.conv) \in Nat /\ Turns(conv) = Turns(driver.conv) + 1
      /\ \A k \in DOMAIN conv : \/ k \in DOMAIN driver.conv /\ conv[k] = driver.conv[k]
                                \/ conv[k].answer = a
  BY OneMoreTurn DEF Typed, Driver
<1>2. CASE a.calls = 0 \/ Turns(conv) = MaxSteps
  <2>1. FinishTask(conv, a.calls = 0, FALSE)
    BY <1>2 DEF Consume
  <2> QED
    BY <1>1, <1>2, <2>1
<1>3. CASE ~ (a.calls = 0 \/ Turns(conv) = MaxSteps)
  <2>1. driver' = [driver EXCEPT !.conv = conv, !.waiting = FALSE] /\ sharegpt' = sharegpt
    BY <1>3 DEF Consume
  <2>2. /\ driver'.kind = driver.kind /\ driver'.place = driver.place
        /\ driver'.todo = driver.todo /\ driver'.conv = conv
    BY <2>1 DEF Typed, Driver
  <2> QED
    BY <1>1, <1>3, <2>1, <2>2
<1> QED
  BY <1>2, <1>3

\* A record stays what it is.
LEMMA RecordStays ==
  ASSUME CaptureInv, [Next]_vars, NEW sg, NEW i, RecordFits(sg, i)
  PROVE  RecordFits(sg, i)'
<1>1. run \in Nat /\ run' \in Nat /\ run <= run'
  <2>1. run \in Nat
    BY CaptureAssumption DEF CaptureInv, Typed
  <2> QED
    BY <2>1, Moves DEF DriverMoves
<1>2. \A r \in 1 .. run : r \in 1 .. run'
  BY <1>1
<1>3. \A k \in DOMAIN sg.conv : KnownAs(sg.conv[k].answer, i, sg.task)'
  BY KnownStays DEF RecordFits
<1> QED
  BY <1>2, <1>3 DEF RecordFits

\* The records a step leaves, and a driver that has nothing in its messages.
LEMMA RecordsLeft ==
  ASSUME CaptureInv, RecordsFit, [Next]_vars,
         \A i \in DOMAIN sharegpt' : i \in DOMAIN sharegpt /\ sharegpt'[i] = sharegpt[i]
  PROVE  \A i \in DOMAIN sharegpt' : RecordFits(sharegpt[i], i)'
<1> SUFFICES ASSUME NEW i \in DOMAIN sharegpt' PROVE RecordFits(sharegpt[i], i)'
  OBVIOUS
<1>1. PICK sg : sg = sharegpt'[i]
  OBVIOUS
<1>2. RecordFits(sg, i)
  BY <1>1 DEF RecordsFit
<1>3. RecordFits(sg, i)'
  BY <1>2, RecordStays
<1> QED
  BY <1>1, <1>3

LEMMA EmptyMessages ==
  ASSUME driver'.conv = <<>>,
         driver'.kind \in {"minimal", "remote"} => driver'.place = Len(sharegpt') + 1
  PROVE  DriverFits'
<1>1. Turns(driver'.conv) = 0
  BY NoTurns
<1>2. Turns(driver.conv)' = 0 /\ DOMAIN driver'.conv = {} /\ Len(driver'.conv) = 0
  BY <1>1
<1> QED
  BY <1>2 DEF DriverFits, Tells, NextOf

\* A finished task leaves a record that fits.
LEMMA FinishFits ==
  ASSUME CaptureInv, RecordsFit, [Next]_vars, run' = run,
         driver.kind \in {"minimal", "remote"},
         NEW conv \in Seq(Entry), NEW completed \in BOOLEAN, NEW partial \in BOOLEAN,
         FinishTask(conv, completed, partial),
         NEW place, place = driver.place, NEW task, task = Task,
         Tells(conv, run, task),
         EndsWell([index |-> place, task |-> task, conv |-> conv,
                   completed |-> completed, partial |-> partial]),
         \A k \in DOMAIN conv : KnownAs(conv[k].answer, place, task)'
  PROVE  RecordsFit'
<1> DEFINE n == Len(sharegpt)
           rec == [index |-> place, task |-> task, conv |-> conv,
                   completed |-> completed, partial |-> partial]
<1>1. /\ n \in Nat /\ DOMAIN sharegpt = 1 .. n
      /\ Len(sharegpt') = n + 1 /\ DOMAIN sharegpt' = 1 .. n + 1
      /\ \A i \in 1 .. n : sharegpt'[i] = sharegpt[i]
      /\ sharegpt'[n + 1] = rec
      /\ driver'.conv = <<>>
      /\ driver'.kind = IF Tail(driver.todo) = <<>> THEN "idle" ELSE driver.kind
      /\ driver'.kind # "idle" => driver'.place = place + 1
  BY Finished DEF CaptureInv
<1>2. place = n + 1 /\ run \in 1 .. run
  BY NextTurn, CaptureAssumption DEF RecordsFit, DriverFits, CaptureInv
<1>3. rec.index = place /\ rec.task = task /\ rec.conv = conv
  OBVIOUS
<1>4. PICK sg : sg = rec
  OBVIOUS
<1> PICK m : m = n + 1
  OBVIOUS
<1>5. RecordFits(sg, m)'
  <2>1. /\ sg.index = m /\ EndsWell(sg) /\ run' \in 1 .. run'
        /\ Tells(sg.conv, run', sg.task)
    BY <1>2, <1>3, <1>4
  <2>2. \A k \in DOMAIN sg.conv : KnownAs(sg.conv[k].answer, m, sg.task)'
    BY <1>2, <1>3, <1>4
  <2>3. \E r \in 1 .. run' : Tells(sg.conv, r, sg.task)
    BY <2>1
  <2> QED
    BY <2>1, <2>2, <2>3 DEF RecordFits, EndsWell
<1>6. ASSUME NEW i \in 1 .. m PROVE RecordFits(sharegpt[i], i)'
  <2>1. CASE i = m
    <3>1. sharegpt'[i] = sg
      BY <1>1, <1>4, <2>1
    <3> QED
      BY <1>5, <2>1, <3>1
  <2>2. CASE i # m
    <3>1. i \in 1 .. n
      BY <1>1, <2>2
    <3>2. PICK old : old = sharegpt[i]
      OBVIOUS
    <3>3. RecordFits(old, i) /\ sharegpt'[i] = old
      BY <1>1, <3>1, <3>2 DEF RecordsFit
    <3>4. RecordFits(old, i)'
      BY <3>3, RecordStays
    <3> QED
      BY <3>3, <3>4
  <2> QED
    BY <2>1, <2>2
<1>7. DriverFits'
  <2>1. driver'.kind \in {"minimal", "remote"} => driver'.place = Len(sharegpt') + 1
    BY <1>1, <1>2
  <2> QED
    BY <1>1, <2>1, EmptyMessages
<1> QED
  BY <1>1, <1>6, <1>7 DEF RecordsFit

\* What is recorded of an answer that is taken in now is under the right keys.
LEMMA TakenInKnown ==
  ASSUME CaptureInv, SidecarFits, [Next]_vars, NEW a, ~Past(a), Past(a)', NEW place,
         \A i \in DOMAIN sidecar' :
           i \in DOMAIN sidecar \/ sidecar'[i].key = <<"index", place>>
  PROVE  KnownAs(a, place, a.task)'
<1> SUFFICES ASSUME NEW k \in DOMAIN sidecar', sidecar'[k].answer = a
             PROVE  sidecar'[k].key \in {<<"index", place>>, <<"hash", a.task>>}
  BY DEF KnownAs, RecordsOf
<1>1. CASE k \in DOMAIN sidecar
  <2>1. sidecar'[k] = sidecar[k]
    BY <1>1, SidecarSteps DEF SidecarGrows
  <2> QED
    BY <1>1, <2>1 DEF SidecarFits
<1> QED
  BY <1>1

\* A driver that takes in an answer goes on with it, or writes a record that fits.
LEMMA ConsumeFits ==
  ASSUME CaptureInv, RecordsFit, SidecarFits, [Next]_vars, run' = run,
         driver.kind \in {"minimal", "remote"},
         NEW a \in PossibleAnswers(run, Task, Turns(driver.conv)), Consume(a),
         ~Past(a), a \in Answers, Past(a)',
         \A i \in DOMAIN sidecar' :
           i \in DOMAIN sidecar \/ sidecar'[i].key = <<"index", driver.place>>
  PROVE  RecordsFit'
<1> DEFINE conv == driver.conv \o EntriesOf(a)
           n == Len(conv)
<1>1. /\ a.run = run /\ a.task = Task /\ a.turn = Turns(driver.conv) /\ a.calls \in Nat
      /\ Turns(driver.conv) \in 0 .. MaxSteps - 1 /\ driver.conv \in Seq(Entry)
      /\ MaxSteps \in Nat
  BY NextTurn, CaptureAssumption DEF PossibleAnswers, CaptureInv, Answers
<1>2. /\ driver.place = Len(sharegpt) + 1
      /\ Tells(driver.conv, a.run, a.task)
      /\ a.turn = NextOf(driver.conv, Len(driver.conv))
      /\ \A k \in DOMAIN driver.conv : /\ driver.conv[k].answer.calls # 0
                                       /\ KnownAs(driver.conv[k].answer, driver.place, Task)
  BY <1>1 DEF RecordsFit, DriverFits
<1>0. \A k \in DOMAIN driver.conv : conv[k] = driver.conv[k]
  <2>1. ASSUME NEW c \in Seq(Entry), NEW d \in Seq(Entry)
        PROVE  \A k \in DOMAIN c : (c \o d)[k] = c[k]
    OBVIOUS
  <2>2. EntriesOf(a) \in Seq(Entry)
    BY EntriesType
  <2> QED
    BY <1>1, <2>1, <2>2, Zenon
<1>3. /\ Tells(conv, a.run, a.task) /\ n = Len(driver.conv) + 1 + a.calls
      /\ n \in Nat \ {0} /\ NextOf(conv, n) = a.turn + 1 /\ conv[n].answer = a
  <2>1. PICK c : c = conv
    OBVIOUS
  <2>2. /\ Tells(c, a.run, a.task) /\ Len(c) = Len(driver.conv) + 1 + a.calls
        /\ Len(c) \in Nat \ {0} /\ NextOf(c, Len(c)) = a.turn + 1 /\ c[Len(c)].answer = a
    <3> HIDE DEF conv
    <3>1. PICK before : before = driver.conv
      OBVIOUS
    <3>2. before \in Seq(Entry) /\ c = Extended(before, a)
      BY <1>1, <2>1, <3>1 DEF conv, Extended
    <3>3. Tells(before, a.run, a.task) /\ a.turn = NextOf(before, Len(before))
      BY <1>2, <3>1
    <3>4. /\ Tells(c, a.run, a.task) /\ Len(c) = Len(before) + 1 + a.calls
          /\ Len(c) \in Nat \ {0} /\ NextOf(c, Len(c)) = a.turn + 1 /\ c[Len(c)].answer = a
      <4> HIDE DEF n
      <4> QED
        BY <3>2, <3>3, TellsOn
    <3> QED
      BY <3>1, <3>4
  <2> QED
    BY <2>1, <2>2
<1>4. /\ conv \in Seq(Entry)
      /\ Turns(conv) = Turns(driver.conv) + 1
      /\ \A k \in DOMAIN conv : \/ k \in DOMAIN driver.conv /\ conv[k] = driver.conv[k]
                                \/ conv[k].answer = a
      /\ \/ /\ a.calls = 0 \/ Turns(conv) = MaxSteps
            /\ FinishTask(conv, a.calls = 0, FALSE)
         \/ /\ a.calls # 0 /\ sharegpt' = sharegpt
            /\ driver'.kind = driver.kind /\ driver'.place = driver.place
            /\ driver'.todo = driver.todo /\ driver'.conv = conv
  BY Consumed DEF CaptureInv
<1>5. PICK c, place, task : c = conv /\ place = driver.place /\ task = Task
  OBVIOUS
<1> HIDE DEF conv
<1>6. ASSUME NEW k \in DOMAIN c PROVE KnownAs(c[k].answer, place, task)'
  <2>1. KnownAs(a, place, task)'
    BY <1>1, <1>5, TakenInKnown
  <2>2. CASE c[k].answer = a
    BY <2>1, <2>2
  <2>3. CASE c[k].answer # a
    <3>1. KnownAs(c[k].answer, place, task)
      BY <1>2, <1>4, <1>5, <2>3
    <3> QED
      BY <3>1, KnownStays
  <2> QED
    BY <2>2, <2>3
<1>7. CASE /\ a.calls = 0 \/ Turns(conv) = MaxSteps
           /\ FinishTask(conv, a.calls = 0, FALSE)
  <2>0. DOMAIN c = 1 .. n /\ n = Len(c)
    BY <1>4, <1>5
  <2>1. NextOf(c, n) <= MaxSteps
    <3> HIDE DEF Turns
    <3> QED
      BY <1>1, <1>3, <1>5
  <2>2. CASE a.calls = 0
    <3> DEFINE rec == [index |-> place, task |-> task, conv |-> c,
                       completed |-> TRUE, partial |-> FALSE]
    <3>1. FinishTask(c, TRUE, FALSE)
      <4>1. (a.calls = 0) = TRUE
        BY <2>2
      <4> QED
        BY <1>5, <1>7, <4>1
    <3>2. ASSUME NEW k \in 1 .. n, c[k].answer.calls = 0 PROVE k = n
      <4>1. k \notin DOMAIN driver.conv
        BY <1>0, <1>2, <1>5, <3>2
      <4> QED
        BY <1>1, <1>3, <2>2, <4>1
    <3>3. EndsWell(rec)
      <4>1. c[n].answer.calls = 0 /\ n # 0
        BY <1>3, <1>5, <2>2
      <4>2. rec.conv = c /\ rec.completed /\ ~rec.partial
        OBVIOUS
      <4> HIDE DEF rec, n
      <4> QED
        BY <2>0, <2>1, <3>2, <4>1, <4>2 DEF EndsWell
    <3> QED
      BY <1>1, <1>3, <1>4, <1>5, <1>6, <3>1, <3>3, FinishFits
  <2>3. CASE a.calls # 0
    <3> DEFINE rec == [index |-> place, task |-> task, conv |-> c,
                       completed |-> FALSE, partial |-> FALSE]
    <3>1. FinishTask(c, FALSE, FALSE)
      <4>1. (a.calls = 0) = FALSE
        BY <2>3
      <4> QED
        BY <1>5, <1>7, <4>1
    <3>2. \A k \in 1 .. n : c[k].answer.calls # 0
      BY <1>2, <1>4, <1>5, <2>0, <2>3
    <3>3. NextOf(c, n) = MaxSteps
      BY <1>1, <1>3, <1>4, <1>5, <1>7, <2>3
    <3>4. EndsWell(rec)
      <4>1. rec.conv = c /\ ~rec.completed /\ ~rec.partial
        OBVIOUS
      <4> HIDE DEF rec, n
      <4> QED
        BY <2>0, <2>1, <3>2, <3>3, <4>1 DEF EndsWell
    <3> QED
      BY <1>1, <1>3, <1>4, <1>5, <1>6, <3>1, <3>4, FinishFits
  <2> QED
    BY <2>2, <2>3
<1>8. CASE /\ a.calls # 0 /\ sharegpt' = sharegpt
           /\ driver'.kind = driver.kind /\ driver'.place = driver.place
           /\ driver'.todo = driver.todo /\ driver'.conv = conv
  <2>1. /\ driver'.conv = c /\ Task' = task /\ driver'.place = place
    BY <1>5, <1>8 DEF Task
  <2>2. ASSUME NEW k \in DOMAIN c
        PROVE  c[k].answer.calls # 0 /\ KnownAs(c[k].answer, place, task)'
    BY <1>2, <1>4, <1>5, <1>6, <1>8
  <2>3. Tells(c, run', task) /\ Turns(c) = NextOf(c, Len(c))
    BY <1>1, <1>3, <1>4, <1>5
  <2>4. \A k \in DOMAIN c : KnownAs(driver.conv[k].answer, driver.place, Task)'
    <3> SUFFICES ASSUME NEW k \in DOMAIN c
                 PROVE  KnownAs(driver.conv[k].answer, driver.place, Task)'
      OBVIOUS
    <3>1. PICK b : b = c[k].answer
      OBVIOUS
    <3>2. KnownAs(b, place, task)'
      BY <2>2, <3>1
    <3>3. (driver.conv[k].answer)' = b
      BY <2>1, <3>1
    <3> QED
      BY <2>1, <3>2, <3>3
  <2>5. Turns(driver.conv)' = NextOf(driver'.conv, Len(driver'.conv))
    BY <2>1, <2>3 DEF Turns
  <2>6. DriverFits'
    <3>1. driver'.place = Len(sharegpt') + 1
      BY <1>2, <1>8
    <3>2. Tells(driver'.conv, run', Task')
      BY <2>1, <2>3
    <3>3. \A k \in DOMAIN driver'.conv : driver'.conv[k].answer.calls # 0
      BY <2>1, <2>2
    <3> QED
      BY <1>8, <2>1, <2>4, <2>5, <3>1, <3>2, <3>3 DEF DriverFits, Turns
  <2>7. \A i \in DOMAIN sharegpt' : RecordFits(sharegpt[i], i)'
    BY <1>8, RecordsLeft
  <2> QED
    BY <2>6, <2>7 DEF RecordsFit
<1> QED
  BY <1>4, <1>7, <1>8

\* A task given up leaves a record that fits.
LEMMA GivenUpFits ==
  ASSUME CaptureInv, RecordsFit, [Next]_vars, run' = run,
         driver.kind \in {"minimal", "remote"}, FinishTask(driver.conv, FALSE, TRUE)
  PROVE  RecordsFit'
<1>1. /\ Turns(driver.conv) \in 0 .. MaxSteps - 1 /\ driver.conv \in Seq(Entry)
      /\ MaxSteps \in Nat
  BY NextTurn, CaptureAssumption DEF CaptureInv
<1>2. /\ Tells(driver.conv, run, Task)
      /\ Turns(driver.conv) = NextOf(driver.conv, Len(driver.conv))
      /\ \A k \in DOMAIN driver.conv : /\ driver.conv[k].answer.calls # 0
                                       /\ KnownAs(driver.conv[k].answer, driver.place, Task)
  BY DEF RecordsFit, DriverFits
<1>3. PICK c, place, task : c = driver.conv /\ place = driver.place /\ task = Task
  OBVIOUS
<1>4. ASSUME NEW k \in DOMAIN c PROVE KnownAs(c[k].answer, place, task)'
  <2>1. KnownAs(c[k].answer, place, task)
    BY <1>2, <1>3
  <2> QED
    BY <2>1, KnownStays
<1> DEFINE rec == [index |-> place, task |-> task, conv |-> c,
                   completed |-> FALSE, partial |-> TRUE]
<1>5. EndsWell(rec)
  <2>1. rec.conv = c /\ ~rec.completed /\ rec.partial
    OBVIOUS
  <2>2. DOMAIN c = 1 .. Len(c) /\ NextOf(c, Len(c)) <= MaxSteps
    <3> HIDE DEF Turns
    <3> QED
      BY <1>1, <1>2, <1>3
  <2> HIDE DEF rec
  <2> QED
    BY <1>2, <1>3, <2>1, <2>2 DEF EndsWell
<1> QED
  BY <1>1, <1>2, <1>3, <1>4, <1>5, FinishFits

LEMMA MessagesStay ==
  ASSUME CaptureInv, RecordsFit, [Next]_vars, run' = run, sharegpt' = sharegpt,
         driver'.kind = driver.kind, driver'.place = driver.place,
         driver'.todo = driver.todo, driver'.conv = driver.conv
  PROVE  RecordsFit'
<1>1. PICK c, place, task : c = driver.conv /\ place = driver.place /\ task = Task
  OBVIOUS
<1>2. driver'.conv = c /\ driver'.place = place /\ Task' = task
  BY <1>1 DEF Task
<1>3. CASE driver.kind \notin {"minimal", "remote"}
  <2>1. DriverFits'
    BY <1>2, <1>3 DEF DriverFits, RecordsFit
  <2> QED
    BY <2>1, RecordsLeft DEF RecordsFit
<1>4. CASE driver.kind \in {"minimal", "remote"}
  <2>1. /\ place = Len(sharegpt) + 1 /\ Tells(c, run, task) /\ Turns(c) = NextOf(c, Len(c))
        /\ \A k \in DOMAIN c : c[k].answer.calls # 0 /\ KnownAs(c[k].answer, place, task)
    BY <1>1, <1>4 DEF RecordsFit, DriverFits
  <2>2. ASSUME NEW k \in DOMAIN c
        PROVE  KnownAs(driver.conv[k].answer, driver.place, Task)'
    <3>1. PICK b : b = c[k].answer
      OBVIOUS
    <3>2. KnownAs(b, place, task)'
      BY <2>1, <3>1, KnownStays
    <3>3. (driver.conv[k].answer)' = b
      BY <1>2, <3>1
    <3> QED
      BY <1>2, <3>2, <3>3
  <2>3. Turns(driver.conv)' = NextOf(driver'.conv, Len(driver'.conv))
    BY <1>2, <2>1 DEF Turns
  <2>4. DriverFits'
    <3>1. driver'.place = Len(sharegpt') + 1 /\ Tells(driver'.conv, run', Task')
      BY <1>2, <2>1
    <3>2. \A k \in DOMAIN driver'.conv : driver'.conv[k].answer.calls # 0
      BY <1>2, <2>1
    <3> QED
      BY <1>2, <1>4, <2>2, <2>3, <3>1, <3>2 DEF DriverFits, Turns
  <2> QED
    BY <2>4, RecordsLeft DEF RecordsFit
<1> QED
  BY <1>3, <1>4

LEMMA RecordsFitInductive ==
  CaptureInv /\ SidecarFits /\ RecordsFit /\ [Next]_vars => RecordsFit'
<1> SUFFICES ASSUME CaptureInv, SidecarFits, RecordsFit, [Next]_vars PROVE RecordsFit'
  OBVIOUS
<1>0. Typed /\ DriverOnTrack /\ driver \in Driver
  BY DEF CaptureInv, Typed
<1>1. ASSUME driver'.conv = <<>>,
             driver'.kind \in {"minimal", "remote"} => driver'.place = Len(sharegpt') + 1,
             \A i \in DOMAIN sharegpt' : i \in DOMAIN sharegpt /\ sharegpt'[i] = sharegpt[i]
      PROVE  RecordsFit'
  BY <1>1, EmptyMessages, RecordsLeft DEF RecordsFit
<1>2. ASSUME NEW kind \in {"minimal", "remote"}, NEW chosen \in TaskChoices,
             StartDriver(kind, chosen)
      PROVE  RecordsFit'
  <2>1. driver'.conv = <<>> /\ driver'.place = 1 /\ sharegpt' = <<>>
    BY <1>2 DEF StartDriver, Idle
  <2>2. DOMAIN sharegpt' = {} /\ Len(sharegpt') = 0
    BY <2>1
  <2> QED
    BY <1>1, <2>1, <2>2
<1>3. CASE StartRunner
  <2>1. driver'.conv = <<>> /\ driver'.kind = "runner" /\ sharegpt' = sharegpt
    BY <1>3 DEF StartRunner, Idle
  <2> QED
    BY <1>1, <2>1
<1>4. CASE SendThroughProxy
  <2>1. /\ driver'.kind = driver.kind /\ driver'.place = driver.place
        /\ driver'.todo = driver.todo /\ driver'.conv = driver.conv
    BY <1>0, <1>4 DEF SendThroughProxy, Driver
  <2> QED
    BY <1>4, <2>1, MessagesStay DEF SendThroughProxy
<1>5. CASE Receive
  <2>1. PICK a \in PossibleAnswers(run, Task, Turns(driver.conv)) :
           /\ driver.kind = "minimal" /\ run' = run /\ sidecar' = sidecar
           /\ Consume(a) /\ ~ Past(a)
           /\ \A q \in requests' : <<q.run, q.task, q.turn>> # <<a.run, a.task, a.turn>>
    BY <1>5, Received
  <2>2. a \in Answers /\ Past(a)'
    BY <2>1, TakenIn
  <2> QED
    BY <2>1, <2>2, ConsumeFits
<1>6. CASE AskDirectly
  <2>1. PICK a \in PossibleAnswers(run, Task, Turns(driver.conv)) :
           /\ driver.kind = "remote" /\ run' = run
           /\ Consume(a) /\ ~ Past(a)
           /\ sidecar' = sidecar \o SidecarRecords(<<"index", driver.place>>, a)
           /\ \A q \in requests' : <<q.run, q.task, q.turn>> # <<a.run, a.task, a.turn>>
    BY <1>6, Told
  <2>2. a \in Answers /\ Past(a)'
    BY <2>1, TakenIn
  <2>3. SidecarTypes /\ driver.place \in Nat
    BY <1>0 DEF Typed, SidecarTypes, Driver
  <2>4. ASSUME NEW i \in DOMAIN sidecar', i \notin DOMAIN sidecar
        PROVE  sidecar'[i].key = <<"index", driver.place>>
    <3>1. sidecar'[i] = [key |-> <<"index", driver.place>>, turn |-> a.turn, answer |-> a]
      BY <2>1, <2>2, <2>3, <2>4, AppendedRecord
    <3> QED
      BY <3>1
  <2> QED
    BY <2>1, <2>2, <2>4, ConsumeFits
<1>7. CASE UpstreamFails \/ TimeOut \/ DirectRequestFails
  <2>1. driver.kind \in {"minimal", "remote"}
    BY <1>0, <1>7, Waiting DEF UpstreamFails, TimeOut, DirectRequestFails
  <2>2. FinishTask(driver.conv, FALSE, TRUE) /\ run' = run
    BY <1>7 DEF UpstreamFails, TimeOut, DirectRequestFails
  <2> QED
    BY <2>1, <2>2, GivenUpFits
<1>8. CASE DriverCrash
  <2>1. /\ driver' = Idle
        /\ \A i \in DOMAIN sharegpt' : i \in DOMAIN sharegpt /\ sharegpt'[i] = sharegpt[i]
    BY <1>0, <1>8, CrashStep DEF DriverCrash
  <2>2. driver'.conv = <<>> /\ driver'.kind = "idle"
    BY <2>1 DEF Idle
  <2> QED
    BY <1>1, <2>1, <2>2
<1>9. CASE RunnerLeavesTask \/ RunnerWrites \/ RunnerCrash
  <2>1. /\ driver.kind = "runner" /\ (RunnerMovesOn \/ driver' = Idle)
        /\ sharegpt' = sharegpt
    BY <1>9 DEF RunnerLeavesTask, RunnerWrites, RunnerCrash
  <2>2. driver.conv = <<>>
    BY <2>1 DEF RecordsFit, DriverFits
  <2>3. driver'.conv = <<>> /\ driver'.kind \in {"idle", "runner"}
    <3>1. CASE driver' = Idle
      BY <3>1 DEF Idle
    <3>2. CASE driver' = [driver EXCEPT !.todo = Tail(driver.todo), !.place = driver.place + 1]
      BY <1>0, <2>1, <2>2, <3>2 DEF Driver
    <3> QED
      BY <2>1, <3>1, <3>2 DEF RunnerMovesOn
  <2> QED
    BY <1>1, <2>1, <2>3
<1>10. CASE \/ UpstreamAnswers \/ Capture \/ UNCHANGED vars
            \/ StartMerge \/ WriteTrajectory \/ MergeCrash
  <2>1. run' = run /\ sharegpt' = sharegpt /\ driver' = driver
    BY <1>10 DEF UpstreamAnswers, Capture, vars, StartMerge, WriteTrajectory, MergeCrash
  <2> QED
    BY <2>1, MessagesStay
<1> QED
  BY <1>2, <1>3, <1>4, <1>5, <1>6, <1>7, <1>8, <1>9, <1>10 DEF Next

-----------------------------------------------------------------------------
\* The list of tasks

LEMMA ListsStay ==
  ASSUME ListsFit, driver'.kind = driver.kind, driver'.todo = driver.todo, sharegpt' = sharegpt
  PROVE  ListsFit'
BY DEF ListsFit, Left

\* No driver is at work after the step, and records were only lost.
LEMMA ListsLeft ==
  ASSUME Typed, ListsFit, driver'.kind \notin {"minimal", "remote"},
         sharegpt' \in Seq(ShareGpt),
         \A i \in DOMAIN sharegpt' : i \in DOMAIN sharegpt /\ sharegpt'[i] = sharegpt[i]
  PROVE  ListsFit'
<1>1. /\ Len(sharegpt) \in Nat /\ DOMAIN sharegpt = 1 .. Len(sharegpt)
      /\ Len(sharegpt') \in Nat /\ DOMAIN sharegpt' = 1 .. Len(sharegpt')
      /\ Left \in Nat
  <2>1. sharegpt \in Seq(ShareGpt) /\ driver.todo \in Seq(Tasks)
    BY DEF Typed, Driver
  <2> QED
    BY <2>1 DEF Left
<1>2. Len(sharegpt') <= Len(sharegpt)
  <2>1. CASE Len(sharegpt') = 0
    BY <1>1, <2>1
  <2>2. CASE Len(sharegpt') # 0
    <3>1. Len(sharegpt') \in 1 .. Len(sharegpt)
      BY <1>1, <2>2
    <3> QED
      BY <1>1, <3>1
  <2> QED
    BY <2>1, <2>2
<1>3. Left' = 0
  BY DEF Left
<1>4. CASE \A i \in DOMAIN sharegpt : sharegpt[i].task = i
  BY <1>3, <1>4 DEF ListsFit, Left
<1>5. CASE NTasks # 1 /\ Len(sharegpt) + Left <= 1
  <2>1. Len(sharegpt') + Left' <= 1
    BY <1>1, <1>2, <1>3, <1>5
  <2> QED
    BY <1>5, <2>1 DEF ListsFit, Left
<1> QED
  BY <1>4, <1>5 DEF ListsFit, Left

\* The next task of the list begins.
LEMMA ListsFinish ==
  ASSUME Typed, DriverOnTrack, ListsFit, driver.kind \in {"minimal", "remote"},
         NEW conv \in Seq(Entry), NEW completed \in BOOLEAN, NEW partial \in BOOLEAN,
         FinishTask(conv, completed, partial)
  PROVE  ListsFit'
<1> DEFINE n == Len(sharegpt)
           left == Len(driver.todo)
           rec == [index |-> driver.place, task |-> Task, conv |-> conv,
                   completed |-> completed, partial |-> partial]
<1>1. /\ n \in Nat /\ DOMAIN sharegpt = 1 .. n
      /\ Len(sharegpt') = n + 1 /\ DOMAIN sharegpt' = 1 .. n + 1
      /\ \A i \in 1 .. n : sharegpt'[i] = sharegpt[i]
      /\ sharegpt'[n + 1] = rec
      /\ driver'.todo = Tail(driver.todo)
      /\ driver'.kind = IF Tail(driver.todo) = <<>> THEN "idle" ELSE driver.kind
  BY Finished
<1>2. rec.task = Task
  OBVIOUS
<1> HIDE DEF rec
<1>3. /\ driver.todo \in Seq(Tasks) /\ left \in Nat \ {0} /\ DOMAIN driver.todo = 1 .. left
      /\ Task = driver.todo[1] /\ Len(driver'.todo) = left - 1
      /\ \A i \in 1 .. left - 1 : driver'.todo[i] = driver.todo[i + 1]
  BY <1>1, TaskAtHand
<1>4. Left = left /\ Left' = left - 1
  <2>1. CASE Tail(driver.todo) = <<>>
    <3>1. driver'.todo = <<>> /\ Len(<<>>) = 0
      BY <1>1, <2>1
    <3> QED
      BY <1>1, <1>3, <2>1, <3>1 DEF Left
  <2>2. CASE Tail(driver.todo) # <<>>
    BY <1>1, <1>3, <2>2 DEF Left
  <2> QED
    BY <2>1, <2>2
<1>5. CASE /\ \A i \in DOMAIN sharegpt : sharegpt[i].task = i
           /\ \A i \in 1 .. Left : driver.todo[i] = Len(sharegpt) + i
  <2>1. ASSUME NEW i \in 1 .. n + 1 PROVE sharegpt'[i].task = i
    <3>1. CASE i \in 1 .. n
      BY <1>1, <1>5, <3>1
    <3>2. CASE i = n + 1
      <4>1. 1 \in 1 .. Left
        BY <1>3, <1>4
      <4> QED
        BY <1>1, <1>2, <1>3, <1>5, <3>2, <4>1
    <3> QED
      BY <1>1, <3>1, <3>2
  <2>2. ASSUME NEW i \in 1 .. left - 1 PROVE driver'.todo[i] = Len(sharegpt') + i
    <3>1. i + 1 \in 1 .. Left
      BY <1>3, <1>4
    <3>2. driver'.todo[i] = n + (i + 1)
      BY <1>3, <1>5, <3>1
    <3> QED
      BY <1>1, <3>2
  <2>3. ListsFit'
    BY <1>1, <1>4, <2>1, <2>2 DEF ListsFit, Left
  <2> QED
    BY <2>3
<1>6. CASE NTasks # 1 /\ Len(sharegpt) + Left <= 1
  <2>1. n + left <= 1 /\ (n + 1) + (left - 1) = n + left
    <3>1. n + left <= 1
      BY <1>4, <1>6
    <3>2. \A x, y \in Nat : (x + 1) + (y - 1) = x + y
      OBVIOUS
    <3>3. n \in Nat /\ left \in Nat
      BY <1>1, <1>3
    <3> HIDE DEF n, left
    <3> QED
      BY <3>1, <3>2, <3>3
  <2>2. Len(sharegpt') + Left' = (n + 1) + (left - 1)
    BY <1>1, <1>4
  <2>3. Len(sharegpt') + Left' <= 1
    BY <2>1, <2>2
  <2> QED
    BY <1>6, <2>3 DEF ListsFit, Left
<1> QED
  BY <1>5, <1>6 DEF ListsFit, Left

LEMMA ListsFitInductive == CaptureInv /\ ListsFit /\ [Next]_vars => ListsFit'
<1> SUFFICES ASSUME Typed, DriverOnTrack, CapturedFirst, ListsFit, [Next]_vars, CaptureInv'
             PROVE  ListsFit'
  BY TypesInductive, RequestsInductive, CapturedInductive DEF CaptureInv
<1>0. driver \in Driver /\ sharegpt' \in Seq(ShareGpt)
  BY DEF CaptureInv, Typed
<1>1. ASSUME driver'.kind \notin {"minimal", "remote"},
             \A i \in DOMAIN sharegpt' : i \in DOMAIN sharegpt /\ sharegpt'[i] = sharegpt[i]
      PROVE  ListsFit'
  BY <1>0, <1>1, ListsLeft
<1>2. ASSUME driver'.kind = driver.kind, driver'.todo = driver.todo, sharegpt' = sharegpt
      PROVE  ListsFit'
  BY <1>2, ListsStay
<1>3. ASSUME NEW a \in Answers, driver.kind \in {"minimal", "remote"}, Consume(a)
      PROVE  ListsFit'
  <2>1. PICK conv : conv = driver.conv \o EntriesOf(a)
    OBVIOUS
  <2>2. /\ conv \in Seq(Entry)
        /\ \/ FinishTask(conv, a.calls = 0, FALSE)
           \/ /\ sharegpt' = sharegpt
              /\ driver'.kind = driver.kind /\ driver'.todo = driver.todo
    BY <1>3, <2>1, Consumed
  <2>3. PICK completed \in BOOLEAN : completed = (a.calls = 0)
    OBVIOUS
  <2>4. FinishTask(conv, completed, FALSE) => ListsFit'
    BY <1>3, <2>2, ListsFinish
  <2> QED
    BY <1>2, <2>2, <2>3, <2>4
<1>4. ASSUME NEW kind \in {"minimal", "remote"}, NEW chosen \in TaskChoices,
             StartDriver(kind, chosen)
      PROVE  ListsFit'
  <2>1. driver'.kind = kind /\ driver'.todo = chosen /\ sharegpt' = <<>>
    BY <1>4 DEF StartDriver, Idle
  <2>2. DOMAIN sharegpt' = {} /\ Len(sharegpt') = 0 /\ Left' = Len(chosen) /\ NTasks \in Nat
    BY <2>1, CaptureAssumption DEF Left
  <2>3. CASE chosen = [t \in 1 .. NTasks |-> t]
    <3>1. \A i \in 1 .. Left' : driver'.todo[i] = Len(sharegpt') + i
      BY <2>1, <2>2, <2>3
    <3> QED
      BY <2>2, <3>1 DEF ListsFit, Left
  <2>4. ASSUME NEW t \in 1 .. NTasks, chosen = <<t>> PROVE ListsFit'
    <3>1. Len(chosen) = 1 /\ chosen[1] = t
      BY <2>4
    <3>2. CASE NTasks = 1
      <4>1. \A i \in 1 .. Left' : driver'.todo[i] = Len(sharegpt') + i
        BY <2>1, <2>2, <3>1, <3>2
      <4> QED
        BY <2>2, <4>1 DEF ListsFit, Left
    <3>3. CASE NTasks # 1
      <4>1. Len(sharegpt') + Left' <= 1
        BY <2>2, <3>1
      <4> QED
        BY <3>3, <4>1 DEF ListsFit, Left
    <3> QED
      BY <3>2, <3>3
  <2> QED
    BY <2>3, <2>4, CaptureAssumption
<1>5. CASE StartRunner
  BY <1>1, <1>5 DEF StartRunner, Idle
<1>6. CASE SendThroughProxy
  <2>1. driver'.kind = driver.kind /\ driver'.todo = driver.todo /\ sharegpt' = sharegpt
    BY <1>0, <1>6 DEF SendThroughProxy, Driver
  <2> QED
    BY <1>2, <2>1
<1>7. CASE Receive
  <2>1. PICK q \in MyRequest : q.captured /\ Consume(q.answer)
    BY <1>7 DEF Receive, MayPassOn
  <2>2. driver.kind = "minimal" /\ q.answer \in Answers
    BY <2>1, Waiting, AnswerTypes DEF MyRequest, CapturedFirst
  <2> QED
    BY <1>3, <2>1, <2>2
<1>8. CASE AskDirectly
  <2>1. PICK a \in PossibleAnswers(run, Task, Turns(driver.conv)) : Consume(a)
    BY <1>8 DEF AskDirectly
  <2>2. a \in Answers /\ driver.kind = "remote"
    BY <1>8, NextTurn DEF AskDirectly, PossibleAnswers, Answers
  <2> QED
    BY <1>3, <2>1, <2>2
<1>9. CASE UpstreamFails \/ TimeOut \/ DirectRequestFails
  <2>1. driver.kind \in {"minimal", "remote"} /\ driver.conv \in Seq(Entry)
    BY <1>9, Waiting, NextTurn DEF UpstreamFails, TimeOut, DirectRequestFails
  <2>2. FinishTask(driver.conv, FALSE, TRUE)
    BY <1>9 DEF UpstreamFails, TimeOut, DirectRequestFails
  <2> QED
    BY <2>1, <2>2, ListsFinish
<1>10. CASE DriverCrash
  <2>1. driver'.kind = "idle"
    BY <1>10 DEF DriverCrash, Idle
  <2> QED
    BY <1>1, <1>10, <2>1, CrashStep
<1>11. CASE RunnerLeavesTask \/ RunnerWrites \/ RunnerCrash
  <2>1. /\ driver.kind = "runner" /\ (RunnerMovesOn \/ driver' = Idle)
        /\ sharegpt' = sharegpt
    BY <1>11 DEF RunnerLeavesTask, RunnerWrites, RunnerCrash
  <2>2. driver'.kind \in {"idle", "runner"}
    <3>1. CASE driver' = Idle
      BY <3>1 DEF Idle
    <3>2. CASE driver' = [driver EXCEPT !.todo = Tail(driver.todo), !.place = driver.place + 1]
      BY <1>0, <2>1, <3>2 DEF Driver
    <3> QED
      BY <2>1, <3>1, <3>2 DEF RunnerMovesOn
  <2> QED
    BY <1>1, <2>1, <2>2
<1>12. CASE \/ UpstreamAnswers \/ Capture \/ UNCHANGED vars
            \/ StartMerge \/ WriteTrajectory \/ MergeCrash
  BY <1>2, <1>12 DEF UpstreamAnswers, Capture, vars, StartMerge, WriteTrajectory, MergeCrash
<1> QED
  BY <1>4, <1>5, <1>6, <1>7, <1>8, <1>9, <1>10, <1>11, <1>12 DEF Next

-----------------------------------------------------------------------------
\* The trajectory files

\* A good file stays good.
LEMMA FileStays ==
  ASSUME CaptureInv, [Next]_vars, NEW f, NEW t, GoodFile(f, t)
  PROVE  GoodFile(f, t)'
<1>1. SidecarGrows
  BY SidecarSteps
<1>2. ASSUME NEW k \in DOMAIN f.steps
      PROVE  Past(f.steps[k].answer)' /\ StepFits(f.steps[k])'
  <2>1. PICK step : step = f.steps[k]
    OBVIOUS
  <2>2. Past(step.answer) /\ StepFits(step)
    BY <2>1 DEF GoodFile
  <2>3. Past(step.answer)'
    BY <2>2, PastStays
  <2>4. /\ RecordsOf(step.answer)' = RecordsOf(step.answer)
        /\ \A i \in RecordsOf(step.answer) : sidecar'[i] = sidecar[i]
    BY <2>2, RecordsStay
  <2>5. StepFits(step)'
    <3>1. CASE step.probes = step.answer
      BY <3>1 DEF StepFits
    <3>2. CASE \A i \in {i \in RecordsOf(step.answer) : Coerce(sidecar[i].key)[1] # "number"} :
                 \E j \in RecordsOf(step.probes) : sidecar[j].key[1] # sidecar[i].key[1]
      <4> SUFFICES ASSUME NEW i \in RecordsOf(step.answer)',
                          Coerce(sidecar'[i].key)[1] # "number"
                   PROVE  \E j \in RecordsOf(step.probes)' :
                            sidecar'[j].key[1] # sidecar'[i].key[1]
        BY DEF StepFits, Coerce
      <4>1. i \in RecordsOf(step.answer) /\ sidecar'[i] = sidecar[i]
        BY <2>4
      <4>2. PICK j \in RecordsOf(step.probes) : sidecar[j].key[1] # sidecar[i].key[1]
        BY <3>2, <4>1
      <4>3. j \in RecordsOf(step.probes)' /\ sidecar'[j] = sidecar[j]
        BY <1>1, <4>2 DEF RecordsOf, SidecarGrows
      <4> QED
        BY <4>1, <4>2, <4>3
    <3> QED
      BY <2>2, <3>1, <3>2 DEF StepFits
  <2> QED
    BY <2>1, <2>3, <2>5
<1>3. FileOfRun(f, t)
  BY DEF GoodFile
<1>4. FileOfRun(f, t)'
  BY <1>3 DEF FileOfRun, RightResults
<1> QED
  BY <1>2, <1>4 DEF GoodFile

\* A key that no digits replace.
LEMMA KeyKept ==
  ASSUME NEW key \in {"hash", "index"} \X Nat, NEW i \in Nat, NEW task \in Nat
  PROVE  /\ Coerce(key)[1] # "number" => Coerce(key) = key
         /\ Coerce(key) \in {<<"index", i>>, <<"hash", task>>} => Coerce(key) = key
BY DEF Coerce

\* The probes on a step are those of its answer, or of an answer recorded under
\* another kind of key.
LEMMA ProbesOfStep ==
  ASSUME Typed, ~HasDuplicate(sidecar), NEW sg \in ShareGpt, NEW a, NEW i \in Nat,
         sg.index = i, KnownAs(a, i, sg.task),
         NEW step, step.answer = a, step.probes = ProbesFor(sg, a.turn)
  PROVE  StepFits(step)
<1> SUFFICES ASSUME NEW m \in RecordsOf(a), Coerce(sidecar[m].key)[1] # "number",
                    step.probes # a
             PROVE  \E j \in RecordsOf(step.probes) : sidecar[j].key[1] # sidecar[m].key[1]
  BY DEF StepFits
<1> DEFINE fits == {k \in DOMAIN sidecar : /\ Coerce(sidecar[k].key) \in Candidates(sg)
                                           /\ sidecar[k].turn = a.turn}
<1>1. m \in DOMAIN sidecar /\ sidecar[m].answer = a
  BY DEF RecordsOf
<1>2. /\ sidecar[m].key \in {<<"index", i>>, <<"hash", sg.task>>} /\ sidecar[m].turn = a.turn
      /\ sidecar[m].key \in {"hash", "index"} \X Nat /\ sg.task \in Nat
      /\ Candidates(sg) = {<<"index", i>>, <<"hash", sg.task>>}
  BY <1>1, ProbeTypes, CaptureAssumption DEF KnownAs, Candidates, ShareGpt, Tasks
<1>3. Coerce(sidecar[m].key) = sidecar[m].key
  BY <1>2, KeyKept
<1>4. m \in fits
  BY <1>1, <1>2, <1>3
<1>5. PICK j \in fits : step.probes = sidecar[j].answer
  BY <1>4, Found
<1>6. j \in RecordsOf(step.probes) /\ j # m
  BY <1>1, <1>5 DEF RecordsOf
<1>7. /\ j \in DOMAIN sidecar /\ sidecar[j].key \in {"hash", "index"} \X Nat
      /\ sidecar[j].turn = a.turn /\ Coerce(sidecar[j].key) \in Candidates(sg)
  BY <1>5, ProbeTypes
<1>8. Coerce(sidecar[j].key) = sidecar[j].key
  BY <1>2, <1>7, KeyKept
<1>9. ASSUME sidecar[j].key[1] = sidecar[m].key[1] PROVE FALSE
  <2>1. sidecar[j].key = sidecar[m].key
    BY <1>2, <1>7, <1>8, <1>9
  <2> QED
    BY <1>1, <1>2, <1>6, <1>7, <2>1 DEF HasDuplicate
<1> QED
  BY <1>6, <1>9

\* What the merge makes of a record of a whole list.
LEMMA MergedFile ==
  ASSUME CaptureInv, RecordsFit, ListsFit, driver = Idle, MayMerge,
         NEW i \in DOMAIN sharegpt
  PROVE  GoodFile(Adapt(sharegpt[i]), i)
<1>1. /\ sharegpt \in Seq(ShareGpt) /\ DOMAIN sharegpt = 1 .. Len(sharegpt) /\ Typed
      /\ Len(sharegpt) = NTasks /\ ~HasDuplicate(sidecar) /\ NTasks \in Nat \ {0}
      /\ MaxSteps \in Nat \ {0}
  BY CaptureAssumption DEF CaptureInv, Typed, MayMerge
<1>2. PICK sg \in ShareGpt : sg = sharegpt[i]
  BY <1>1
<1>3. i \in Nat /\ sg.task = i
  <2>1. i \in Nat /\ driver.kind = "idle"
    BY <1>1 DEF Idle
  <2>2. ~ (NTasks # 1 /\ Len(sharegpt) + 0 <= 1)
    BY <1>1
  <2> QED
    BY <1>2, <2>1, <2>2 DEF ListsFit, Left
<1>4. /\ sg.index = i /\ EndsWell(sg)
      /\ \A k \in DOMAIN sg.conv : KnownAs(sg.conv[k].answer, i, sg.task)
  BY <1>2 DEF RecordsFit, RecordFits
<1>5. PICK r : Tells(sg.conv, r, sg.task)
  BY <1>2 DEF RecordsFit, RecordFits
<1> DEFINE n == Len(sg.conv)
<1>6. PICK acc : /\ AdaptedSoFar(sg, r, acc, n)
                 /\ Adapt(sg) = [steps |-> acc.steps, terminal |-> Terminal(sg, acc.steps)]
  BY <1>1, <1>5, Adapted
<1>7. PICK file : file = Adapt(sg)
  OBVIOUS
<1>8. file.steps = acc.steps /\ file.terminal = Terminal(sg, acc.steps)
  BY <1>6, <1>7
<1> DEFINE m == Len(acc.steps)
<1>9. /\ n \in Nat /\ DOMAIN sg.conv = 1 .. n /\ sg.conv \in Seq(Entry)
  BY DEF ShareGpt
<1>10. ~ acc.pending
  <2> SUFFICES ASSUME acc.pending PROVE FALSE
    OBVIOUS
  <2>1. n # 0 /\ sg.conv[n].from = "gpt" /\ sg.conv[n].answer.calls # 0
    BY <1>6 DEF AdaptedSoFar
  <2>2. n \in DOMAIN sg.conv /\ n + 1 \notin DOMAIN sg.conv
    BY <1>9, <2>1
  <2> QED
    BY <1>5, <2>1, <2>2 DEF Tells
<1>11. /\ acc.steps \in Seq(Step) /\ m \in Nat /\ m = NextOf(sg.conv, n)
       /\ DOMAIN acc.steps = 1 .. m
       /\ n # 0 => m # 0 /\ acc.steps[m].answer = sg.conv[n].answer
       /\ \A k \in 1 .. m :
            /\ acc.steps[k].answer.run = r
            /\ acc.steps[k].answer.task = i
            /\ acc.steps[k].answer.turn = k - 1
            /\ \E j \in 1 .. n : sg.conv[j].answer = acc.steps[k].answer
            /\ acc.steps[k].probes = ProbesFor(sg, k - 1)
            /\ RightResults(acc.steps[k].results)
  BY <1>3, <1>6, <1>10 DEF AdaptedSoFar
<1>12. ASSUME NEW k \in 1 .. m PROVE Past(acc.steps[k].answer) /\ StepFits(acc.steps[k])
  <2>1. PICK j \in 1 .. n : sg.conv[j].answer = acc.steps[k].answer
    BY <1>11
  <2>2. PICK a : a = acc.steps[k].answer
    OBVIOUS
  <2>3. KnownAs(a, i, sg.task)
    BY <1>4, <1>9, <2>1, <2>2
  <2>4. acc.steps[k].probes = ProbesFor(sg, a.turn)
    BY <1>11, <2>2
  <2>5. StepFits(acc.steps[k])
    BY <1>1, <1>3, <1>4, <2>2, <2>3, <2>4, ProbesOfStep
  <2> QED
    BY <2>2, <2>3, <2>5 DEF KnownAs
<1>13. n = 0 <=> m = 0
  BY <1>9, <1>11 DEF NextOf
<1>14. m # 0 => Last(acc.steps) = acc.steps[m] /\ acc.steps # <<>>
  BY <1>11 DEF Last
<1>15. m = 0 => acc.steps = <<>>
  BY <1>11
<1> HIDE DEF m, n
<1>16. /\ m <= MaxSteps
       /\ \A k \in 1 .. n : sg.conv[k].answer.calls = 0 => k = n /\ sg.completed /\ ~sg.partial
       /\ sg.completed => n # 0 /\ sg.conv[n].answer.calls = 0
       /\ ~sg.completed /\ ~sg.partial => m = MaxSteps
  BY <1>4, <1>11 DEF EndsWell, n
<1>17. file.terminal = "answered" <=> acc.steps # <<>> /\ Last(acc.steps).answer.calls = 0
  <2>1. CASE m = 0
    BY <1>8, <1>15, <2>1 DEF Terminal
  <2>2. CASE m # 0
    <3>1. n \in 1 .. n /\ acc.steps # <<>> /\ Last(acc.steps).answer = sg.conv[n].answer
      BY <1>9, <1>11, <1>13, <1>14, <2>2
    <3>2. CASE sg.conv[n].answer.calls = 0
      BY <1>8, <1>16, <3>1, <3>2 DEF Terminal
    <3>3. CASE sg.conv[n].answer.calls # 0
      BY <1>8, <1>16, <3>1, <3>3 DEF Terminal
    <3> QED
      BY <3>2, <3>3
  <2> QED
    BY <2>1, <2>2
<1>18. file.terminal = "max_steps" => m = MaxSteps
  <2> SUFFICES ASSUME file.terminal = "max_steps", m # MaxSteps PROVE FALSE
    OBVIOUS
  <2>1. m # 0 /\ ~sg.partial /\ ~(sg.completed /\ Last(acc.steps).answer.calls = 0)
    BY <1>8, <1>15 DEF Terminal
  <2>2. sg.completed /\ n # 0 /\ sg.conv[n].answer.calls = 0
    BY <1>16, <2>1
  <2> QED
    BY <1>11, <1>14, <2>1, <2>2
<1>19. Len(file.steps) = m /\ DOMAIN file.steps = 1 .. m
  BY <1>8, <1>11 DEF m
<1>20. ASSUME NEW k \in 1 .. m
       PROVE  /\ file.steps[k].answer.task = i
              /\ file.steps[k].answer.run = file.steps[1].answer.run
              /\ file.steps[k].answer.turn = k - 1
              /\ RightResults(file.steps[k].results)
              /\ Past(file.steps[k].answer) /\ StepFits(file.steps[k])
  <2>1. 1 \in 1 .. m
    BY <1>11
  <2> QED
    BY <1>8, <1>11, <1>12, <2>1
<1>21. GoodFile(file, i)
  BY <1>8, <1>16, <1>17, <1>18, <1>19, <1>20 DEF GoodFile, FileOfRun
<1> QED
  BY <1>2, <1>7, <1>21

\* What the command line runner writes.
LEMMA RunnersFile ==
  ASSUME CaptureInv, RunnerWrites
  PROVE  \E f, t : /\ t = Task /\ GoodFile(f, t)'
                   /\ trajectories' = [trajectories EXCEPT ![t] = f]
<1>0. /\ Typed /\ DriverOnTrack /\ OneRequest /\ MaxSteps \in Nat \ {0} /\ run \in 1 .. MaxRuns
      /\ Task \in Tasks /\ driver.kind = "runner" /\ Calls \subseteq Nat
      /\ run \in Nat
  BY TaskAtHand, CaptureAssumption DEF CaptureInv, Typed, RunnerWrites
<1>1. PICK log \in Logs :
        trajectories' = [trajectories EXCEPT ![Task] =
          AdaptJsonl([k \in DOMAIN log |->
            [run |-> run, task |-> Task, turn |-> k - 1, calls |-> log[k],
             probes |-> FALSE]])]
  BY DEF RunnerWrites
<1>2. PICK n \in 0 .. MaxSteps : log \in [1 .. n -> Calls]
  BY DEF Logs
<1>3. PICK task, r : task = Task /\ r = run
  OBVIOUS
<1> DEFINE answers == [k \in 1 .. n |-> [run |-> r, task |-> task, turn |-> k - 1,
                                         calls |-> log[k], probes |-> FALSE]]
<1>4. \A k \in 1 .. n : /\ answers[k] \in Answers /\ answers[k].run = r
                        /\ answers[k].task = task /\ answers[k].turn = k - 1
                        /\ answers[k].calls \in Nat /\ ~answers[k].probes
  <2> SUFFICES ASSUME NEW k \in 1 .. n
               PROVE  /\ answers[k] \in Answers /\ answers[k].run = r
                      /\ answers[k].task = task /\ answers[k].turn = k - 1
                      /\ answers[k].calls \in Nat /\ ~answers[k].probes
    OBVIOUS
  <2>1. PICK a : a = [run |-> r, task |-> task, turn |-> k - 1, calls |-> log[k], probes |-> FALSE]
    OBVIOUS
  <2>2. answers[k] = a
    BY <2>1
  <2> HIDE DEF answers
  <2>3. k - 1 \in 0 .. MaxSteps - 1 /\ log[k] \in Calls /\ log[k] \in Nat
    <3>1. MaxSteps \in Nat /\ n \in Nat /\ n <= MaxSteps
      BY <1>0
    <3>2. k - 1 \in 0 .. MaxSteps - 1
      BY <3>1
    <3>3. log[k] \in Calls
      BY <1>2
    <3> QED
      BY <1>0, <3>2, <3>3
  <2>4. a \in Answers
    BY <1>0, <1>3, <2>1, <2>3 DEF Answers
  <2> QED
    BY <2>1, <2>2, <2>3, <2>4
<1>5. Len(answers) = n /\ DOMAIN answers = 1 .. n
  BY <1>2
<1>6. PICK file : file = AdaptJsonl(answers)
  OBVIOUS
<1>7. trajectories' = [trajectories EXCEPT ![Task] = file]
  BY <1>1, <1>2, <1>3, <1>6
<1> HIDE DEF answers
<1> DEFINE steps == [k \in 1 .. n |-> [answer |-> answers[k], probes |-> Absent,
                                       results |-> [c \in 1 .. answers[k].calls |-> c]]]
<1>8. /\ file.steps = steps
      /\ file.terminal = IF answers = <<>> THEN "error"
                         ELSE IF Last(answers).calls = 0 THEN "answered"
                         ELSE IF Len(answers) >= MaxSteps THEN "max_steps"
                         ELSE "error"
  BY <1>5, <1>6 DEF AdaptJsonl
<1>9. /\ Len(steps) = n /\ DOMAIN steps = 1 .. n
      /\ \A k \in 1 .. n : /\ steps[k].answer = answers[k] /\ steps[k].probes = Absent
                           /\ steps[k].results = [c \in 1 .. answers[k].calls |-> c]
  <2>1. n \in Nat
    BY <1>0, <1>2
  <2>2. Len(steps) = n /\ DOMAIN steps = 1 .. n
    BY <2>1
  <2>3. ASSUME NEW k \in 1 .. n
        PROVE  /\ steps[k].answer = answers[k] /\ steps[k].probes = Absent
               /\ steps[k].results = [c \in 1 .. answers[k].calls |-> c]
    <3>1. PICK s : s = [answer |-> answers[k], probes |-> Absent,
                        results |-> [c \in 1 .. answers[k].calls |-> c]]
      OBVIOUS
    <3>2. steps[k] = s
      BY <3>1
    <3> HIDE DEF steps
    <3> QED
      BY <3>1, <3>2
  <2> QED
    BY <2>2, <2>3
<1> HIDE DEF steps
<1>10. \A k \in 1 .. n : RightResults(steps[k].results)
  <2> SUFFICES ASSUME NEW k \in 1 .. n PROVE RightResults([c \in 1 .. answers[k].calls |-> c])
    BY <1>9
  <2>1. PICK b \in Nat : b = answers[k].calls
    BY <1>4
  <2>2. RightResults([c \in 1 .. b |-> c])
    <3>1. CASE b = 0
      <4>1. [c \in 1 .. b |-> c] = <<>>
        BY <3>1
      <4> QED
        BY <4>1 DEF RightResults
    <3>2. CASE b # 0
      <4>1. 1 \in 1 .. b
        BY <3>2
      <4> QED
        BY <4>1 DEF RightResults
    <3> QED
      BY <3>1, <3>2
  <2> QED
    BY <2>1, <2>2
<1>11. /\ n = 0 <=> answers = <<>>
       /\ n = 0 <=> steps = <<>>
       /\ n # 0 => Last(answers) = answers[n] /\ Last(steps) = steps[n] /\ n \in 1 .. n
  BY <1>2, <1>5, <1>9 DEF Last
<1>12. FileOfRun(file, task)
  <2>1. file.terminal = "answered" <=> steps # <<>> /\ Last(steps).answer.calls = 0
    <3>1. CASE n = 0
      BY <1>8, <1>11, <3>1
    <3>2. CASE n # 0
      <4>1. Last(steps).answer = Last(answers) /\ steps # <<>> /\ answers # <<>>
        BY <1>9, <1>11, <3>2
      <4> QED
        BY <1>8, <4>1
    <3> QED
      BY <3>1, <3>2
  <2>2. file.terminal = "max_steps" => n = MaxSteps
    BY <1>0, <1>2, <1>5, <1>8
  <2>3. n <= MaxSteps
    BY <1>0, <1>2
  <2>4. ASSUME NEW k \in 1 .. n
        PROVE  /\ steps[k].answer.task = task
               /\ steps[k].answer.run = steps[1].answer.run
               /\ steps[k].answer.turn = k - 1
    <3>1. 1 \in 1 .. n
      BY <1>2
    <3>2. steps[k].answer = answers[k] /\ steps[1].answer = answers[1]
      BY <1>9, <3>1
    <3>3. answers[1].run = r /\ answers[k].run = r /\ answers[k].task = task /\ answers[k].turn = k - 1
      BY <1>4, <3>1
    <3> QED
      BY <3>2, <3>3
  <2> QED
    BY <1>8, <1>9, <1>10, <2>1, <2>2, <2>3, <2>4 DEF FileOfRun
<1>13. /\ run' = run /\ requests' = requests /\ sidecar' = sidecar
       /\ Range(driver'.todo) \subseteq Range(driver.todo) \ {Task}
  <2>1. /\ run' = run /\ requests' = requests /\ sidecar' = sidecar /\ RunnerMovesOn
    BY DEF RunnerWrites
  <2>2. Range(Tail(driver.todo)) \subseteq Range(driver.todo) \ {Task}
    BY <1>0, MovesOn
  <2>3. driver'.todo = Tail(driver.todo)
    <3>1. driver \in Driver
      BY <1>0 DEF Typed
    <3>2. CASE Tail(driver.todo) = <<>>
      BY <2>1, <3>2 DEF RunnerMovesOn, Idle
    <3>3. CASE Tail(driver.todo) # <<>>
      BY <2>1, <3>1, <3>3 DEF RunnerMovesOn, Driver
    <3> QED
      BY <3>2, <3>3
  <2> QED
    BY <2>1, <2>2, <2>3
<1>14. ASSUME NEW k \in 1 .. n PROVE Past(file.steps[k].answer)' /\ StepFits(file.steps[k])'
  <2>1. PICK a : a = answers[k]
    OBVIOUS
  <2>2. PICK step : step = file.steps[k]
    OBVIOUS
  <2>3. step.answer = a /\ a \in Answers /\ a.run = r /\ a.task = task /\ ~a.probes
    BY <1>4, <1>8, <1>9, <2>1, <2>2
  <2>4. Past(a)'
    <3>1. a.run <= run' /\ a.task \notin Range(driver'.todo)
      BY <1>0, <1>3, <1>13, <2>3
    <3>2. \A q \in requests : ~ (q.run = run /\ q.task = Task)
      <4>1. Task \in Range(driver.todo)
        BY <1>0, TaskAtHand DEF Range
      <4> QED
        BY <1>0, <4>1, Waiting DEF OneRequest
    <3> QED
      BY <1>3, <1>13, <2>3, <3>1, <3>2 DEF Past, Settled
  <2>5. StepFits(step)'
    <3>1. RecordsOf(a)' = {}
      BY <1>0, <1>13, <2>3, ProbeTypes DEF RecordsOf
    <3> QED
      BY <2>3, <3>1 DEF StepFits
  <2> QED
    BY <2>2, <2>3, <2>4, <2>5
<1>15. PICK f : f = file
  OBVIOUS
<1>16. GoodFile(f, task)'
  <2>1. FileOfRun(f, task)'
    BY <1>12, <1>15 DEF FileOfRun, RightResults
  <2>2. DOMAIN f.steps = 1 .. n
    BY <1>8, <1>9, <1>15
  <2> QED
    BY <1>14, <1>15, <2>1, <2>2 DEF GoodFile
<1> QED
  BY <1>3, <1>7, <1>15, <1>16

\* The trajectories a merge has yet to write.
LEMMA MergeList ==
  ASSUME Typed, merging # <<>>
  PROVE  /\ Head(merging) = merging[1] /\ 1 \in DOMAIN merging
         /\ \A i \in DOMAIN Tail(merging) :
              i + 1 \in DOMAIN merging /\ Tail(merging)[i] = merging[i + 1]
<1>1. merging \in Seq(Range(merging))
  BY DEF Typed
<1> DEFINE T == Range(merging)
<1> HIDE DEF T
<1>2. merging \in Seq(T)
  BY <1>1 DEF T
<1>3. ASSUME NEW s \in Seq(T), s # <<>>
      PROVE  /\ Head(s) = s[1] /\ 1 \in DOMAIN s
             /\ \A i \in DOMAIN Tail(s) : i + 1 \in DOMAIN s /\ Tail(s)[i] = s[i + 1]
  BY <1>3
<1> QED
  BY <1>2, <1>3

\* A file that is written, or is to be, was good before or is good now.
FileKept(f, t) ==
  \/ \E i \in DOMAIN merging : f = merging[i].file /\ t = merging[i].task
  \/ t \in Written /\ f = trajectories[t]

LEMMA FilesMove ==
  ASSUME CaptureInv, RecordsFit, ListsFit, FilesFit, [Next]_vars,
         NEW f, NEW t, FileKept(f, t)'
  PROVE  \/ FileKept(f, t)
         \/ StartMerge /\ \E i \in DOMAIN sharegpt : t = i /\ f = Adapt(sharegpt[i])
         \/ RunnerWrites /\ t = Task /\ trajectories'[t] = f
<1>0. Typed /\ DOMAIN trajectories = Tasks
  BY DEF CaptureInv, Typed
<1>1. ASSUME merging' = merging, trajectories' = trajectories PROVE FileKept(f, t)
  BY <1>1 DEF FileKept, Written
<1>2. CASE StartMerge
  <2>1. /\ merging' = [i \in DOMAIN sharegpt |-> [task |-> i, file |-> Adapt(sharegpt[i])]]
        /\ trajectories' = trajectories
    BY <1>2 DEF StartMerge
  <2>2. CASE t \in Written' /\ f = trajectories'[t]
    BY <2>1, <2>2 DEF FileKept, Written
  <2>3. ASSUME NEW i \in DOMAIN merging', f = merging'[i].file, t = merging'[i].task
        PROVE  i \in DOMAIN sharegpt /\ t = i /\ f = Adapt(sharegpt[i])
    <3>1. i \in DOMAIN sharegpt /\ merging'[i] = [task |-> i, file |-> Adapt(sharegpt[i])]
      BY <2>1
    <3> QED
      BY <2>3, <3>1
  <2> QED
    BY <1>2, <2>2, <2>3 DEF FileKept
<1>3. CASE WriteTrajectory
  <2>1. /\ merging # <<>> /\ merging' = Tail(merging)
        /\ trajectories' = [trajectories EXCEPT ![Head(merging).task] = Head(merging).file]
    BY <1>3 DEF WriteTrajectory
  <2>2. CASE t \in Written' /\ f = trajectories'[t]
    <3>1. t \in Tasks
      BY <2>2 DEF Written
    <3>2. CASE t = Head(merging).task
      <4>1. f = Head(merging).file
        BY <1>0, <2>1, <2>2, <3>1, <3>2
      <4> QED
        BY <1>0, <2>1, <3>2, <4>1, MergeList DEF FileKept
    <3>3. CASE t # Head(merging).task
      <4>1. trajectories'[t] = trajectories[t]
        BY <1>0, <2>1, <3>1, <3>3
      <4> QED
        BY <2>2, <4>1 DEF FileKept, Written
    <3> QED
      BY <3>2, <3>3
  <2>3. ASSUME NEW i \in DOMAIN merging', f = merging'[i].file, t = merging'[i].task
        PROVE  FileKept(f, t)
    <3>1. i + 1 \in DOMAIN merging /\ merging'[i] = merging[i + 1]
      BY <1>0, <2>1, MergeList
    <3> QED
      BY <2>3, <3>1 DEF FileKept
  <2> QED
    BY <2>2, <2>3 DEF FileKept
<1>4. ASSUME NEW task \in Tasks, NEW file \in {trajectories[task], Absent, Torn},
             trajectories' = [trajectories EXCEPT ![task] = file],
             merging' = <<>> \/ merging' = merging
      PROVE  FileKept(f, t)
  <2>1. CASE t \in Written' /\ f = trajectories'[t]
    <3>1. t \in Tasks /\ trajectories'[t] \notin {Absent, Torn}
      BY <2>1 DEF Written
    <3>2. trajectories'[t] = trajectories[t]
      <4>1. CASE t = task
        BY <1>0, <1>4, <3>1, <4>1
      <4>2. CASE t # task
        BY <1>0, <1>4, <3>1, <4>2
      <4> QED
        BY <4>1, <4>2
    <3> QED
      BY <2>1, <3>1, <3>2 DEF FileKept, Written
  <2>2. ASSUME NEW i \in DOMAIN merging', f = merging'[i].file, t = merging'[i].task
        PROVE  FileKept(f, t)
    <3>1. merging' = merging
      <4>1. DOMAIN <<>> = {}
        OBVIOUS
      <4> QED
        BY <1>4, <2>2, <4>1
    <3> QED
      BY <2>2, <3>1 DEF FileKept
  <2> QED
    BY <2>1, <2>2 DEF FileKept
<1>5. CASE MergeCrash
  <2>1. Head(merging).task \in Tasks
    BY <1>0, <1>5, MergeList DEF MergeCrash, Typed
  <2> QED
    BY <1>4, <1>5, <2>1 DEF MergeCrash
<1>6. CASE RunnerCrash
  <2>1. Task \in Tasks /\ merging' = merging
    BY <1>0, <1>6, TaskAtHand DEF RunnerCrash
  <2> QED
    BY <1>4, <1>6, <2>1 DEF RunnerCrash
<1>7. CASE RunnerWrites
  <2>1. /\ Task \in Tasks /\ merging' = merging
        /\ \E g : trajectories' = [trajectories EXCEPT ![Task] = g]
    BY <1>0, <1>7, TaskAtHand DEF RunnerWrites
  <2>2. CASE t \in Written' /\ f = trajectories'[t]
    <3>1. t # Task => trajectories'[t] = trajectories[t]
      BY <1>0, <2>1
    <3> QED
      BY <1>7, <2>2, <3>1 DEF FileKept, Written
  <2>3. ASSUME NEW i \in DOMAIN merging', f = merging'[i].file, t = merging'[i].task
        PROVE  FileKept(f, t)
    BY <2>1, <2>3 DEF FileKept
  <2> QED
    BY <2>2, <2>3 DEF FileKept
<1>8. CASE ~StartMerge /\ ~WriteTrajectory /\ ~MergeCrash /\ ~RunnerCrash /\ ~RunnerWrites
  <2>1. merging' = merging /\ trajectories' = trajectories
    BY <1>8 DEF Next, vars, StartDriver, SendThroughProxy, UpstreamAnswers, Capture, Receive,
                UpstreamFails, TimeOut, AskDirectly, DirectRequestFails, DriverCrash,
                StartRunner, RunnerLeavesTask
  <2> QED
    BY <1>1, <2>1
<1> QED
  BY <1>2, <1>3, <1>5, <1>6, <1>7, <1>8

LEMMA FilesFitInductive ==
  CaptureInv /\ RecordsFit /\ ListsFit /\ FilesFit /\ [Next]_vars => FilesFit'
<1> SUFFICES ASSUME CaptureInv, RecordsFit, ListsFit, FilesFit, [Next]_vars PROVE FilesFit'
  OBVIOUS
<1>1. ASSUME NEW f, NEW t, FileKept(f, t)' PROVE GoodFile(f, t)'
  <2>1. CASE FileKept(f, t)
    <3>1. GoodFile(f, t)
      BY <2>1 DEF FileKept, FilesFit
    <3> QED
      BY <3>1, FileStays
  <2>2. ASSUME StartMerge, NEW i \in DOMAIN sharegpt, t = i, f = Adapt(sharegpt[i])
        PROVE  GoodFile(f, t)'
    <3>1. GoodFile(f, t)
      BY <2>2, MergedFile DEF StartMerge
    <3> QED
      BY <3>1, FileStays
  <2>3. CASE RunnerWrites /\ t = Task /\ trajectories'[t] = f
    <3>1. PICK g, u : /\ u = Task /\ GoodFile(g, u)'
                      /\ trajectories' = [trajectories EXCEPT ![u] = g]
      BY <2>3, RunnersFile
    <3>2. Task \in Tasks /\ DOMAIN trajectories = Tasks
      BY <2>3, TaskAtHand DEF RunnerWrites, CaptureInv, Typed
    <3>3. g = f /\ u = t
      BY <2>3, <3>1, <3>2
    <3> QED
      BY <3>1, <3>3
  <2> QED
    BY <1>1, <2>1, <2>2, <2>3, FilesMove
<1>2. ASSUME NEW i \in DOMAIN merging' PROVE GoodFile(merging[i].file, merging[i].task)'
  <2>1. PICK f, t : f = merging'[i].file /\ t = merging'[i].task
    OBVIOUS
  <2>2. FileKept(f, t)'
    BY <2>1 DEF FileKept
  <2>3. GoodFile(f, t)'
    BY <1>1, <2>2
  <2> QED
    BY <2>1, <2>3
<1>3. ASSUME NEW t \in Written' PROVE GoodFile(trajectories[t], t)'
  <2>1. PICK f : f = trajectories'[t]
    OBVIOUS
  <2>2. FileKept(f, t)'
    BY <2>1 DEF FileKept
  <2>3. GoodFile(f, t)'
    BY <1>1, <2>2
  <2> QED
    BY <2>1, <2>3
<1> QED
  BY <1>2, <1>3 DEF FilesFit

\* The whole argument: who records what, what the records tell, which tasks they
\* are of, under which keys the sidecar has their answers, and what files come
\* of them.
PipelineInv == CaptureInv /\ SidecarFits /\ RecordsFit /\ ListsFit /\ FilesFit

LEMMA PipelineInvariant == Spec => []PipelineInv
<1>1. Init => PipelineInv
  <2> SUFFICES ASSUME Init PROVE PipelineInv
    OBVIOUS
  <2>1. /\ driver.kind = "idle" /\ driver.conv = <<>> /\ DOMAIN sharegpt = {}
        /\ DOMAIN sidecar = {} /\ DOMAIN merging = {} /\ Written = {}
    BY DEF Init, Idle, Written
  <2> QED
    BY <2>1, CaptureStarts DEF PipelineInv, SidecarFits, RecordsFit, DriverFits, ListsFit,
                                    Left, FilesFit
<1>2. PipelineInv /\ [Next]_vars => PipelineInv'
  BY TypesInductive, RequestsInductive, CapturedInductive, SidecarFitsInductive,
     RecordsFitInductive, ListsFitInductive, FilesFitInductive DEF PipelineInv, CaptureInv
<1> QED
  BY <1>1, <1>2, PTL DEF Spec

\* The probes on a step of a trajectory were taken from the very answer the step
\* shows, whatever timed-out requests, killed drivers and runs over part of the
\* tasks left in the sidecar, for any number of tasks, turns, runs and faults.
THEOREM ProbesAreTheAnswers == Spec => []ProbesFit
<1>1. PipelineInv => ProbesFit
  <2> SUFFICES ASSUME FilesFit, NEW t \in Written, NEW k \in DOMAIN trajectories[t].steps
               PROVE  StepFits(trajectories[t].steps[k])
    BY DEF PipelineInv, ProbesFit, StepFits
  <2> QED
    BY DEF FilesFit, GoodFile
<1> QED
  BY <1>1, PipelineInvariant, PTL

\* A trajectory file tells one run of its own task turn by turn, and its
\* terminal_reason fits what it shows.
THEOREM OneRunToldWhole == Spec => []TrajectoryTellsOneRun
<1>1. PipelineInv => TrajectoryTellsOneRun
  <2> SUFFICES ASSUME FilesFit, NEW t \in Written PROVE FileOfRun(trajectories[t], t)
    BY DEF PipelineInv, TrajectoryTellsOneRun, FileOfRun
  <2> QED
    BY DEF FilesFit, GoodFile
<1> QED
  BY <1>1, PipelineInvariant, PTL

\* A result shown with a tool call is that call's own, and the first call of an
\* answer always has its result.
THEOREM ResultsAreTheCalls == Spec => []ResultsBelongToTheirCalls
<1>1. PipelineInv => ResultsBelongToTheirCalls
  <2> SUFFICES ASSUME FilesFit, NEW t \in Written, NEW k \in DOMAIN trajectories[t].steps
               PROVE  RightResults(trajectories[t].steps[k].results)
    BY DEF PipelineInv, ResultsBelongToTheirCalls, RightResults
  <2> QED
    BY DEF FilesFit, GoodFile, FileOfRun
<1> QED
  BY <1>1, PipelineInvariant, PTL
=============================================================================

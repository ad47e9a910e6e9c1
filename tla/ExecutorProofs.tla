--------------------------- MODULE ExecutorProofs ---------------------------
(***************************************************************************)
(* For every set of tasks, table size and bound: the table stays in its     *)
(* type, and a pass polls each task once.                                   *)
(***************************************************************************)
EXTENDS Executor, TLAPS

-----------------------------------------------------------------------------
(* The table.                                                               *)

(* Removing entry i moves the last entry there and changes no other.        *)
LEMMA CompactEntries ==
  ASSUME tasks \in Seq(Task), i \in DOMAIN tasks
  PROVE  /\ Compact \in Seq(Task)
         /\ Len(Compact) = Len(tasks) - 1
         /\ \A j \in 1..(Len(tasks) - 1) :
              Compact[j] = IF j = i THEN tasks[Len(tasks)] ELSE tasks[j]
<1> DEFINE moved == [tasks EXCEPT ![i] = tasks[Len(tasks)]]
<1>1. Len(tasks) \in Nat /\ i \in 1..Len(tasks) /\ DOMAIN tasks = 1..Len(tasks)
  OBVIOUS
<1>2. tasks[Len(tasks)] \in Task
  BY <1>1
<1>3. moved \in Seq(Task) /\ Len(moved) = Len(tasks)
  BY <1>1, <1>2
<1>4. \A j \in 1..Len(tasks) : moved[j] = IF j = i THEN tasks[Len(tasks)] ELSE tasks[j]
  BY <1>1
<1>5. Compact = SubSeq(moved, 1, Len(tasks) - 1)
  BY DEF Compact
<1> HIDE DEF moved
<1> QED
  BY <1>1, <1>3, <1>4, <1>5

(* The current task stands at the current entry.                            *)
LEMMA CurrentEntry ==
  ASSUME TypeOK, NEW t, Current(t)
  PROVE  /\ i \in DOMAIN tasks
         /\ tasks[i] = t
         /\ t \in Task
         /\ Len(tasks) \in Nat
         /\ DOMAIN tasks = 1..Len(tasks)
<1>1. tasks \in Seq(Task) /\ i \in 1..(Len(tasks) + 1) /\ i <= Len(tasks) /\ tasks[i] = t
  BY DEF TypeOK, Current
<1> QED
  BY <1>1

-----------------------------------------------------------------------------
(* EachIsPolledOnce is inductive together with TypeOK: it says what the     *)
(* walk has done so far in terms of the entries before the current one.     *)
Inv == TypeOK /\ EachIsPolledOnce

\* A step neither removes a task from the table nor adds one.
SameTasks == \A t \in Task : state'[t] = "absent" <=> state[t] = "absent"

LEMMA TableUnchanged ==
  ASSUME Inv, UNCHANGED tableVars, SameTasks
  PROVE  EachIsPolledOnce'
<1>1. polled' = polled /\ tasks' = tasks /\ i' = i
  BY DEF tableVars
<1>2. {t \in Task : state'[t] # "absent"} = {t \in Task : state[t] # "absent"}
  BY DEF SameTasks
<1> QED
  BY <1>1, <1>2 DEF Inv, EachIsPolledOnce, Entries

(* A poll that keeps its task adds it to the polled ones, and its entry to  *)
(* those that have been passed.                                             *)
LEMMA KeptTask ==
  ASSUME Inv, NEW t, Current(t), Continue(t), SameTasks
  PROVE  /\ i' \in 1..(Len(tasks') + 1)
         /\ polled' \subseteq Task
         /\ EachIsPolledOnce'
<1>1. /\ i \in 1..Len(tasks)
      /\ tasks[i] = t
      /\ t \in Task
      /\ Len(tasks) \in Nat
      /\ DOMAIN tasks = 1..Len(tasks)
  BY CurrentEntry DEF Inv
<1>2. tasks' = tasks /\ i' = i + 1 /\ polled' = polled \cup {t}
  BY DEF Continue
<1>3. {k \in DOMAIN tasks : k < i + 1} = {k \in DOMAIN tasks : k < i} \cup {i}
  BY <1>1
<1>4. polled = {tasks[j] : j \in {k \in DOMAIN tasks : k < i}}
  BY DEF Inv, EachIsPolledOnce
<1>5. polled' = {tasks[j] : j \in {k \in DOMAIN tasks : k < i + 1}}
  BY <1>1, <1>2, <1>3, <1>4
<1>6. {u \in Task : state'[u] # "absent"} = {u \in Task : state[u] # "absent"}
  BY DEF SameTasks
<1>7. EachIsPolledOnce'
  BY <1>2, <1>5, <1>6 DEF Inv, EachIsPolledOnce, Entries
<1> QED
  BY <1>1, <1>2, <1>7 DEF Inv, TypeOK

(* A completion: the task leaves the table, the entries before it stay.     *)
LEMMA RemovedTask ==
  ASSUME Inv, NEW t, Complete(t)
  PROVE  /\ tasks' \in Seq(Task)
         /\ Len(tasks') <= MaxTasks
         /\ i' \in 1..(Len(tasks') + 1)
         /\ EachIsPolledOnce'
<1> DEFINE n == Len(tasks)
<1>1. /\ i \in 1..n
      /\ tasks[i] = t
      /\ t \in Task
      /\ n \in Nat
      /\ DOMAIN tasks = 1..n
  BY CurrentEntry DEF Inv, Complete, Runs
<1>2. i' = i /\ polled' = polled /\ state' = [state EXCEPT ![t] = "absent"]
  BY DEF Complete
<1>3. /\ tasks' \in Seq(Task)
      /\ Len(tasks') = n - 1
      /\ DOMAIN tasks' = 1..(n - 1)
      /\ \A j \in 1..(n - 1) : tasks'[j] = IF j = i THEN tasks[n] ELSE tasks[j]
  <2>1. tasks \in Seq(Task) /\ i \in DOMAIN tasks /\ tasks' = Compact
    BY <1>1 DEF Inv, TypeOK, Complete
  <2>2. /\ tasks' \in Seq(Task)
        /\ Len(tasks') = n - 1
        /\ \A j \in 1..(n - 1) : tasks'[j] = IF j = i THEN tasks[n] ELSE tasks[j]
    BY <2>1, CompactEntries
  <2> QED
    BY <2>2
<1>4. \A j, k \in 1..n : tasks[j] = tasks[k] => j = k
  BY <1>1 DEF Inv, EachIsPolledOnce
<1>5. polled' = {tasks'[j] : j \in {k \in DOMAIN tasks' : k < i'}}
  <2>1. {k \in DOMAIN tasks' : k < i'} = {k \in DOMAIN tasks : k < i}
    BY <1>1, <1>2, <1>3
  <2>2. \A j \in {k \in DOMAIN tasks : k < i} : tasks'[j] = tasks[j]
    BY <1>1, <1>3
  <2>3. polled = {tasks[j] : j \in {k \in DOMAIN tasks : k < i}}
    BY DEF Inv, EachIsPolledOnce
  <2> QED
    BY <1>2, <2>1, <2>2, <2>3
<1>6. \A j, k \in DOMAIN tasks' : tasks'[j] = tasks'[k] => j = k
  BY <1>1, <1>3, <1>4
<1>7. Entries' = Entries \ {t}
  <2>1. ASSUME NEW j \in DOMAIN tasks' PROVE tasks'[j] \in Entries \ {t}
    BY <1>1, <1>3, <1>4 DEF Entries
  <2>2. ASSUME NEW j \in DOMAIN tasks, tasks[j] # t
        PROVE  tasks[j] \in Entries'
    <3>1. CASE j = n
      BY <1>1, <1>3, <2>2, <3>1 DEF Entries
    <3>2. CASE j # n
      BY <1>1, <1>3, <2>2, <3>2 DEF Entries
    <3> QED
      BY <3>1, <3>2
  <2> QED
    BY <2>1, <2>2 DEF Entries
<1>8. Entries' = {u \in Task : state'[u] # "absent"}
  BY <1>1, <1>2, <1>7 DEF Inv, EachIsPolledOnce, TypeOK
<1>9. EachIsPolledOnce'
  BY <1>5, <1>6, <1>8 DEF EachIsPolledOnce
<1>10. Len(tasks') <= MaxTasks /\ i' \in 1..(Len(tasks') + 1)
  BY <1>1, <1>2, <1>3, SizeAssumption DEF Inv, TypeOK
<1> QED
  BY <1>3, <1>9, <1>10

(* A registration: the new task comes last, unless the table is full.       *)
LEMMA AddedTask ==
  ASSUME Inv, NEW t, NEW u \in Task, Register(t, u)
  PROVE  /\ tasks' \in Seq(Task)
         /\ Len(tasks') <= MaxTasks
         /\ i' \in 1..(Len(tasks') + 1)
         /\ EachIsPolledOnce'
<1> DEFINE n == Len(tasks)
<1>1. /\ i \in 1..n
      /\ n \in Nat
      /\ DOMAIN tasks = 1..n
      /\ tasks \in Seq(Task)
      /\ n <= MaxTasks
  BY CurrentEntry DEF Inv, TypeOK, Register, Runs
<1>2. i' = i /\ polled' = polled
  BY DEF Register
<1>3. CASE Len(tasks) < MaxTasks
  <2>1. tasks' = Append(tasks, u) /\ state' = [state EXCEPT ![u] = "ready"]
    BY <1>3 DEF Register
  <2>2. /\ tasks' \in Seq(Task)
        /\ Len(tasks') = n + 1
        /\ DOMAIN tasks' = 1..(n + 1)
        /\ tasks'[n + 1] = u
        /\ \A j \in 1..n : tasks'[j] = tasks[j]
    BY <1>1, <2>1
  <2>3. u \notin Entries
    BY DEF Inv, EachIsPolledOnce, Register
  <2>4. polled' = {tasks'[j] : j \in {k \in DOMAIN tasks' : k < i'}}
    <3>1. {k \in DOMAIN tasks' : k < i'} = {k \in DOMAIN tasks : k < i}
      BY <1>1, <1>2, <2>2
    <3>2. \A j \in {k \in DOMAIN tasks : k < i} : tasks'[j] = tasks[j]
      BY <1>1, <2>2
    <3>3. polled = {tasks[j] : j \in {k \in DOMAIN tasks : k < i}}
      BY DEF Inv, EachIsPolledOnce
    <3> QED
      BY <1>2, <3>1, <3>2, <3>3
  <2>5. \A j, k \in DOMAIN tasks' : tasks'[j] = tasks'[k] => j = k
    <3>1. \A j, k \in 1..n : tasks[j] = tasks[k] => j = k
      BY <1>1 DEF Inv, EachIsPolledOnce
    <3>2. \A j \in 1..n : tasks[j] # u
      BY <1>1, <2>3 DEF Entries
    <3> QED
      BY <1>1, <2>2, <3>1, <3>2
  <2>6. Entries' = Entries \cup {u}
    <3>1. \A j \in DOMAIN tasks' : tasks'[j] \in Entries \cup {u}
      BY <1>1, <2>2 DEF Entries
    <3>2. \A j \in DOMAIN tasks : tasks[j] \in Entries'
      BY <1>1, <2>2 DEF Entries
    <3>3. u \in Entries'
      BY <1>1, <2>2 DEF Entries
    <3> QED
      BY <3>1, <3>2, <3>3 DEF Entries
  <2>7. Entries' = {v \in Task : state'[v] # "absent"}
    BY <2>1, <2>6 DEF Inv, EachIsPolledOnce, TypeOK
  <2>8. EachIsPolledOnce'
    BY <2>4, <2>5, <2>7 DEF EachIsPolledOnce
  <2> QED
    BY <1>1, <1>2, <1>3, <2>2, <2>8, SizeAssumption
<1>4. CASE ~(Len(tasks) < MaxTasks)
  <2>1. UNCHANGED <<tasks, state>>
    BY <1>4 DEF Register
  <2>2. UNCHANGED tableVars /\ SameTasks
    BY <2>1 DEF Register, tableVars, SameTasks
  <2> QED
    BY <1>1, <1>2, <2>1, <2>2, TableUnchanged
<1> QED
  BY <1>3, <1>4

-----------------------------------------------------------------------------
LEMMA InitInv ==
  ASSUME Init
  PROVE  Inv
<1>1. PICK n \in 0..MaxTasks :
        tasks \in {s \in [1..n -> Task] : \A j, k \in 1..n : s[j] = s[k] => j = k}
  BY DEF Init
<1>2. /\ tasks \in Seq(Task)
      /\ Len(tasks) = n
      /\ DOMAIN tasks = 1..n
      /\ \A j, k \in 1..n : tasks[j] = tasks[k] => j = k
  BY <1>1, SizeAssumption
<1>3. /\ Len(tasks) \in 0..MaxTasks
      /\ i \in 1..(Len(tasks) + 1)
      /\ before \in 0..MaxTasks
      /\ lag \in 0..MaxLag
      /\ irqs \in 0..MaxIrqs
      /\ spawns \in 0..MaxSpawns
      /\ 0 \in TickCount
      /\ 0 \in Nat
  BY <1>1, <1>2, SizeAssumption DEF Init, TickCount
<1>4. TypeOK
  BY <1>2, <1>3, SizeAssumption DEF Init, TypeOK, TaskState
<1>5. Entries \subseteq Task
  BY <1>1, <1>2 DEF Entries
<1>6. {k \in DOMAIN tasks : k < i} = {}
  BY <1>2 DEF Init
<1>7. EachIsPolledOnce
  BY <1>2, <1>5, <1>6 DEF Init, EachIsPolledOnce
<1> QED
  BY <1>4, <1>7 DEF Inv

(* What the steps of tasks do to the rest of the state.                     *)
LEMMA TaskTypes ==
  ASSUME TypeOK, NEW t \in Task, NEW u \in Task,
         \/ Block(t) \/ Resume(t) \/ SleepMs(t) \/ Await(t) \/ Yield(t)
         \/ Complete(t) \/ Signal(t, u) \/ Register(t, u)
  PROVE  /\ before' \in 0..MaxTasks
         /\ core' \in {"running", "stopped"}
         /\ state' \in [Task -> TaskState]
         /\ signalled' \subseteq Waiter
         /\ slept' \subseteq Task
         /\ deadline' \in [Task -> TickCount]
         /\ tick' \in TickCount
         /\ lag' \in 0..MaxLag
         /\ irqs' \in 0..MaxIrqs
         /\ spawns' \in 0..MaxSpawns
         /\ asked' \in [Task -> Duration \cup {0}]
         /\ elapsed' \in [Task -> Nat]
<1>1. 0 \in TickCount /\ 0 \in Nat
  BY SizeAssumption DEF TickCount
<1>2. CASE Block(t)
  BY <1>2 DEF Block, Continue, TypeOK
<1>3. CASE Resume(t)
  BY <1>1, <1>3 DEF Resume, tableVars, TypeOK, TaskState
<1>4. CASE SleepMs(t)
  <2>1. \A ms \in Duration : (tick + ms) % TickRange \in TickCount
    BY SizeAssumption DEF TypeOK, TickCount
  <2>2. deadline' \in [Task -> TickCount]
    BY <1>4, <2>1 DEF SleepMs, TypeOK
  <2>3. asked' \in [Task -> Duration \cup {0}] /\ elapsed' \in [Task -> Nat]
    BY <1>1, <1>4 DEF SleepMs, TypeOK
  <2>4. slept' \subseteq Task
    BY <1>4 DEF SleepMs, TypeOK
  <2> QED
    BY <1>4, <2>2, <2>3, <2>4 DEF SleepMs, tableVars, TypeOK, TaskState
<1>5. CASE Await(t)
  BY <1>5 DEF Await, tableVars, sleepVars, TypeOK, TaskState
<1>6. CASE Yield(t)
  BY <1>6 DEF Yield, Continue, sleepVars, TypeOK, TaskState
<1>7. CASE Complete(t)
  BY <1>7 DEF Complete, sleepVars, TypeOK, TaskState
<1>8. CASE Signal(t, u)
  BY <1>8 DEF Signal, tableVars, sleepVars, TypeOK
<1>9. CASE Register(t, u)
  <2>1. spawns' \in 0..MaxSpawns
    BY <1>9, SizeAssumption DEF Register, TypeOK
  <2>2. state' \in [Task -> TaskState]
    BY <1>9 DEF Register, TypeOK, TaskState
  <2> QED
    BY <1>9, <2>1, <2>2 DEF Register, sleepVars, TypeOK
<1> QED
  BY <1>2, <1>3, <1>4, <1>5, <1>6, <1>7, <1>8, <1>9

(* A step of a task keeps the invariant.                                    *)
LEMMA TaskInv ==
  ASSUME Inv, NEW t \in Task, NEW u \in Task,
         \/ Block(t) \/ Resume(t) \/ SleepMs(t) \/ Await(t) \/ Yield(t)
         \/ Complete(t) \/ Signal(t, u) \/ Register(t, u)
  PROVE  Inv'
<1>1. ASSUME UNCHANGED tableVars, SameTasks
      PROVE  Inv'
  BY <1>1, TableUnchanged, TaskTypes DEF Inv, TypeOK, tableVars
<1>2. ASSUME Current(t), Continue(t), SameTasks
      PROVE  Inv'
  BY <1>2, KeptTask, TaskTypes DEF Inv, TypeOK, Continue
<1>3. state[t] = "body" => state[t] # "absent"
  OBVIOUS
<1>4. CASE Block(t)
  BY <1>2, <1>4 DEF Block, SameTasks
<1>5. CASE Resume(t)
  <2>1. state[t] # "absent"
    BY <1>5 DEF Resume, Ready
  <2> QED
    BY <1>1, <1>5, <2>1 DEF Resume, SameTasks, Inv, TypeOK
<1>6. CASE SleepMs(t)
  BY <1>1, <1>6 DEF SleepMs, Runs, SameTasks, Inv, TypeOK
<1>7. CASE Await(t)
  BY <1>1, <1>7 DEF Await, Runs, SameTasks, Inv, TypeOK
<1>8. CASE Yield(t)
  BY <1>2, <1>8 DEF Yield, Runs, SameTasks, Inv, TypeOK
<1>9. CASE Complete(t)
  BY <1>9, RemovedTask, TaskTypes DEF Inv, TypeOK, Complete
<1>10. CASE Signal(t, u)
  BY <1>1, <1>10 DEF Signal, SameTasks
<1>11. CASE Register(t, u)
  BY <1>11, AddedTask, TaskTypes DEF Inv, TypeOK, Register
<1> QED
  BY <1>4, <1>5, <1>6, <1>7, <1>8, <1>9, <1>10, <1>11

LEMMA StepInv ==
  ASSUME Inv, [Next]_executorVars
  PROVE  Inv'
<1>1. CASE \E t \in Task : Poll(t) \/ \E u \in Task : Signal(t, u) \/ Register(t, u)
  BY <1>1, TaskInv DEF Poll
<1>2. CASE EndPass
  <2>1. tasks' = tasks /\ i' = 1 /\ polled' = {} /\ state' = state
    BY <1>2 DEF EndPass, BeginPass
  <2>2. Len(tasks) \in 0..MaxTasks /\ DOMAIN tasks = 1..Len(tasks)
    BY SizeAssumption DEF Inv, TypeOK
  <2>3. TypeOK'
    BY <1>2, <2>1, <2>2, SizeAssumption DEF EndPass, BeginPass, sleepVars, Inv, TypeOK
  <2>4. {k \in DOMAIN tasks : k < 1} = {}
    BY <2>2
  <2>5. EachIsPolledOnce'
    BY <2>1, <2>4 DEF Inv, EachIsPolledOnce, Entries
  <2> QED
    BY <2>3, <2>5 DEF Inv
<1>3. CASE Tick
  <2>1. tick' \in TickCount /\ lag' \in 0..MaxLag
    BY <1>3, SizeAssumption DEF Tick, Inv, TypeOK, TickCount
  <2>2. elapsed' \in [Task -> Nat]
    BY <1>3 DEF Tick, Inv, TypeOK
  <2>3. TypeOK'
    BY <1>3, <2>1, <2>2 DEF Tick, tableVars, Inv, TypeOK
  <2>4. EachIsPolledOnce'
    BY <1>3, TableUnchanged DEF Tick, SameTasks
  <2> QED
    BY <2>3, <2>4 DEF Inv
<1>4. CASE \E u \in Task : Interrupt(u)
  <2>1. irqs' \in 0..MaxIrqs
    BY <1>4, SizeAssumption DEF Interrupt, Inv, TypeOK
  <2>2. TypeOK'
    BY <1>4, <2>1 DEF Interrupt, tableVars, sleepVars, Inv, TypeOK
  <2>3. EachIsPolledOnce'
    BY <1>4, TableUnchanged DEF Interrupt, SameTasks
  <2> QED
    BY <2>2, <2>3 DEF Inv
<1>5. CASE UNCHANGED executorVars
  <2>1. TypeOK'
    BY <1>5 DEF executorVars, Inv, TypeOK
  <2>2. EachIsPolledOnce'
    BY <1>5, TableUnchanged DEF executorVars, tableVars, SameTasks
  <2> QED
    BY <2>1, <2>2 DEF Inv
<1> QED
  BY <1>1, <1>2, <1>3, <1>4, <1>5 DEF Next

-----------------------------------------------------------------------------
(* For every set of tasks, table size, range of the tick count and bound:   *)
(* the scheduler's variables keep their types, so s_task_count never        *)
(* exceeds SDK_MAX_TASKS and sdk_step never reads beyond it.                *)
THEOREM TypeCorrect == Spec => []TypeOK
<1>1. Init => Inv
  BY InitInv
<1>2. Inv /\ [Next]_executorVars => Inv'
  BY StepInv
<1>3. Inv => TypeOK
  BY DEF Inv
<1> QED
  BY <1>1, <1>2, <1>3, PTL DEF Spec

(* Whatever completes and whatever is registered while sdk_step walks the   *)
(* table, a pass polls each task once, and no task stands in it twice.      *)
THEOREM PassesArePrecise == Spec => []EachIsPolledOnce
<1>1. Init => Inv
  BY InitInv
<1>2. Inv /\ [Next]_executorVars => Inv'
  BY StepInv
<1>3. Inv => EachIsPolledOnce
  BY DEF Inv
<1> QED
  BY <1>1, <1>2, <1>3, PTL DEF Spec

-----------------------------------------------------------------------------
(* Sleeping.                                                                *)

(* The remainder of a number that has wrapped around at most once.          *)
LEMMA WrapsOnce ==
  ASSUME NEW n \in Nat, NEW r \in Nat \ {0}, n < 2 * r
  PROVE  n % r = IF n < r THEN n ELSE n - r
<1> DEFINE q == n \div r
           m == n % r
<1>1. n = q * r + m /\ q \in Nat /\ m \in 0..(r - 1)
  OBVIOUS
<1> HIDE DEF q, m
<1>2. q \in {0, 1}
  <2> SUFFICES ASSUME q >= 2 PROVE FALSE
    BY <1>1
  <2>1. q * r >= 2 * r
    BY <1>1
  <2> QED
    BY <1>1, <2>1
<1>3. CASE q = 0
  BY <1>1, <1>3 DEF m
<1>4. CASE q = 1
  BY <1>1, <1>4 DEF m
<1> QED
  BY <1>2, <1>3, <1>4

\* How many ticks the sleep in progress has left, before its deadline.
Left(t) == asked[t] - elapsed[t]

\* Until its ticks have passed, a sleep has a deadline ahead of the tick count,
\* which may have wrapped around since the call or be going to.
SleepInv ==
  \A t \in Task : state[t] = "sleeping" =>
    /\ t \in Sleeper \ slept
    /\ elapsed[t] < asked[t] => deadline[t] \in {tick + Left(t), tick + Left(t) - TickRange}

(* What the type invariant says of a sleep.                                 *)
LEMMA SleepTypes ==
  ASSUME TypeOK, NEW t \in Task
  PROVE  /\ TickRange \in Nat \ {0}
         /\ tick \in Nat /\ tick < TickRange
         /\ deadline[t] \in Nat /\ deadline[t] < TickRange
         /\ elapsed[t] \in Nat
         /\ asked[t] \in Duration \cup {0}
         /\ asked[t] \in Nat /\ asked[t] < TickRange
<1>1. TickRange \in Nat \ {0} /\ Duration \subseteq 1..(TickRange - 1)
  BY SizeAssumption
<1>2. tick \in TickCount /\ deadline[t] \in TickCount
  BY DEF TypeOK
<1>3. elapsed[t] \in Nat /\ asked[t] \in Duration \cup {0}
  BY DEF TypeOK
<1>4. asked[t] \in Nat /\ asked[t] < TickRange
  BY <1>1, <1>3
<1> QED
  BY <1>1, <1>2, <1>3, <1>4 DEF TickCount

(* A deadline ahead by no more than half the range has not passed.          *)
LEMMA NotExpired ==
  ASSUME TypeOK, NEW t \in Task, NEW n \in Nat \ {0}, 2 * n <= TickRange,
         deadline[t] \in {tick + n, tick + n - TickRange}
  PROVE  ~Expired(t)
<1>1. /\ TickRange \in Nat \ {0} /\ tick \in Nat /\ tick < TickRange
      /\ deadline[t] \in Nat /\ deadline[t] < TickRange
  BY SleepTypes
<1> DEFINE d == tick + TickRange - deadline[t]
<1>2. d \in Nat /\ d < 2 * TickRange /\ d \in {TickRange - n, TickRange - n + TickRange}
  BY <1>1
<1>3. d % TickRange = TickRange - n
  <2> HIDE DEF d
  <2>1. d % TickRange = IF d < TickRange THEN d ELSE d - TickRange
    BY <1>1, <1>2, WrapsOnce
  <2> QED
    BY <1>1, <1>2, <2>1
<1>4. 2 * (TickRange - n) >= TickRange
  BY <1>1
<1> QED
  BY <1>1, <1>3, <1>4 DEF Expired

\* What the callers must see to: the context of a sleep is initialised before
\* each call, and no sleep is longer than half the range of the tick count.
SleepsAreShort ==
  /\ Sleeper \subseteq Reinits
  /\ \A ms \in Duration : 2 * ms <= TickRange

(* A sleep ends when its ticks have passed, and no earlier.                 *)
LEMMA SleepersWait ==
  ASSUME TypeOK, SleepInv, SleepsAreShort, NEW t \in Task,
         state[t] = "sleeping", Ready(t)
  PROVE  elapsed[t] >= asked[t]
<1> SUFFICES ASSUME elapsed[t] < asked[t] PROVE FALSE
  BY SleepTypes
<1>1. asked[t] \in Nat /\ elapsed[t] \in Nat /\ TickRange \in Nat
  BY SleepTypes
<1>2. asked[t] \in Duration
  BY <1>1, SleepTypes
<1>3. 2 * asked[t] <= TickRange
  BY <1>2 DEF SleepsAreShort
<1>4. Left(t) \in Nat \ {0} /\ 2 * Left(t) <= TickRange
  BY <1>1, <1>3 DEF Left
<1>5. t \notin slept /\ deadline[t] \in {tick + Left(t), tick + Left(t) - TickRange}
  BY DEF SleepInv
<1> QED
  BY <1>4, <1>5, NotExpired DEF Ready

LEMMA SleepMsKeeps ==
  ASSUME TypeOK, SleepInv, SleepsAreShort, NEW t \in Task, SleepMs(t)
  PROVE  SleepInv'
<1>1. PICK ms \in Duration :
        /\ asked' = [asked EXCEPT ![t] = ms]
        /\ deadline' = [deadline EXCEPT ![t] = (tick + ms) % TickRange]
  BY DEF SleepMs, SleepsAreShort
<1>2. /\ state' = [state EXCEPT ![t] = "sleeping"]
      /\ elapsed' = [elapsed EXCEPT ![t] = 0]
      /\ t \in Sleeper /\ slept' = slept \ {t} /\ tick' = tick
  BY DEF SleepMs, SleepsAreShort
<1>3. /\ TickRange \in Nat \ {0} /\ tick \in Nat /\ tick < TickRange
      /\ ms \in Nat /\ ms < TickRange
  BY SizeAssumption DEF TypeOK, TickCount
<1>4. (tick + ms) % TickRange \in {tick + ms, tick + ms - TickRange}
  <2>1. tick + ms \in Nat /\ tick + ms < 2 * TickRange
    BY <1>3
  <2> QED
    BY <1>3, <2>1, WrapsOnce
<1>5. ASSUME NEW u \in Task, u # t, state'[u] = "sleeping"
      PROVE  /\ u \in Sleeper \ slept'
             /\ elapsed'[u] < asked'[u] =>
                  deadline'[u] \in {tick' + Left(u)', tick' + Left(u)' - TickRange}
  BY <1>1, <1>2, <1>5 DEF TypeOK, SleepInv, Left
<1>6. /\ t \in Sleeper \ slept'
      /\ deadline'[t] = (tick + ms) % TickRange
      /\ asked'[t] = ms /\ elapsed'[t] = 0
  BY <1>1, <1>2 DEF TypeOK
<1>7. deadline'[t] \in {tick' + Left(t)', tick' + Left(t)' - TickRange}
  BY <1>2, <1>3, <1>4, <1>6 DEF Left
<1> QED
  BY <1>5, <1>6, <1>7 DEF SleepInv

LEMMA TickKeeps ==
  ASSUME TypeOK, SleepInv, Tick
  PROVE  SleepInv'
<1> SUFFICES ASSUME NEW t \in Task, state'[t] = "sleeping"
             PROVE  /\ t \in Sleeper \ slept'
                    /\ elapsed'[t] < asked'[t] =>
                         deadline'[t] \in {tick' + Left(t)', tick' + Left(t)' - TickRange}
  BY DEF SleepInv
<1>1. /\ UNCHANGED <<state, slept, deadline, asked>>
      /\ tick' = (tick + 1) % TickRange
      /\ state[t] = "sleeping"
      /\ elapsed'[t] = IF elapsed[t] < asked[t] THEN elapsed[t] + 1 ELSE elapsed[t]
  BY DEF Tick
<1>2. t \in Sleeper \ slept'
  BY <1>1 DEF SleepInv
<1>3. ASSUME elapsed'[t] < asked'[t]
      PROVE  deadline'[t] \in {tick' + Left(t)', tick' + Left(t)' - TickRange}
  <2>1. /\ TickRange \in Nat \ {0} /\ tick \in Nat /\ tick < TickRange
        /\ asked[t] \in Nat /\ elapsed[t] \in Nat /\ asked[t] < TickRange
        /\ deadline[t] \in Nat /\ deadline[t] < TickRange
    BY SleepTypes
  <2>2. elapsed[t] < asked[t] /\ elapsed'[t] = elapsed[t] + 1
    BY <1>1, <1>3, <2>1
  <2>3. deadline[t] \in {tick + Left(t), tick + Left(t) - TickRange}
    BY <1>1, <2>2 DEF SleepInv
  <2>4. tick' = IF tick + 1 < TickRange THEN tick + 1 ELSE tick + 1 - TickRange
    <3> DEFINE n == tick + 1
    <3>1. n \in Nat /\ n < 2 * TickRange
      BY <2>1
    <3>2. tick' = n % TickRange
      BY <1>1
    <3> HIDE DEF n
    <3>3. tick' = IF n < TickRange THEN n ELSE n - TickRange
      BY <2>1, <3>1, <3>2, WrapsOnce
    <3> QED
      BY <2>1, <3>3 DEF n
  <2>5. Left(t)' = Left(t) - 1 /\ deadline'[t] = deadline[t]
    BY <1>1, <2>1, <2>2 DEF Left
  <2> QED
    BY <2>1, <2>2, <2>3, <2>4, <2>5 DEF Left
<1> QED
  BY <1>2, <1>3

(* No other step touches a sleep in progress.                               *)
LEMMA OthersKeep ==
  ASSUME TypeOK, SleepInv, tick' = tick,
         \A u \in Task : state'[u] = "sleeping" =>
           /\ state[u] = "sleeping"
           /\ u \in slept' => u \in slept
           /\ asked'[u] = asked[u]
           /\ elapsed'[u] = elapsed[u]
           /\ deadline'[u] = deadline[u]
  PROVE  SleepInv'
  BY DEF SleepInv, Left

LEMMA SleepStep ==
  ASSUME TypeOK, SleepInv, SleepsAreShort, [Next]_executorVars
  PROVE  SleepInv'
<1>1. ASSUME NEW t \in Task, Resume(t)
      PROVE  SleepInv'
  BY <1>1, OthersKeep DEF Resume, TypeOK
<1>2. ASSUME NEW t \in Task, NEW u \in Task,
             Block(t) \/ Await(t) \/ Yield(t) \/ Complete(t) \/ Signal(t, u)
             \/ Register(t, u)
      PROVE  SleepInv'
  BY <1>2, OthersKeep
  DEF Block, Await, Yield, Complete, Signal, Register, sleepVars, TypeOK
<1>3. ASSUME EndPass \/ (\E u \in Task : Interrupt(u)) \/ UNCHANGED executorVars
      PROVE  SleepInv'
  BY <1>3, OthersKeep DEF EndPass, Interrupt, sleepVars, executorVars
<1> QED
  BY <1>1, <1>2, <1>3, SleepMsKeeps, TickKeeps DEF Next, Poll

(* A task leaves its sleep by a poll that finds its await met, only.        *)
LEMMA SleepersLeave ==
  ASSUME TypeOK, [Next]_executorVars, NEW t \in Task,
         state[t] = "sleeping", state'[t] # "sleeping"
  PROVE  Ready(t)
<1>1. ASSUME NEW u \in Task, NEW v \in Task,
             SleepMs(u) \/ Await(u) \/ Yield(u) \/ Complete(u) \/ Register(u, v)
      PROVE  FALSE
  BY <1>1 DEF SleepMs, Await, Yield, Complete, Register, Runs, TypeOK
<1>2. ASSUME NEW u \in Task, Resume(u)
      PROVE  Ready(t)
  BY <1>2 DEF Resume, TypeOK
<1>3. ASSUME NEW u \in Task, NEW v \in Task,
             Block(u) \/ Signal(u, v) \/ EndPass \/ Tick \/ Interrupt(v)
             \/ UNCHANGED executorVars
      PROVE  FALSE
  BY <1>3 DEF Block, Signal, EndPass, Tick, Interrupt, executorVars
<1> QED
  BY <1>1, <1>2, <1>3 DEF Next, Poll

(* sdk_sleep_ms sleeps for at least ms ticks, wherever the tick count       *)
(* stands and however often it wraps around, for callers that initialise    *)
(* its context before each call and ask for half the range at most.         *)
THEOREM SleepsAreLongEnough ==
  ASSUME SleepsAreShort
  PROVE  Spec => SleepLasts
<1>1. Spec => []TypeOK
  BY TypeCorrect
<1>2. Init => SleepInv
  BY DEF Init, SleepInv
<1>3. TypeOK /\ SleepInv /\ [Next]_executorVars => SleepInv'
  BY SleepStep
<1>4. TypeOK /\ SleepInv /\ [Next]_executorVars =>
        [\A t \in Task : state[t] = "sleeping" /\ state'[t] # "sleeping"
                           => elapsed[t] >= asked[t]]_executorVars
  BY SleepersLeave, SleepersWait
<1> QED
  BY <1>1, <1>2, <1>3, <1>4, PTL DEF Spec, SleepLasts
=============================================================================

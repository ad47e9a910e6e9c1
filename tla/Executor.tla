------------------------------ MODULE Executor ------------------------------
(***************************************************************************)
(* The cooperative scheduler of the ColdFire SDK: the task table and the    *)
(* passes of coldfire/src/runtime/executor.c, the awaits of async.h and     *)
(* async_sem.h, and the tick and sdk_sleep_ms of coldfire/src/hal/timer.c.  *)
(* What a task does between two awaits is free; interrupts come between any *)
(* two steps.                                                               *)
(***************************************************************************)
EXTENDS Naturals, Sequences, FiniteSets

CONSTANTS
  Task,         \* the contexts that may be registered
  Sleeper,      \* those that call sdk_sleep_ms
  Waiter,       \* those that await a condition
  Reinits,      \* those that call async_init before each call of it
  MaxTasks,     \* SDK_MAX_TASKS (8 in the source)
  TickRange,    \* how many values sdk_tick_count has (2^32 in the source)
  Duration,     \* the values of ms
  MaxLag,       \* bound: ticks in one pass over the tasks
  MaxIrqs,      \* bound: other interrupts in one pass
  MaxSpawns     \* bound: registrations made by tasks

ASSUME TaskAssumption ==
  /\ IsFiniteSet(Task)
  /\ Sleeper \subseteq Task
  /\ Waiter \subseteq Task
  /\ Reinits \subseteq Sleeper
ASSUME SizeAssumption ==
  /\ MaxTasks \in Nat \ {0}
  /\ TickRange \in Nat \ {0}
  /\ Duration \subseteq 1..(TickRange - 1)
  /\ MaxLag \in Nat
  /\ MaxIrqs \in Nat
  /\ MaxSpawns \in Nat

VARIABLES
  tasks,      \* s_tasks[0 .. s_task_count - 1]
  i,          \* sdk_step: the entry to poll, from 1
  before,     \* sdk_run: the number of tasks when the pass began
  core,       \* "running", or "stopped" in SDK_IDLE
  state,      \* where each task stands
  signalled,  \* the tasks whose awaited condition holds
  slept,      \* the tasks whose sleep context is ASYNC_DONE
  deadline,   \* sdk_sleep_t.deadline
  tick,       \* sdk_tick_count
  lag,        \* ticks in this pass
  irqs,       \* other interrupts in this pass
  spawns,     \* registrations made by tasks
  polled,     \* history: the tasks that this pass has polled and kept
  asked,      \* history: the ms of the sleep in progress
  elapsed     \* history: ticks since it was called

tableVars == <<tasks, i, before, polled>>
sleepVars == <<slept, deadline, asked, elapsed>>
executorVars == <<tasks, i, before, core, state, signalled, slept, deadline,
                  tick, lag, irqs, spawns, polled, asked, elapsed>>

\* "ready": at its first statement or an async_yield.  "sleeping" and
\* "waiting": at the await of sdk_sleep_ms or of a condition.  "body": its
\* statements run.
TaskState == {"absent", "ready", "sleeping", "waiting", "body"}

TickCount == 0..(TickRange - 1)

Entries == {tasks[j] : j \in DOMAIN tasks}

\* main registers some tasks, calls sdk_run, and the first pass begins.
Init ==
  /\ tasks \in UNION {{s \in [1..n -> Task] : \A j, k \in 1..n : s[j] = s[k] => j = k}
                        : n \in 0..MaxTasks}
  /\ i = 1
  /\ before = Len(tasks)
  /\ core = "running"
  /\ state = [t \in Task |-> IF t \in Entries THEN "ready" ELSE "absent"]
  /\ signalled = {}
  /\ slept = {}
  /\ deadline = [t \in Task |-> 0]
  /\ tick \in TickCount
  /\ lag = 0
  /\ irqs = 0
  /\ spawns = 0
  /\ polled = {}
  /\ asked = [t \in Task |-> 0]
  /\ elapsed = [t \in Task |-> 0]

-----------------------------------------------------------------------------
(* Time.                                                                    *)

\* Faulty variant: the counters are compared, not their difference.
ExpiredUnwrapped(t) == tick >= deadline[t]

\* Faulty variant: the deadline must be met to the tick.
ExpiredExactly(t) == tick = deadline[t]

\* (uint32_t)(sdk_tick_count - deadline) < 0x80000000
Expired(t) == 2 * ((tick + TickRange - deadline[t]) % TickRange) < TickRange

\* What makes an await go on.  A sleep context that is done stays done.
Ready(t) ==
  \/ state[t] = "ready"
  \/ state[t] = "waiting" /\ t \in signalled
  \/ state[t] = "sleeping" /\ (t \in slept \/ Expired(t))

-----------------------------------------------------------------------------
(* sdk_step: the task at entry i is polled.                                 *)

Current(t) == core = "running" /\ i <= Len(tasks) /\ tasks[i] = t

\* The poll returns ASYNC_CONT.
Continue(t) ==
  /\ i' = i + 1
  /\ polled' = polled \cup {t}
  /\ UNCHANGED <<tasks, before>>

\* Its await does not go on.
Block(t) ==
  /\ Current(t)
  /\ state[t] # "body"
  /\ ~Ready(t)
  /\ Continue(t)
  /\ UNCHANGED <<core, state, signalled, slept, deadline, tick, lag, irqs, spawns,
                 asked, elapsed>>

\* Its await goes on; a signal is used up.  A deadline is not read again once
\* its sleep is over, and is forgotten here.
Resume(t) ==
  /\ Current(t)
  /\ state[t] # "body"
  /\ Ready(t)
  /\ state' = [state EXCEPT ![t] = "body"]
  /\ signalled' = IF state[t] = "waiting" THEN signalled \ {t} ELSE signalled
  /\ slept' = IF state[t] = "sleeping" THEN slept \cup {t} ELSE slept
  /\ deadline' = [deadline EXCEPT ![t] = 0]
  /\ asked' = [asked EXCEPT ![t] = 0]
  /\ elapsed' = [elapsed EXCEPT ![t] = 0]
  /\ UNCHANGED <<tableVars, core, tick, lag, irqs, spawns>>

Runs(t) == Current(t) /\ state[t] = "body"

\* async_call of sdk_sleep_ms.  The await is met in the same poll.
SleepMs(t) ==
  /\ Runs(t)
  /\ t \in Sleeper
  /\ state' = [state EXCEPT ![t] = "sleeping"]
  /\ \E ms \in Duration :
       /\ asked' = [asked EXCEPT ![t] = ms]
       /\ IF t \in Reinits \/ t \notin slept
            THEN /\ slept' = slept \ {t}
                 /\ deadline' = [deadline EXCEPT ![t] = (tick + ms) % TickRange]
            ELSE UNCHANGED <<slept, deadline>>
  /\ elapsed' = [elapsed EXCEPT ![t] = 0]
  /\ UNCHANGED <<tableVars, core, signalled, tick, lag, irqs, spawns>>

\* An await of a condition, met in the same poll.
Await(t) ==
  /\ Runs(t)
  /\ t \in Waiter
  /\ state' = [state EXCEPT ![t] = "waiting"]
  /\ UNCHANGED <<tableVars, core, signalled, sleepVars, tick, lag, irqs, spawns>>

\* async_yield
Yield(t) ==
  /\ Runs(t)
  /\ state' = [state EXCEPT ![t] = "ready"]
  /\ Continue(t)
  /\ UNCHANGED <<core, signalled, sleepVars, tick, lag, irqs, spawns>>

\* The task makes the condition true that u awaits, as signal_sem does.
Signal(t, u) ==
  /\ Runs(t)
  /\ u \in Waiter \ (signalled \cup {t})
  /\ signalled' = signalled \cup {u}
  /\ UNCHANGED <<tableVars, core, state, sleepVars, tick, lag, irqs, spawns>>

\* Faulty variant: the table may hold one task too many.
RegisterOneTooMany(t, u) ==
  /\ Runs(t)
  /\ state[u] = "absent"
  /\ spawns < MaxSpawns
  /\ spawns' = spawns + 1
  /\ Len(tasks) <= MaxTasks
  /\ tasks' = Append(tasks, u)
  /\ state' = [state EXCEPT ![u] = "ready"]
  /\ UNCHANGED <<i, before, polled, core, signalled, sleepVars, tick, lag, irqs>>

\* sdk_register_task.  A full table drops the task.
Register(t, u) ==
  /\ Runs(t)
  /\ state[u] = "absent"
  /\ spawns < MaxSpawns
  /\ spawns' = spawns + 1
  /\ IF Len(tasks) < MaxTasks
       THEN /\ tasks' = Append(tasks, u)
            /\ state' = [state EXCEPT ![u] = "ready"]
       ELSE UNCHANGED <<tasks, state>>
  /\ UNCHANGED <<i, before, polled, core, signalled, sleepVars, tick, lag, irqs>>

\* Entry i is overwritten with the last one, which is dropped.
Compact == SubSeq([tasks EXCEPT ![i] = tasks[Len(tasks)]], 1, Len(tasks) - 1)

\* Faulty variant: the entry that took the place of the completed one is not
\* polled in this pass.
CompleteAndAdvance(t) ==
  /\ Runs(t)
  /\ tasks' = Compact
  /\ i' = i + 1
  /\ state' = [state EXCEPT ![t] = "absent"]
  /\ UNCHANGED <<before, polled, core, signalled, sleepVars, tick, lag, irqs, spawns>>

\* The poll returns ASYNC_DONE.  Whoever registers the task again initialises
\* its context, but not the sleep context in it.
Complete(t) ==
  /\ Runs(t)
  /\ tasks' = Compact
  /\ state' = [state EXCEPT ![t] = "absent"]
  /\ UNCHANGED <<i, before, polled, core, signalled, sleepVars, tick, lag, irqs, spawns>>

-----------------------------------------------------------------------------
(* sdk_run.                                                                 *)

BeginPass ==
  /\ i' = 1
  /\ before' = Len(tasks)
  /\ polled' = {}
  /\ lag' = 0
  /\ irqs' = 0
  /\ UNCHANGED tasks

\* A pass that leaves as many tasks as it found is followed by SDK_IDLE.
EndPass ==
  /\ core = "running"
  /\ i > Len(tasks)
  /\ BeginPass
  /\ core' = IF Len(tasks) = before THEN "stopped" ELSE "running"
  /\ UNCHANGED <<state, signalled, sleepVars, tick, spawns>>

\* Faulty variant: the tick interrupt is not among those that end SDK_IDLE.
TickAsleep ==
  /\ lag < MaxLag
  /\ lag' = lag + 1
  /\ tick' = (tick + 1) % TickRange
  /\ elapsed' = [t \in Task |-> IF state[t] = "sleeping" /\ elapsed[t] < asked[t]
                                  THEN elapsed[t] + 1 ELSE elapsed[t]]
  /\ UNCHANGED <<tableVars, core, state, signalled, slept, deadline, irqs, spawns, asked>>

\* timer_tick_isr
Tick ==
  /\ lag < MaxLag
  /\ lag' = lag + 1
  /\ core' = "running"
  /\ tick' = (tick + 1) % TickRange
  /\ elapsed' = [t \in Task |-> IF state[t] = "sleeping" /\ elapsed[t] < asked[t]
                                  THEN elapsed[t] + 1 ELSE elapsed[t]]
  /\ UNCHANGED <<tableVars, state, signalled, slept, deadline, irqs, spawns, asked>>

\* Another interrupt makes the condition of u true.
Interrupt(u) ==
  /\ irqs < MaxIrqs
  /\ irqs' = irqs + 1
  /\ u \in Waiter \ signalled
  /\ signalled' = signalled \cup {u}
  /\ core' = "running"
  /\ UNCHANGED <<tableVars, state, sleepVars, tick, lag, spawns>>

-----------------------------------------------------------------------------
\* A poll under way.
Poll(t) == Block(t) \/ Resume(t) \/ SleepMs(t) \/ Await(t) \/ Yield(t) \/ Complete(t)

Next ==
  \/ \E t \in Task : Poll(t) \/ \E u \in Task : Signal(t, u) \/ Register(t, u)
  \/ EndPass
  \/ Tick
  \/ \E u \in Task : Interrupt(u)

Spec == Init /\ [][Next]_executorVars

\* The core runs, and the timer ticks.  Nothing else interrupts for sure.
FairSpec ==
  /\ Spec
  /\ WF_executorVars(EndPass \/ \E t \in Task : Poll(t))
  /\ WF_executorVars(Tick)

-----------------------------------------------------------------------------
TypeOK ==
  /\ tasks \in Seq(Task)
  /\ Len(tasks) <= MaxTasks
  /\ i \in 1..(Len(tasks) + 1)
  /\ before \in 0..MaxTasks
  /\ core \in {"running", "stopped"}
  /\ state \in [Task -> TaskState]
  /\ signalled \subseteq Waiter
  /\ slept \subseteq Task
  /\ deadline \in [Task -> TickCount]
  /\ tick \in TickCount
  /\ lag \in 0..MaxLag
  /\ irqs \in 0..MaxIrqs
  /\ spawns \in 0..MaxSpawns
  /\ polled \subseteq Task
  /\ asked \in [Task -> Duration \cup {0}]
  /\ elapsed \in [Task -> Nat]

(* A pass polls each task once, and those it has kept stand before the next *)
(* entry: completions that move the last task forward, and registrations    *)
(* while the table is being walked, neither skip a task nor poll one twice. *)
EachIsPolledOnce ==
  /\ polled = {tasks[j] : j \in {k \in DOMAIN tasks : k < i}}
  /\ \A j, k \in DOMAIN tasks : tasks[j] = tasks[k] => j = k
  /\ Entries = {t \in Task : state[t] # "absent"}

(* sdk_sleep_ms sleeps for at least ms ticks, whatever the tick count was.  *)
SleepLasts ==
  [][\A t \in Task : state[t] = "sleeping" /\ state'[t] # "sleeping"
                       => elapsed[t] >= asked[t]]_executorVars

(* A task that can go on does so: though a core that stops does not look    *)
(* again at what became true since it polled, the next tick wakes it.       *)
ReadyRuns == \A t \in Task : Ready(t) ~> (state[t] = "body")

(* Every sleep ends, even if passes are so slow that its last tick is       *)
(* missed.                                                                  *)
SleepEnds == \A t \in Task : (state[t] = "sleeping") ~> (state[t] = "body")
=============================================================================

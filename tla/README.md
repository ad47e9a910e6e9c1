# TLA+ models of mcu-runtime

mcu-runtime is firmware for the small processors of ASPEED server-management
chips and the host tools that load it: the Root of Trust of the AST1060
(Platform Firmware Resilience, PFR), the boot microcontroller of the AST2700,
a cooperative SDK for the ColdFire coprocessor of the AST2400/AST2500, a
protobuf codec for inter-core messages, and loaders and image tools. This
directory holds TLA+ models of its control logic, TLC configurations that check
them on small instances, and TLAPS proofs for all instances.

`PROJECT.json` lists the components, the runs, the mutants that show each
property can fail, the source lines each definition models, the findings, the
hazards and the theorems.

## Inventory

| Part | State | Operations | What is hard | What makes it correct |
|---|---|---|---|---|
| PFR state machine (`app-rot/src/pfr`) | state, recovery reason | `step_record` | events in any order, stale reports | nothing is released unverified; Lockdown is final |
| AST1060 main task (`bin/rot_ast1060.rs`, `runtime.rs`) | event channel, position in the loop | receive, act, report | it sends to the channel it alone receives from; triggers arrive at every await | reports stay truthful; it never blocks itself; it settles |
| Platform release (`platform/generic.rs`) | flash mux, reset and power lines, `first_release` | hold, release | a sequence of awaits; the second release differs | order of lines; hand-over only behind the filter |
| Protocol policy (`protocol/mod.rs`) | none | `to_pfr_event` x 3 | producers of the channel | which triggers exist |
| Image verifier (`verify.rs`, `manifest`) | buffers | `verify_manifest`, `verify_task` | order of checks, length edges, flash that changes meanwhile | what was verified is what the target has |
| SPI filter (`filter.rs`) | block table, enable bits | `from_manifest`, `apply_ast1060_spi_policy` | range arithmetic at 16 KiB and 8 MiB edges; reset before enable | every protected byte is covered before the hand-over |
| Flash backend, crypto (`platform/ast1060.rs`) | none | `find`, `read`, `write`, `erase_sector`, `verify` | page ends, partial writes | exactly the bytes asked for change |
| Flash layout, recovery plan (`flash`) | recovery level | `validate`, `find_containing`, `escalate` | pure | a range has one region |
| Provisioning (`provision`) | five fields | `apply` | write, then commit; power loss between; burns before or after | a locked device is provisioned; locked is final |
| AST2700 BootMCU (`bin/rot_ast2700_bootmcu.rs`) | payloads, gates, IPC queue | boot flow, `load_payload`, IPC loop | retries, tolerated failures, resets that keep DRAM | cores are released only after every gate, on what was loaded |
| IPC codec (`ipc-proto`) | none | `encode`, `decode` | truncation, unknown fields | each request has its own reply; ill-formed frames change nothing |
| ColdFire mailbox (`hal/mbox.c`) | two rings, wake flag, sequence counter | `mbox_recv`, `mbox_send`, `mbox_printf`, ISR | two processors, an interrupt, idle core | bounded FIFO; no lost wake-up; resets leave an empty ring |
| ColdFire executor, timer, async (`executor.c`, `timer.c`, `async.h`) | task table, tick count, contexts | register, step, run, sleep | removal while polling, idle decision, wrap-around | every task is polled; sleeps last |
| ColdFire UART, startup, vectors | flags, `.bss` | ISR, send, receive, reset | stale flags; `.bss` lies over the mailbox | bytes once and in order |
| UART loader (`tools/aspeed-uart-load`) | receive buffer | reader goroutine, stages | shared buffer, partial writes, time-outs | files arrive whole where they are expected; the loader ends |
| Flash image tool (`tools/imgtools/spi.go`) | none | `spi-image` | overlaps, agreement with the BootMCU's offsets | each core runs its own file |
| Other image tools, stubs, diagnostics, SSP, A35 | - | one-shot conversions, probes | - | not modelled |

How they interact: the AST1060 main task drives the PFR machine and the platform
and is fed through the channel by protocol tasks (which the source leaves as a
TODO; their events are the ones `protocol/mod.rs` defines). The ARM and the
ColdFire share two rings in SRAM and interrupt each other. The BootMCU loads and
releases the CA35 from an image that `imgtools` made, and answers its IPC
messages. The host tools feed boot ROMs over a serial line.

## Modules

| Module | Models |
|---|---|
| `PfrMachine` | `Machine::step_record`: next state, reason and action of every state and event, and the machine as a library any caller may drive |
| `PfrProtocol` | the mappings of `protocol/mod.rs` from commands, checkpoints and intents to events |
| `PfrRuntime` | `main_task`: one action per arm of the loop and per resumption after an await, with the channel, the verifier's outcome and the platform |
| `PfrLifecycle` | abstract: hold, verify, release, recover - what a platform may go through |
| `PfrRefinement` | the mapping from `PfrRuntime` to `PfrLifecycle` |
| `PfrRuntimeProofs` | theorems about `PfrRuntime` and `PfrRefinement` |
| `MboxRing` | the counter arithmetic of `mbox.c` |
| `Fifo` | abstract: a bounded queue with one receiver, which resets empty |
| `MboxRecv` | ARM to ColdFire: producer, `mbox_recv`, `mbox_rx_isr`, idle and tick, restart |
| `MboxSend` | ColdFire to ARM: `mbox_send`, `mbox_printf`, the ARM's interrupt handler |
| `MboxEcho` | both directions, composed by the echo task of the smoke test |
| `MboxRingProofs` | lemmas about counters, slots and what lies in the ring |
| `MboxRecvProofs`, `MboxSendProofs` | theorems about `MboxRecv` and `MboxSend` |
| `Executor` | the task table and passes of `executor.c`, the awaits of `async.h` and `async_sem.h`, the tick and `sdk_sleep_ms` of `timer.c` |
| `ExecutorProofs` | theorems about `Executor` |
| `BootMcu` | `main` of the BootMCU up to the release: gates, loads and retries, resets |
| `SpiImage` | `spi-image`: where files go, what is refused, who owns each byte |
| `IpcProto` | the envelope codec, byte by byte |
| `Ast2700` | a board: an image of the tool, the BootMCU, the IPC loop and the CA35; composes the three |
| `BootMcuProofs` | theorems about `BootMcu`, that `Ast2700` implements it, and about the images of `SpiImage` on the board |
| `Manifest` | validation of manifests, keys and attestation, anti-rollback, `VerificationQueue` |
| `SpiFilter` | the block table, the target's flash commands and which of them pass |
| `Ast1060Flash` | slots, pages and sectors of the flash backend |
| `ProtectedFlash` | verification, filter, hand-over, the running target and the flash backend; composes `PfrMachine` and the three above |
| `FlashLayout` | layouts, recovery plans and recovery levels |
| `Provision` | `apply` under any caller of its usage pattern, with failures and power loss |
| `FlashProofs` | theorems about `Manifest`, `FlashLayout`, `SpiFilter`, `ProtectedFlash` and `Provision` |
| `UartLoad` | `main` of the serial loader, its reader goroutine, the line and the boot ROM |
| `UartLoadProofs` | theorems about `UartLoad` |
| `MCPfr`, `MCMboxRecv`, `MCMboxSend`, `MCExecutor`, `MCAst2700`, `MCProtectedFlash`, `MCUartLoad` | instances for TLC |

### PfrRuntime and the code

All tasks of `rot_ast1060` run on one cooperative embassy executor. Another task
runs only while the main task is at an await that is not ready, so `pc` names
those awaits and everything between two of them is one action:

* `Take*` are the arms of the `match`: receive the head of the channel, call
  `Runtime::process`, start the action up to its first await that may not be
  ready. `TakeVerifyUnprovisioned` and `TakeRecover` never wait, so they go on to
  the `send` in the same action.
* `HoldDone`, `VerificationOk/Err`, `FlashResetDone`, `Raise*`, `ReleaseDone` are
  the resumptions. `VerificationErr` stands for any `VerificationError`, those
  found before the first await included, then `continue`.
* `Send` is `EVENTS.send(..).await`. On a full channel the task waits; as it is
  the only receiver nothing ever makes room, hence the location `blocked`, which
  no step leaves.
* `ProtocolSend` is a protocol task's send. It needs a free slot; a task that
  waits for one is a send that has not happened yet. `ExternalBudget` bounds
  these events.
* `provisioned` is a constant of each behaviour. The shipped binary has an empty
  manifest (FALSE); TRUE is what the same loop does once a manifest exists.

Left out: log output, component tags, status codes (they decide nothing); the
flash power pins and PLTRST (never change after `new`); the two calls per line
that act on CPU0 and CPU1, the three flash resets and the four muxes, each of
which is one step because nothing can run in between or tell them apart.

### MboxRecv, MboxSend and the code

The ARM is another processor, so one step of a mailbox model is one access to a
variable the other side writes (a counter, a slot, a flag), in C program order.
The ring's slots are not volatile; what a compiler may do with that is listed as
a hazard, not modelled. The doorbell interrupt preempts `mbox_recv` between any
two steps; that it may also be delayed covers the time before the first
`SDK_IDLE`, which is what unmasks interrupts. `EndPass` is the rest of a pass of
`sdk_run`: if some other task completed in it the core polls again at once, if
not it stops until an interrupt. In `MboxSend` a poll
runs to its end before another task's (`BetweenPolls`), except that the ARM runs
in between; `mbox_printf` does not leave its poll while the ring is full.

`Restart` is a reset of the core. `startup.S:72-81` zeroes `.bss`, which the
linker scripts place from 0x320000 (`cfv1-ast2500.ld:27,77-97`,
`cfv1-ast2400.ld:30,63-80`), the `SDK_SRAM_BASE` of `mbox.h:119`. The task table
alone is as long as the 64 bytes of the SDK header, so the counters of the
ARM-to-ColdFire ring are zeroed, and as many of its slots as `.bss` is long (any
set of them in the model). What the ring held is lost, which `Fifo` has as its
`Reset`. (No run is about this: `mbox.h:20` says that only the producer writes
`head`, and `coldfire/README.md:152` that the SDK claims the region; the linker
scripts and the startup code do otherwise.) The ARM is taken to write nothing to
the ring until startup is over, as `coldfire/README.md:168` asks of it. The same overlap means that variables and
the ring share bytes while the firmware runs; there the models follow the
documented layout and give each its own memory. `MboxSend` has no reset.

The ARM side is a project of its own. Its producer and its interrupt handler
are modelled from the protocol `mbox.c` and `mbox.h` describe: fill, advance,
ring; acknowledge, drain until empty, sleep.

`MboxEcho` models the echo firmware of `coldfire/README.md` and
`test/target/README.md` (planned test SC-3) from its description.

### Executor and the code

The tasks are the application's; the SDK decides when they are polled, and which
awaits go on. So what a task does between two awaits is free, and one step is
one test of an await or one statement of a body. Interrupts come between any two.

* `Block` and `Resume` are the test of an await that a poll begins with
  (`async.h`); `Resume` goes on to the task's statements, `Block` returns
  ASYNC_CONT. An await that is met is tested in the same poll, so `SleepMs` and
  `Await` leave the current entry alone and are followed by `Block` or `Resume`.
* `Yield` and `Complete` end a poll with ASYNC_CONT and ASYNC_DONE. `Complete`
  moves the last entry into the gap and polls it next.
* `Signal` is one task making the condition of another true (`signal_sem`, or
  any flag); `Register` is `sdk_register_task` from a task, which ignores a task
  that finds the table full. `Init` covers the registrations of `main`.
* `EndPass` is the end of the loop body of `sdk_run`: the core enters SDK_IDLE
  when the pass left as many tasks as it found. `Tick` and `Interrupt` wake it.
* `slept` holds the sleep contexts at ASYNC_DONE. `async_call` leaves such a
  context alone; `Reinits` are the tasks that call `async_init` before each sleep
  and so really sleep again. `executor` has tasks that do, `executor_template`
  one that does not.

Left out: a semaphore's count beyond one (a condition holds or not), nesting of
contexts other than the sleep's, the registers of the timer, and status bits that
mask interrupts (an interrupt may come late, as in the mailbox models). The poll
order is the table's; a task registers another, never itself.

### BootMcu, Ast2700 and the code

`main` is one sequential program, so an action is a stretch of it up to the next
result of the hardware, and `pc` names the stretches in order: calibration,
DRAM, OTP, SoC manifest, IDEVID, then either the A2 container path (`authorize`,
`copy`) or the raw header and payload of the other steppings (`header`, `a35`),
the payloads of the M4 cores, `handover`, `release`, `enable`, and the IPC loop
(`serve`). What the hardware answers is free, but Caliptra serves nothing before
its runtime is ready, and it may become ready between any two steps.

* A payload is abstracted to what `verify_payload` tells apart: whether each of
  its ends in DRAM is as in flash (`dram`), and whether flash begins with
  something other than erased bytes (`present`). DMA and word copies leave any of
  the four; DRAM survives a `Reset`, unless flash is rewritten.
* `Done` and `StepsFor` are the retry loops: a DMA and a word copy per attempt
  for the M4 cores, word copies for the CA35, which must succeed while the M4
  cores are left out when theirs fail.
* `Gate` is the test each authentication step ends with: halt on a secure board,
  go on otherwise.

`SpiImage` gives flash its contents in `Ast2700`: `present` follows from the
image. A request is the lengths of its files; the copies are made in the tool's
order and the last one over a byte owns it. Prebuilts may reach the boot header,
which the tool does not check, and a payload may be longer than its window; a
core that was given no file may then run on theirs, which is what
`RunsWhatWasBuilt` allows and nothing more.

One `Serve` is one turn of the IPC loop that has something to do: receive into
the queue, serve the head. A frame is a mailbox slot, its length and 31 bytes;
`IpcProto` decodes and encodes it as `ipc-proto` does, oneof and unknown fields,
wire types and truncation included; lengths and values of a varint are cut to 32
bits (`U32`), as `as usize` and `as u32` do on riscv32. The mailbox has
`MailSlots` slots that lose nothing, and the CA35 waits for a free one. The CA35 is external: it sends frames, sound
and ill-formed, and takes replies; `asks` says what a sound one asks for, by the
schema and not by the decoder. The keep-alive calls to Caliptra in the loop
change nothing that the model holds.

### ProtectedFlash and the code

The model is about bytes of flash (`good`: cells of images that hold what was
signed) rather than about calls. `Receive` is a turn of `main_task` up to its
first await, with the checks of `validate_manifest` and `validate_anti_rollback`;
`ReadImage`, `Digest` and `Signature` are `verify_task` between its awaits, the
length checks of `verify_ecdsa_p384` and `verify_rsa` included; `ResetFilter` and
`ProgramFilter` are `apply_ast1060_spi_policy` before and after the moment in
which a monitor that was reset is enabled again; `HandOver` and `Raise` are the
release. `TargetCommand` is any program, erase or chip erase of the target that
the monitor passes. `Alarm` is a protocol task that reports a watchdog or a reset.
Where the main task waits and how the channel fills up is `PfrRuntime`'s subject;
here a send always has room.

`StartWrite`, `WritePage`, `WriteFails` and `EraseSector` are the flash backend.
Nothing in the sources calls it yet; the model lets an update write to flash
before the boot event, while the AST1060 owns it. That the monitor stops a
command that would touch a protected block, and that a page program wraps inside
its page, is what the hardware is taken to do.

The shipped firmware has an empty manifest and no slot mapping (`MCManifests` and
`MCSlotTables` begin with them). The others are what a build with images would
hold, valid and not; the code that checks them is the same.

### FlashLayout, Provision and the code

Both are libraries that nothing in the sources calls. `FlashLayout` is pure.
`Provision` puts `apply` under any caller that keeps to the usage pattern of its
documentation (`provision/mod.rs:17-30`, `:72-76`, `:105-106`): the next state is
stored and, if that succeeds, becomes the live one. When the caller burns the OTP
is not prescribed, so `Hardware` comes before the store or after the commit; any
step may fail and power may go at any time. They have theorems (in `FlashProofs`)
and no run.

### UartLoad and the code

The main goroutine and the reader share the port and `rxBuf`, so an action is one
read, one write, one poll of the buffer or one deadline. `SendChunk` may write
fewer bytes than the chunk. Bytes of the files carry their file and index, so the
model sees which byte arrives where; the prompts of the AST2700 are two characters
each, so a read may cut one. The boot ROM prints its prompt, takes as many bytes as the
header it reads announces, and loses what it does not wait for; the line itself
loses nothing. `PowerCycle` is the user's. A loader can be wrong about the ROM: a
board that is power-cycled after it gave a prompt, or once something was sent,
is not where the prompt said (`rxBuf` is never cleared), and a loader without
`-wait` begins when its drain is over, whatever the ROM does then. The history
variable `misled` records that, and nothing else.

## Runs

| Run | Result | Shows |
|---|---|---|
| `pfr_safety` (58,610 states) | passes | type invariant, reason, release only when verified, the channel invariant, line order, bounded work, filtered hand-over, refinement of the lifecycle |
| `pfr_liveness` (2,159) | passes | no self-block below the channel's depth, recovery leads to verification, settling in Monitor |
| `pfr_lockdown` | violated | a trigger leaves Lockdown (`pfr/mod.rs:17`, `:248` say none does) |
| `pfr_exhaustion` | violated | persistent failure never reaches Lockdown (`flash/mod.rs:204`) |
| `mbox_recv` (30,045) | passes | ring bound, no torn copy, bounded FIFO that resets empty, published messages are taken unless the core is reset |
| `mbox_send` (68,920) | passes | ring bound, bounded FIFO, messages reach the ARM, calls end |
| `mbox_echo` | violated | `mbox_recv` completes without a message (`mbox.h:102`), the echo is sent twice |
| `executor` (74,862) | passes | type invariant, each pass polls every task once, sleeps last and end across the wrap-around of the tick count, what can go on does |
| `executor_template` | violated | a task that sleeps in a loop as the template does returns from its second sleep at once (`template/main.c:47`, `timer.c:95`) |
| `bootmcu` (314,942) | passes | type invariant; secure boards release cores behind every gate only; cores run on windows whose load succeeded and on the files they were built from; nobody touches a window once a core may run; replies in order, each for its request; every request is answered; each boot ends in serving or in a halt |
| `protected_flash` (590,486) | passes | type invariant; images in read-only regions hold what was verified while the target runs; writes and erases change what they were asked to and no more |
| `uart_load` (506,206) | passes | type invariant; a loader that ends well has sent every byte once and in order; what the headers announce comes to the ROM that takes it, while the loader is not misled; the loader always ends |

Bounds, and why they are enough:

* `pfr_safety`: `QueueDepth` 5 instead of 8 and `ExternalBudget` 8, so the
  channel fills up with triggers, the main task blocks, and two rounds of
  overlapping recoveries fit. `pfr_liveness`: 4 and 3, every behaviour below the
  self-block. `pfr_exhaustion` needs no external event at all. The proofs lift
  the safety results to every depth and budget.
* `mbox_recv`: two slots and eight counter values, so that counters wrap around
  several times; two messages, enough to tell a lost, repeated or swapped one;
  one reset, from counters of any value. Messages are unbounded. Counters start
  at zero, as startup leaves them.
* `mbox_send`: two slots for three tasks, so that two always wait; five calls;
  sequence numbers modulo 4, so they wrap; counters start anywhere. `MaxCalls` is also what rules out that
  a task is overtaken for ever: nothing in the source promises that it is not.
* `executor`: three tasks for a table of two, so that it fills up and drops one;
  larger tables, where a completion moves an entry other than the next one, are
  what the proof is for. Six tick values, so that the count wraps around in every
  few sleeps; durations 1 and 2, below half of the range as `Expired` needs.
  `MaxLag` and `MaxIrqs` allow one tick and one other interrupt per pass, so that
  each falls between any two steps; `MaxLag` ticks late is still less than half
  the range, without which a sleep could miss its end for half a turn of the
  count. `MaxSpawns`: one registration by a task. Passes are unbounded.

* `bootmcu`: one reset, two attempts instead of three, so that a load fails, is
  retried by DMA and by words, and meets what the boot before it left in DRAM;
  flash scaled to 16 bytes with the order and the adjacency of the real map; four
  images that the tool makes, a payload longer than its window and a missing one
  among them, and four requests that it must refuse. Two IPC requests per boot out
  of nine, at most both queued; one has a length of 2^32 + 2, which the decoder
  cuts to 2. TLC's integers end at 2^31, so the 32 bits are scaled to 30 and that
  varint is read as it is, its high part dropped by the same cut. The queue of seven slots therefore never fills:
  one frame is taken from the mailbox and one is served per turn, so its length
  stays at most one for any number of requests. The CA35 speaks only on boards
  whose windows are whole, which the IPC loop does not read.
* `protected_flash`: 32 bytes of flash in blocks of 8 of which the table reaches
  three, sectors of 4 and pages of 2, so that ranges end inside, at and beyond
  blocks, table and device; one write and one alarm, enough for a write that
  fails half-way before the boot and for a recovery of a running target.
  Arithmetic is bounded at 63 as the code's is at 2^32 - 1.
* `uart_load`: files of 1 to 3 bytes for a minimum of 2, with headers that announce
  as many, fewer, more, the most that is accepted and one more than that; command
  lines with and without `-wait`, `-stage2`, `-raw`; chunks of 0 (a legal flag) and
  2; a line of three bytes, so that writes wait; one power cycle.

`CHECK_DEADLOCK FALSE` in the PFR runs (the blocked task, and a parked task with
no trigger to come), in `mbox_send` (all calls made), `mbox_echo` (bound
reached) and `bootmcu` (a halted board, a CA35 with nothing to ask). All other
runs are checked for deadlock.

## Fairness

* `PfrRuntime`: weak fairness of the main task. The executor polls a woken task,
  timers fire, flash and crypto transfers end. Protocol tasks get none.
* `MboxRecv`: weak fairness of the ColdFire core and of the tick, a free-running
  hardware timer. None for the ARM: `MessageIsTaken` holds even if the doorbell
  is never rung, because the tick wakes the core.
* `MboxSend`: weak fairness of each task's polls (every pass polls every task)
  and of the ARM's handler, without which nothing could be promised.
* `Executor`: weak fairness of the core (the end of a pass or the poll under way,
  so a task's statements come to an await) and of the tick. No other interrupt is
  promised, hence `ReadyRuns` and `SleepEnds` rest on the tick alone.

* `Ast2700`: weak fairness of `main` (a load ends, by success or failure, and the
  loop turns every 100 ms) and of the CA35 taking its replies. None for Caliptra,
  resets or the CA35's requests. A reset is a bounded number of times, so a boot
  that is not reset ends.
* `UartLoad`: weak fairness of the two goroutines (their polls, their reads with a
  timeout of 100 ms, and the deadlines of the waits, which are an alternative of
  `Wait`) and of the line's bytes. None for the ROM's prompts: the loader ends
  without them.

## Proofs

`PfrRuntimeProofs` proves, for every `QueueDepth` > 0 and `ExternalBudget`:
`TypeOK`, `ReasonMatchesState`, `ChannelInv`, `ReleaseIsVerified`,
`WorkIsBounded`, `NeverBlocked`, `LinesInOrder`, `HandoverIsFiltered` and the
refinement `ImplementsLifecycle`.

The argument. A success event is a message in a queue, so "the machine saw
VerificationPassed" need not mean that the latest verification passed.
`ReleaseIsVerified` alone is not inductive. What makes it so is `ChannelInv`:
the channel stays sorted (`Rank`): outside Verify, triggers come first, then the
report of the action in progress, and RecoveryComplete last. It holds because a
recovery runs without waiting, so RecoveryComplete goes behind everything queued
and everything queued before it is consumed while the machine is in Recover,
where reports are ignored. By the time the machine is back in Verify no report
of an earlier verification is left, and a queued VerificationPassed implies
`verdict = "passed"`. `ChannelInv` with `TypeOK` is inductive; the release
invariant and every step of the refinement follow from it. `WorkIsBounded` is
inductive with `ChannelInv`; with the capacity it gives `NeverBlocked`.

The lines need an invariant of their own. `PlatformInv` says how far the platform
is at each step of a release: the filter is the manifest's before the mux is
switched, the SRST is out after the first release, and it is taken back only by the
boot event, which `InitIsLeft` shows never to come again. `LinesInOrder` is part
of it, and `HandoverIsFiltered` follows from it and from `ReleaseIsVerified`: the
mux is switched at one step only.

This also says what the correctness rests on: if recovery is one day
implemented with awaits, or protocol tasks are moved to another executor, the
channel is no longer sorted and the argument fails.

`MboxRecvProofs` proves, for every ring size and counter range of the
assumption `RingAssumption` and any number of resets: `TypeOK`, `RingIsBounded` and
`NoTornCopy`. The
counter lemmas say that `RingCount` is the distance of the counters modulo their
range, so that an advance of one side changes it by one; `RingIsBounded` is
inductive because each side's own counter is stable between its test and its
advance while the other side's can only move in its favour. `NoTornCopy` then
follows because counters less than a ring apart have different slots.

`MboxSendProofs` proves `TypeOK` and `RingIsBounded` of the send path for every set
of tasks. Here the writers are many, and what makes the test for room hold until
the advance is `OnePolls`: the executor is cooperative, and no task is left in the
middle of a poll while another one polls. Without it two tasks could fill one slot.

Both paths implement `Fifo` (`ImplementsFifo`, the same mapping as in the runs). Its
queue is what lies in the ring from tail to head; the lemmas of `MboxRingProofs`
say that a write to the slot at head leaves that alone while there is room, that an
advance of head appends the written slot, and that an advance of tail takes the
first one away. `QueueInv` adds what each place between write and advance knows of
the slot it works on. A reset of the core is the `Reset` of `Fifo`: it empties
the ring and takes what the caller held.

`ExecutorProofs` proves, for every set of tasks, table size, tick range and
bound: `TypeOK` and `EachIsPolledOnce`. Together they are inductive:
`EachIsPolledOnce` describes the walk by the entries that stand before the current
one. `CompactEntries` says what the removal does to the table: the last entry
takes the place of entry `i`, everything else stays, so the entries before `i`
are untouched and the moved task, which is not among them, is polled next.
`SleepLasts` is proved under `SleepsAreShort`: contexts are initialised before each
sleep, and no sleep is longer than half the range of the tick count. `SleepInv`
says that a sleep in progress has its deadline as many ticks ahead, modulo the
range, as it has left; a deadline at most half the range ahead has not passed by
the comparison of `timer.c`. The assumption is needed: `executor_template` shows what
happens without the first half of it.

`BootMcuProofs` proves, for every number of attempts and resets, `TypeOK`,
`SecureReleaseIsGated`, `RunningCoresAreLoaded` and `WindowsAreLeftAlone`. None is
inductive: what a core may rely on was checked many steps before it runs. The
invariant carries it along: `GatesPassed` says which answers of Caliptra a secure
board has at each place of `main`, `WindowsSound` that the windows of loaded
payloads are as their loads left them (each load writes its own window and only
before any later one), `Stepping` that the two ways of loading the CA35 do not mix
and that attempts are bounded, and `ReleaseInOrder` that cores are prepared from
what is loaded and run only after that. A further part shows that the board's
steps are steps of `BootMcu` or leave it alone, whatever the image and the frames,
so both theorems hold of the board.

The rest is about the board itself. `TypeOK`, and `RunsWhatWasBuilt`, for
every request that `spi-image` accepts, files of any length and any layout with the
payloads above the headers (`LayoutAssumption`, `BuildAssumption`,
`WindowAssumption`). It is about boots from NOR flash, the M4 cores of either
stepping and the CA35 of an A1 (that of an A2 is copied or decompressed after it was
authorised, and nothing is compared then). A core that runs was loaded, both ends
equal, from flash that is not blank where its window begins
(`RunningCoresAreLoaded`), and `BuildInv` says that what is known of flash is what the
tool has put there. What is left is about the tool alone (`StoredIsWhole`). The last
copy over a byte owns it; `CopiesAre` names every copy by its place in the sequence,
`Numbers` says which of them may come after a payload's. For a core with a file none
reaches its range: FMC and prebuilts are copied before it, wherever they lie, earlier
payloads do not overlap, and the boot header lies below. For a core without a file
`OnlyPayloadsAbove` says that, unless FMC or prebuilts pass the boot header, only
another payload that runs into its window can be there; otherwise the window reads as
erased and the core is not released.

`RepliesInOrder` is proved for any number of requests, of any frames, with
ill-formed ones between them (`RequestAssumption`, `QueueAssumption`), over a mailbox
of any number of slots that keeps messages and their order. `OrderInv` says
that ids rise in both mailboxes, that every request without a reply in the mailbox is
on its way, and that every frame on its way is waited for or asks for nothing. So the
frame that is served next is the first request without a reply, and its reply goes to
the right place. The queue of events is always empty between two turns, because
a turn serves what it has received. The theorem has a hypothesis, `CodecAgrees`: the
decoder takes each frame for what it asks by the schema, and every reply to it fits a
slot and is decoded as it was meant. That is a fact about recursion over bytes, which
no installed prover can use. `CodecIsSound` of `MCAst2700` has TLC evaluate it, for the
frames of the run and for sequence numbers and nonces at every length of a varint,
lengths and values beyond 32 bits, varints of ten and eleven bytes and a field number
beyond eight bits, on every board.

`FlashProofs` ends with `Provision`, and proves, of every sequence of commands,
failures and power losses and of either place of the burn, that nothing is locked, in
memory, in storage or for good in the OTP, without root key, manifest and descriptor
(`LockedIsProvisioned`: a locked state has the three itself, a locked OTP has them in
storage), and that a stored lock is final. The invariant
adds what each step of the caller knows: memory and storage differ only between the
store and the commit, what is about to be stored is what `apply` made of the live
state, and a lock that is still to be burned is the command under way. Neither order
keeps storage and OTP equal, and no theorem says so: with the burn first, power loss
leaves the OTP ahead and a burn of the counter is repeated; with the burn last, storage
may claim what was never burned. `provision/mod.rs` does not say which it wants.

Its first part proves theorems about the policies for every width and size: a
valid layout has at most one region for a range (`FindIsUnambiguous`), an image of
a valid manifest lies in exactly one region (`ImagesHaveOneRegion`), an enabled
filter stops every command that would change a byte of a read-only region within
the table's reach (`ReadOnlyIsProtected`), and `VerificationQueue` is a FIFO
(`QueueIsFifo`). They assume that offsets and sizes are natural numbers and, for
the filter, that a block is not empty.

Its other parts prove `TypeOK` and `VerifiedImagesStayIntact` of `ProtectedFlash` for
every manifest, slot table and flash size (`DeviceAssumption`, `BoundAssumption`,
`ManifestAssumption`). The invariant `FlashInv` follows an image from the check to the
running target: nothing but the boot event leaves Init, and it takes flash back, so
that a verification reads what nobody else writes (`BootInv`, `OwnerInv`); images
before the current one are read and found good (`WalkInv`); a queued
VerificationPassed, a release in progress or a running target means that all of them
are (`VerdictInv`); and the monitors hold the manifest's table from before the
hand-over (`FilterInv`), so `ReadOnlyIsProtected` keeps them so. A verification while
the target owns flash proves nothing by its own reads: the verdict that let the
target run is what still holds then. They also prove `BackendIsExact` for every
page and sector size: a chunk that ends with its page is programmed in place, so
what is written is always the piece from the start of the write to its present
place.

`UartLoadProofs` proves `TypeOK` and `ImagesArriveWhole` for every set of options and
every two files (`OptionAssumption`, `FileAssumption`, `LineAssumption`). The property
speaks of the end, so the invariant `LoadInv` says what each byte is owed on the way.
`BytesInv`: what the ROM was sent and what is on the line are together a prefix of
the first file, or all of it and a prefix of the second; `PlaceInv`: how long that
prefix is follows from the place in `main`, whatever part of a chunk each write took.
The two hold without condition and give the first half of the property. The other
three hold while the loader is not misled. `SeenInv` is the heart: the buffer is never
cleared, but a `2` is in it or on the line only if the ROM has come to its second
stage, so the second prompt, which differs from the first, is not found too early.
`RomInv` then says that the ROM has taken as many bytes as have arrived, of the first
file and, after it, of the second, and `ArrivalInv` is the second half of the
property for what has arrived. A first file that is longer than it says (the loader
only warns of it) leaves bytes that the second stage takes for its own, which is why
`FirstFits` is a condition on the second file, and on nothing else.

Only model-checked: all liveness (out of the prover's reach), and `CodecAgrees`, for the
reason given. Every invariant and every other action property of the passing runs is
a theorem.

## Not modelled

* The diagnostic and bring-up binaries (`caliptra_hello_bootmcu` and the others):
  they print what the hardware says and keep nothing.
* Protocol stubs, event log, Intel and AMD platforms: types without behaviour.
* SSP and A35 applications: echo and probe programs over external crates.
* `ast1060-load`: the single-stage sibling of the modelled loader, and its probe
  loop. The image tools other than `spi-image`: one-shot conversions of a file.
* The hash engine's registers and the cryptography itself: a digest or a signature
  passes exactly on what was signed. Payload bytes between the two ends that the
  BootMCU compares. Compression: the decoder accepts or refuses.
* The registers of the UART driver of the ColdFire, its vectors beyond dispatch,
  and the memory routines.
* The memory of a caller (`mbox.h:43`), and what a compiler does with accesses
  that are not volatile.
* Variables of the ColdFire that share bytes with the mailbox ring outside a reset
  (the linker scripts' `.bss`, see MboxRecv), and resets on the send path.
* The IPC mailbox of the AST2700 beyond its slots: a driver that loses or doubles a
  message.

## Plan

1. The flags of the UART driver, and messages on a task's stack as an extension of
   `Executor`.
2. `asth.go` and `fmc.go`, if their headers come to be read by code in this
   repository.

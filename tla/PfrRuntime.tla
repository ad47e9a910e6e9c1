----------------------------- MODULE PfrRuntime -----------------------------
(***************************************************************************)
(* The main task of app-rot/src/bin/rot_ast1060.rs: one consumer of a       *)
(* bounded event channel (runtime.rs), which also is the producer of the    *)
(* events that report its own actions done.  Protocol tasks put recovery    *)
(* triggers into the same channel.                                          *)
(*                                                                         *)
(* Every task runs on one cooperative embassy executor, so a protocol task  *)
(* runs only while the main task waits at an await that is not ready: a     *)
(* timer, a flash or crypto transfer, an empty channel on receive, a full   *)
(* channel on send.  Between two such points the main task is atomic.       *)
(***************************************************************************)
EXTENDS Naturals, Sequences, PfrMachine, PfrProtocol

CONSTANTS
  QueueDepth,     \* EVENT_QUEUE_DEPTH (8 in the source)
  ExternalBudget  \* bound: how many events the protocol tasks send in all

ASSUME QueueDepthAssumption == QueueDepth \in Nat \ {0}
ASSUME ExternalBudgetAssumption == ExternalBudget \in Nat

VARIABLES
  events,       \* EVENTS, the channel: a FIFO of at most QueueDepth events
  pc,           \* where the main task stands
  provisioned,  \* the manifest names images (otherwise: unprovisioned bypass)
  verdict,      \* how the latest verification ended, "none" while it runs
  mux,          \* who owns the target SPI flash: the RoT or the target
  filter,       \* the SPI filter policy last programmed
  lines,        \* the reset and power lines that are deasserted (released)
  first_release,\* Ast1060DcscmPlatform.first_release
  budget        \* external events still to come

platformVars == <<mux, filter, lines, first_release>>
vars == <<state, recovery_reason, events, pc, provisioned, verdict,
          mux, filter, lines, first_release, budget>>

\* The awaits of release_bootmcu_from_reset, in order.
ReleaseSteps == {"flash_reset", "mux_settle", "srst_settle",
                 "extrst_settle", "aux_settle"}

\* "receive" and "run" are the two sides of EVENTS.receive().await: parked on
\* an empty channel, or running.  "blocked" is EVENTS.send(..).await on a full
\* channel: the only task that receives is the one that waits, so no step
\* leaves it.
Location == {"run", "receive", "hold", "verify", "blocked"} \cup ReleaseSteps

Busy == pc \in {"hold", "verify", "blocked"} \cup ReleaseSteps

Line == {"srst", "extrst", "aux_pwrgd"}

Init ==
  /\ MachineInit
  /\ events = <<"Boot">>         \* sent before the task first waits
  /\ pc = "run"
  /\ provisioned \in BOOLEAN
  /\ verdict = "none"
  /\ mux \in {"rot", "target"}   \* Ast1060DcscmPlatform::new leaves it alone
  /\ filter = "none"
  /\ lines = {}
  /\ first_release = TRUE
  /\ budget = ExternalBudget

-----------------------------------------------------------------------------
(* The arms of the main loop.  Each takes the head of the channel, steps    *)
(* the machine and starts the action it asks for, up to the first await     *)
(* that may not be ready.                                                   *)

Take(action) ==
  /\ pc = "run"
  /\ events # <<>>
  /\ ActionFor(state, Head(events)) = action
  /\ StepRecord(Head(events))
  /\ UNCHANGED <<provisioned, budget>>

\* Faulty variants: the capacity is off by one, in either direction.
SendOneTooMany(q, e) ==
  IF Len(q) <= QueueDepth
    THEN events' = Append(q, e) /\ pc' = "run"
    ELSE events' = q /\ pc' = "blocked"

SendOneTooFew(q, e) ==
  IF Len(q) < QueueDepth - 1
    THEN events' = Append(q, e) /\ pc' = "run"
    ELSE events' = q /\ pc' = "blocked"

\* EVENTS.send(e).await, with q the channel as the task finds it.
Send(q, e) ==
  IF Len(q) < QueueDepth
    THEN events' = Append(q, e) /\ pc' = "run"
    ELSE events' = q /\ pc' = "blocked"

TakeHold ==
  /\ Take("HoldPlatform")
  /\ events' = Tail(events)
  /\ pc' = "hold"
  /\ mux' = "rot"                \* hold_bootmcu_in_reset
  /\ lines' = {}
  /\ UNCHANGED <<verdict, filter, first_release>>

TakeVerify ==
  /\ Take("VerifyImages")
  /\ provisioned
  /\ events' = Tail(events)
  /\ pc' = "verify"
  /\ verdict' = "none"
  /\ UNCHANGED platformVars

\* verify_manifest_or_unprovisioned returns Ok at once when no image exists.
TakeVerifyUnprovisioned ==
  /\ Take("VerifyImages")
  /\ ~provisioned
  /\ verdict' = "passed"
  /\ Send(Tail(events), SuccessEvent("VerifyImages"))
  /\ UNCHANGED platformVars

\* Faulty variant: the provisioned filter policy is never programmed.
TakeReleaseUnfiltered ==
  /\ Take("ReleasePlatform")
  /\ events' = Tail(events)
  /\ pc' = "flash_reset"
  /\ filter' = "bypass"
  /\ UNCHANGED <<verdict, mux, lines, first_release>>

TakeRelease ==
  /\ Take("ReleasePlatform")
  /\ events' = Tail(events)
  /\ pc' = "flash_reset"
  /\ filter' = IF provisioned THEN "manifest" ELSE "bypass"
  /\ UNCHANGED <<verdict, mux, lines, first_release>>

\* Faulty variant: the end of a recovery overtakes what is queued.
TakeRecoverFirst ==
  /\ Take("RecoverImages")
  /\ events' = <<SuccessEvent("RecoverImages")>> \o Tail(events)
  /\ pc' = "run"
  /\ UNCHANGED <<verdict, platformVars>>

\* "mocked complete": recovery does nothing and does not wait.
TakeRecover ==
  /\ Take("RecoverImages")
  /\ Send(Tail(events), SuccessEvent("RecoverImages"))
  /\ UNCHANGED <<verdict, platformVars>>

\* StartMonitoring and Lockdown only log; an ignored event does nothing.
TakeQuiet ==
  /\ \E a \in {"None", "StartMonitoring", "Lockdown"} : Take(a)
  /\ events' = Tail(events)
  /\ UNCHANGED <<pc, verdict, platformVars>>

\* receive().await on an empty channel, and its wake-up.
Park ==
  /\ pc = "run"
  /\ events = <<>>
  /\ pc' = "receive"
  /\ UNCHANGED <<machineVars, events, provisioned, verdict, platformVars, budget>>

Wake ==
  /\ pc = "receive"
  /\ events # <<>>
  /\ pc' = "run"
  /\ UNCHANGED <<machineVars, events, provisioned, verdict, platformVars, budget>>

-----------------------------------------------------------------------------
(* The resumptions: what the main task does after an await.                 *)

Resume(at) ==
  /\ pc = at
  /\ UNCHANGED <<machineVars, provisioned, budget>>

HoldDone ==                      \* the 100 ms timer
  /\ Resume("hold")
  /\ Send(events, SuccessEvent("HoldPlatform"))
  /\ UNCHANGED <<verdict, platformVars>>

VerificationOk ==
  /\ Resume("verify")
  /\ verdict' = "passed"
  /\ Send(events, SuccessEvent("VerifyImages"))
  /\ UNCHANGED platformVars

\* Faulty variant: without `continue` a failure is also reported as a success.
VerificationErrFallsThrough ==
  /\ Resume("verify")
  /\ verdict' = "failed"
  /\ events' = events \o <<"VerificationFailed", "VerificationPassed">>
  /\ pc' = "run"
  /\ UNCHANGED platformVars

VerificationErr ==               \* any VerificationError; then `continue`
  /\ Resume("verify")
  /\ verdict' = "failed"
  /\ Send(events, "VerificationFailed")
  /\ UNCHANGED platformVars

FlashResetDone ==
  /\ Resume("flash_reset")
  /\ mux' = "target"
  /\ pc' = "mux_settle"
  /\ UNCHANGED <<events, verdict, filter, lines, first_release>>

RaiseSrst ==
  /\ Resume("mux_settle")
  /\ first_release
  /\ lines' = lines \cup {"srst"}
  /\ first_release' = FALSE
  /\ pc' = "srst_settle"
  /\ UNCHANGED <<events, verdict, mux, filter>>

\* Faulty variant: the SRST step is skipped on the first release too.
RaiseExtrstEarly ==
  /\ Resume("srst_settle") \/ Resume("mux_settle")
  /\ lines' = lines \cup {"extrst"}
  /\ pc' = "extrst_settle"
  /\ UNCHANGED <<events, verdict, mux, filter, first_release>>

RaiseExtrst ==
  /\ \/ Resume("srst_settle")
     \/ Resume("mux_settle") /\ ~first_release
  /\ lines' = lines \cup {"extrst"}
  /\ pc' = "extrst_settle"
  /\ UNCHANGED <<events, verdict, mux, filter, first_release>>

\* Faulty variant: auxiliary power-good is never raised.
SkipAuxPwrgd ==
  /\ Resume("extrst_settle")
  /\ pc' = "aux_settle"
  /\ UNCHANGED <<events, verdict, platformVars>>

RaiseAuxPwrgd ==
  /\ Resume("extrst_settle")
  /\ lines' = lines \cup {"aux_pwrgd"}
  /\ pc' = "aux_settle"
  /\ UNCHANGED <<events, verdict, mux, filter, first_release>>

ReleaseDone ==
  /\ Resume("aux_settle")
  /\ Send(events, SuccessEvent("ReleasePlatform"))
  /\ UNCHANGED <<verdict, platformVars>>

-----------------------------------------------------------------------------
\* Faulty variant: protocol tasks preempt the main task between two awaits.
Preempting == TRUE

\* The main task stands at an await, so the executor can poll another task.
Waiting == pc # "run"

\* A protocol task sends e; while the channel is full it waits in turn.
ProtocolSend(e) ==
  /\ Waiting
  /\ budget > 0
  /\ Len(events) < QueueDepth
  /\ events' = Append(events, e)
  /\ budget' = budget - 1
  /\ UNCHANGED <<machineVars, pc, provisioned, verdict, platformVars>>

MainTask ==
  \/ TakeHold \/ TakeVerify \/ TakeVerifyUnprovisioned \/ TakeRelease
  \/ TakeRecover \/ TakeQuiet \/ Park \/ Wake
  \/ HoldDone \/ VerificationOk \/ VerificationErr
  \/ FlashResetDone \/ RaiseSrst \/ RaiseExtrst \/ RaiseAuxPwrgd \/ ReleaseDone

Next == MainTask \/ \E e \in ProtocolEvents : ProtocolSend(e)

Spec == Init /\ [][Next]_vars

\* The executor polls a task that has been woken, timers fire and transfers
\* end, so the main task is never stopped forever while it can run.  Nothing
\* makes a protocol task send.
FairSpec == Spec /\ WF_vars(MainTask)

-----------------------------------------------------------------------------
TypeOK ==
  /\ MachineTypeOK
  /\ events \in Seq(Event)
  /\ Len(events) <= QueueDepth
  /\ pc \in Location
  /\ provisioned \in BOOLEAN
  /\ verdict \in {"none", "passed", "failed"}
  /\ mux \in {"rot", "target"}
  /\ filter \in {"none", "bypass", "manifest"}
  /\ lines \in SUBSET Line
  /\ first_release \in BOOLEAN
  /\ budget \in 0..ExternalBudget

Released == pc \in ReleaseSteps \/ state \in {"Release", "Monitor"}

(* The platform is released, and monitored as healthy, only while the LATEST *)
(* verification passed.  A success event is only a message in a queue: one   *)
(* that outlived the verification it reports, behind a second recovery,      *)
(* would release firmware whose own verification has failed since.           *)
ReleaseIsVerified == Released => verdict = "passed"

\* How far back in the channel an event belongs, given the machine's state:
\* in Verify the leftovers of earlier recoveries come first and the result of
\* the verification last; elsewhere triggers come first, then the report of
\* the action they overtook, and the end of the recovery last.
Rank(s, e) ==
  IF s = "Verify"
    THEN CASE e = "RecoveryComplete"  -> 0
           [] e \in RecoveryTriggers -> 1
           [] OTHER                   -> 2
    ELSE CASE e \in RecoveryTriggers -> 0
           [] e = "RecoveryComplete"  -> 2
           [] OTHER                   -> 1

ChannelSorted ==
  \A i, j \in 1..Len(events) :
    i < j => Rank(state, events[i]) <= Rank(state, events[j])

\* The events that report an action done, the end of a recovery apart.
Report == SuccessEvents \ {"RecoveryComplete"}

Queued(S) == \A i \in 1..Len(events) : events[i] \in S

\* Where the main task stands and what may be queued there.
LocationInv ==
  /\ pc = "hold" => state = "TMinus1"
  /\ pc = "verify" => state = "Verify" /\ verdict = "none"
  /\ pc \in ReleaseSteps => state = "Release"
  /\ state = "Init" => pc = "run" /\ events = <<"Boot">>
  /\ pc \in {"receive", "hold"} \cup ReleaseSteps => Queued(RecoveryTriggers)
  /\ pc = "verify" => Queued(RecoveryTriggers \cup {"RecoveryComplete"})

\* While the machine waits for a report, the report is the last event queued.
ReportIsLast ==
  pc = "run" /\ state \in {"TMinus1", "Verify", "Release"} =>
    \A i \in 1..Len(events) : events[i] \in Report => i = Len(events)

\* No queued event is a failed recovery, so the machine is never locked down.
ContentInv ==
  /\ state # "Lockdown"
  /\ \A i \in 1..Len(events) :
       /\ events[i] # "RecoveryFailed"
       /\ events[i] = "Boot" => state = "Init"
       /\ events[i] = "VerificationPassed" => verdict = "passed"
  /\ state = "TMinus1" => Queued(RecoveryTriggers \cup {"PlatformHeld"})

\* A main task that waits for room does so on a full channel.
BlockedIsFull == pc = "blocked" => Len(events) = QueueDepth

(* Why no success event goes stale: whatever protocol tasks send, and        *)
(* however often a recovery is interrupted, the channel stays sorted, so a   *)
(* recovery ends only after every trigger and every report queued before it  *)
(* has been consumed, and a queued VerificationPassed tells the truth.       *)
ChannelInv ==
  /\ ChannelSorted
  /\ LocationInv
  /\ ReportIsLast
  /\ ContentInv
  /\ BlockedIsFull

(* Reset and power come up in the order of release_bootmcu_from_reset also   *)
(* on the second and later releases, which skip a step: power-good needs     *)
(* both resets released, the external reset needs the SRST released, and     *)
(* none of them rises before the SPI filter is programmed and the flash is   *)
(* handed to the target.                                                     *)
LinesInOrder ==
  /\ "aux_pwrgd" \in lines => "extrst" \in lines
  /\ "extrst" \in lines => "srst" \in lines
  /\ "srst" \in lines => ~first_release /\ mux = "target" /\ filter # "none"

(* The flash changes hands from the RoT to the target only behind a filter   *)
(* that matches the manifest in force and on a passed verification.          *)
HandoverIsFiltered ==
  [][mux = "rot" /\ mux' = "target" =>
       /\ verdict = "passed"
       /\ filter = IF provisioned THEN "manifest" ELSE "bypass"]_vars

(* Events never multiply: each one the main task takes makes it send at most *)
(* one.  So what waits in the channel, plus what the main task is about to   *)
(* send, is at most the boot event and what protocol tasks have sent.        *)
WorkIsBounded ==
  Len(events) + (IF Busy THEN 1 ELSE 0) <= 1 + (ExternalBudget - budget)

(* The main task is the only receiver of the channel it sends to: if it ever *)
(* waits for room, it waits forever.  It cannot while protocol tasks send    *)
(* fewer events in all than the channel has slots; at QueueDepth it can.     *)
NeverBlocked == ExternalBudget < QueueDepth => pc # "blocked"

(* Recovery always leads back to verification: the machine does not sit in   *)
(* Recover with no RecoveryComplete under way, however many triggers arrive. *)
RecoverLeadsToVerify == (state = "Recover") ~> (state = "Verify")

(* When triggers stop and verification passes from some point on, the        *)
(* platform ends up released and monitored, with every line up.              *)
SettlesInMonitor ==
  \/ []<>(verdict = "failed")
  \/ <>[](state = "Monitor" /\ lines = Line /\ mux = "target")

(* "After MAX the platform should emit Event::RecoveryFailed"                *)
(* (flash/mod.rs:204): verification that keeps failing must end in Lockdown. *)
RepeatedFailureLocksDown == []<>(verdict = "failed") => <>(state = "Lockdown")
=============================================================================

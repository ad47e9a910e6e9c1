-------------------------- MODULE PfrRuntimeProofs --------------------------
(***************************************************************************)
(* For every queue depth and every number of external events: the main      *)
(* task of rot_ast1060.rs releases the platform on a passed verification    *)
(* only, and is not blocked by fewer triggers than the channel has slots.   *)
(***************************************************************************)
EXTENDS PfrRefinement, TLAPS

-----------------------------------------------------------------------------
(* Sequences, as the channel uses them.                                     *)

(* Receiving takes the first event and moves every other one up.            *)
LEMMA TailFacts ==
  ASSUME NEW S, NEW q \in Seq(S), q # <<>>
  PROVE  /\ Len(q) \in Nat \ {0}
         /\ Head(q) = q[1]
         /\ q[1] \in S
         /\ Tail(q) \in Seq(S)
         /\ Len(Tail(q)) = Len(q) - 1
         /\ \A i \in 1..Len(q) - 1 : Tail(q)[i] = q[i + 1]
  OBVIOUS

(* Sending adds an event behind the others, which keep their places.        *)
LEMMA AppendFacts ==
  ASSUME NEW S, NEW q \in Seq(S), NEW e \in S
  PROVE  /\ Append(q, e) \in Seq(S)
         /\ Len(q) \in Nat
         /\ Len(Append(q, e)) = Len(q) + 1
         /\ \A i \in 1..Len(q) : Append(q, e)[i] = q[i]
         /\ Append(q, e)[Len(q) + 1] = e
  OBVIOUS

-----------------------------------------------------------------------------
(* The protocol tasks send recovery triggers and nothing else.              *)
LEMMA ProtocolEventsAreTriggers == ProtocolEvents \subseteq RecoveryTriggers
  BY DEF ProtocolEvents, MailboxEvent, CheckpointEvent, UpdateIntentEvent,
         RecoveryTriggers

(* The match of step_record, sorted by the action it asks for.              *)
LEMMA MachineCases ==
  ASSUME NEW s \in State, NEW e \in Event
  PROVE  /\ NextState(s, e) \in State
         /\ ActionFor(s, e) \in Action
         /\ ActionFor(s, e) = "HoldPlatform" =>
              s = "Init" /\ e = "Boot" /\ NextState(s, e) = "TMinus1"
         /\ ActionFor(s, e) = "VerifyImages" =>
              /\ \/ s = "TMinus1" /\ e = "PlatformHeld"
                 \/ s = "Recover" /\ e = "RecoveryComplete"
              /\ NextState(s, e) = "Verify"
         /\ ActionFor(s, e) = "ReleasePlatform" =>
              s = "Verify" /\ e = "VerificationPassed"
                /\ NextState(s, e) = "Release"
         /\ ActionFor(s, e) = "RecoverImages" =>
              e \in RecoveryTriggers /\ NextState(s, e) = "Recover"
         /\ ActionFor(s, e) \in {"None", "StartMonitoring", "Lockdown"} =>
              \/ s = "Release" /\ e = "ReleaseComplete"
                   /\ NextState(s, e) = "Monitor"
              \/ e = "RecoveryFailed"
              \/ /\ NextState(s, e) = s
                 /\ e \notin RecoveryTriggers
                 /\ ~Advances(s, e)
  BY DEF State, Event, SuccessEvents, RecoveryTriggers, Action, Advances,
         Successor, EntryAction, NextState, ActionFor

(* success_event of the four actions that have one.                         *)
LEMMA Reports ==
  /\ SuccessEvent("HoldPlatform") = "PlatformHeld"
  /\ SuccessEvent("VerifyImages") = "VerificationPassed"
  /\ SuccessEvent("ReleasePlatform") = "ReleaseComplete"
  /\ SuccessEvent("RecoverImages") = "RecoveryComplete"
  BY DEF SuccessEvent

(* Sending into a channel q: it stays a channel within its depth.           *)
LEMMA SendType ==
  ASSUME NEW q \in Seq(Event), Len(q) <= QueueDepth, NEW e \in Event, Send(q, e)
  PROVE  /\ events' \in Seq(Event)
         /\ Len(events') <= QueueDepth
         /\ pc' \in {"run", "blocked"}
  BY AppendFacts, QueueDepthAssumption DEF Send

-----------------------------------------------------------------------------
(* What Take leaves behind, shared by the arms of the main loop.            *)
LEMMA TakeType ==
  ASSUME TypeOK, NEW a, Take(a)
  PROVE  /\ MachineTypeOK'
         /\ Head(events) \in Event
         /\ Tail(events) \in Seq(Event)
         /\ Len(Tail(events)) = Len(events) - 1
         /\ Len(Tail(events)) <= QueueDepth
         /\ Len(events) \in Nat
         /\ provisioned' \in BOOLEAN
         /\ budget' \in 0..ExternalBudget
<1>1. events # <<>> /\ events \in Seq(Event)
  BY DEF Take, TypeOK
<1>2. /\ Head(events) \in Event
      /\ Tail(events) \in Seq(Event)
      /\ Len(Tail(events)) = Len(events) - 1
      /\ Len(events) \in Nat
  BY <1>1, TailFacts
<1>3. NextState(state, Head(events)) \in State
  BY <1>2, MachineCases DEF TypeOK, MachineTypeOK
<1>4. NextReason(state, recovery_reason, Head(events))
        \in RecoveryReason \cup {"None"}
  BY DEF NextReason, RecoveryReason, TypeOK, MachineTypeOK
<1>5. MachineTypeOK'
  BY <1>3, <1>4 DEF Take, StepRecord, MachineTypeOK
<1> QED
  BY <1>2, <1>5, QueueDepthAssumption DEF Take, TypeOK

(* Every variable keeps its range; the channel never exceeds its depth.     *)
LEMMA TypeStep == TypeOK /\ [Next]_vars => TypeOK'
<1> SUFFICES ASSUME TypeOK, [Next]_vars PROVE TypeOK'
  OBVIOUS
<1> USE DEF Location, ReleaseSteps, Line
<1>r. /\ SuccessEvent("HoldPlatform") \in Event
      /\ SuccessEvent("VerifyImages") \in Event
      /\ SuccessEvent("ReleasePlatform") \in Event
      /\ SuccessEvent("RecoverImages") \in Event
      /\ "VerificationFailed" \in Event
  BY Reports DEF Event, SuccessEvents, RecoveryTriggers
<1>1. CASE TakeHold
  BY <1>1, TakeType DEF TakeHold, TypeOK
<1>2. CASE TakeVerify
  BY <1>2, TakeType DEF TakeVerify, TypeOK, platformVars
<1>3. CASE TakeVerifyUnprovisioned
  <2>1. Send(Tail(events), SuccessEvent("VerifyImages"))
    BY <1>3 DEF TakeVerifyUnprovisioned
  <2> QED
    BY <1>3, <2>1, <1>r, TakeType, SendType
    DEF TakeVerifyUnprovisioned, TypeOK, platformVars
<1>4. CASE TakeRelease
  BY <1>4, TakeType DEF TakeRelease, TypeOK
<1>5. CASE TakeRecover
  <2>1. Send(Tail(events), SuccessEvent("RecoverImages"))
    BY <1>5 DEF TakeRecover
  <2> QED
    BY <1>5, <2>1, <1>r, TakeType, SendType DEF TakeRecover, TypeOK, platformVars
<1>6. CASE TakeQuiet
  BY <1>6, TakeType DEF TakeQuiet, TypeOK, platformVars
<1>7. CASE Park \/ Wake
  BY <1>7 DEF Park, Wake, TypeOK, MachineTypeOK, machineVars, platformVars
<1>8. CASE HoldDone
  BY <1>8, <1>r, SendType
  DEF HoldDone, Resume, TypeOK, MachineTypeOK, machineVars, platformVars
<1>9. CASE VerificationOk
  BY <1>9, <1>r, SendType
  DEF VerificationOk, Resume, TypeOK, MachineTypeOK, machineVars, platformVars
<1>10. CASE VerificationErr
  BY <1>10, <1>r, SendType
  DEF VerificationErr, Resume, TypeOK, MachineTypeOK, machineVars, platformVars
<1>11. CASE FlashResetDone \/ RaiseSrst \/ RaiseExtrst \/ RaiseAuxPwrgd
  BY <1>11
  DEF FlashResetDone, RaiseSrst, RaiseExtrst, RaiseAuxPwrgd, Resume, TypeOK,
      MachineTypeOK, machineVars
<1>12. CASE ReleaseDone
  BY <1>12, <1>r, SendType
  DEF ReleaseDone, Resume, TypeOK, MachineTypeOK, machineVars, platformVars
<1>13. ASSUME NEW e \in ProtocolEvents, ProtocolSend(e) PROVE TypeOK'
  <2>1. e \in Event
    BY <1>13, ProtocolEventsAreTriggers DEF Event
  <2>2. /\ events' \in Seq(Event)
        /\ Len(events') <= QueueDepth
    BY <1>13, <2>1, AppendFacts, QueueDepthAssumption DEF ProtocolSend, TypeOK
  <2>3. budget' \in 0..ExternalBudget
    BY <1>13, ExternalBudgetAssumption DEF ProtocolSend, TypeOK
  <2> QED
    BY <1>13, <2>2, <2>3
    DEF ProtocolSend, TypeOK, MachineTypeOK, machineVars, platformVars
<1>14. CASE UNCHANGED vars
  BY <1>14 DEF vars, TypeOK, MachineTypeOK
<1> QED
  BY <1>1, <1>2, <1>3, <1>4, <1>5, <1>6, <1>7, <1>8, <1>9, <1>10, <1>11, <1>12,
     <1>13, <1>14 DEF Next, MainTask

LEMMA TypeInit == Init => TypeOK
<1> SUFFICES ASSUME Init PROVE TypeOK
  OBVIOUS
<1>1. events \in Seq(Event) /\ Len(events) = 1
  BY DEF Init, Event
<1> QED
  BY <1>1, QueueDepthAssumption, ExternalBudgetAssumption
  DEF Init, MachineInit, TypeOK, MachineTypeOK, State, Location, Line

(* Type correctness, the channel bound included.                            *)
THEOREM TypeCorrect == Spec => []TypeOK
  BY TypeInit, TypeStep, PTL DEF Spec

-----------------------------------------------------------------------------
(* The channel stays sorted, and with it every release verified.            *)

Safe == TypeOK /\ ChannelInv /\ ReleaseIsVerified

(* How an arm of the main loop moves the events behind the one it takes.    *)
LEMMA TakeShift ==
  ASSUME Safe, NEW a, Take(a)
  PROVE  /\ Len(events) \in Nat \ {0}
         /\ events[1] = Head(events)
         /\ events[1] \in Event
         /\ Tail(events) \in Seq(Event)
         /\ Len(Tail(events)) = Len(events) - 1
         /\ \A i \in 1..Len(Tail(events)) :
              /\ Tail(events)[i] = events[i + 1]
              /\ i + 1 \in 1..Len(events)
              /\ events[i + 1] \in Event
              /\ Rank(state, events[1]) <= Rank(state, events[i + 1])
         /\ \A i, j \in 1..Len(Tail(events)) : i < j =>
              Rank(state, events[i + 1]) <= Rank(state, events[j + 1])
<1>1. events # <<>> /\ events \in Seq(Event)
  BY DEF Take, Safe, TypeOK
<1>2. /\ Len(events) \in Nat \ {0}
      /\ events[1] = Head(events)
      /\ events[1] \in Event
      /\ Tail(events) \in Seq(Event)
      /\ Len(Tail(events)) = Len(events) - 1
      /\ \A i \in 1..Len(events) - 1 : Tail(events)[i] = events[i + 1]
  BY <1>1, TailFacts
<1>3. \A i \in 1..Len(Tail(events)) :
        i \in Nat /\ i + 1 \in 1..Len(events) /\ 1 < i + 1
  BY <1>2
<1>4. \A i \in 1..Len(events) : events[i] \in Event
  BY <1>1
<1> QED
  BY <1>2, <1>3, <1>4 DEF Safe, ChannelInv, ChannelSorted

(* Taking the boot event: the channel is empty behind it.                   *)
LEMMA HoldStep == Safe /\ TakeHold => (ChannelInv /\ ReleaseIsVerified)'
<1> SUFFICES ASSUME Safe, TakeHold PROVE (ChannelInv /\ ReleaseIsVerified)'
  OBVIOUS
<1>1. state = "Init" /\ state' = "TMinus1"
  BY TakeShift, MachineCases
  DEF TakeHold, Take, StepRecord, Safe, TypeOK, MachineTypeOK
<1>2. events = <<"Boot">>
  BY <1>1 DEF Safe, ChannelInv, LocationInv
<1>3. events' = <<>> /\ pc' = "hold"
  BY <1>2 DEF TakeHold
<1> QED
  BY <1>1, <1>3
  DEF ChannelInv, ChannelSorted, LocationInv, ReportIsLast, ContentInv, Queued,
      BlockedIsFull, ReleaseIsVerified, Released, ReleaseSteps

(* A report at the head of the channel, where the machine waits for it, is  *)
(* all there is in the channel.                                             *)
LEMMA ReportAlone ==
  ASSUME Safe, events # <<>>, pc = "run", state \in {"TMinus1", "Verify"},
         events[1] \in Report
  PROVE  Len(events) = 1
<1>1. Len(events) \in Nat \ {0}
  BY TailFacts DEF Safe, TypeOK
<1>2. 1 \in 1..Len(events)
  BY <1>1
<1>3. \A i \in 1..Len(events) : events[i] \in Report => i = Len(events)
  BY DEF Safe, ChannelInv, ReportIsLast
<1> QED
  BY <1>2, <1>3

(* Before a verification starts only ends of recoveries are left queued.    *)
LEMMA BeforeVerification ==
  ASSUME Safe, Take("VerifyImages")
  PROVE  /\ state' = "Verify"
         /\ \A i \in 1..Len(Tail(events)) : Tail(events)[i] = "RecoveryComplete"
<1>1. /\ \/ state = "TMinus1" /\ events[1] = "PlatformHeld"
         \/ state = "Recover" /\ events[1] = "RecoveryComplete"
      /\ state' = "Verify"
      /\ pc = "run"
  BY TakeShift, MachineCases
  DEF Take, StepRecord, Safe, TypeOK, MachineTypeOK
<1>2. CASE state = "TMinus1"
  <2>1. Len(events) = 1
    BY <1>1, <1>2, ReportAlone DEF Take, Report, SuccessEvents
  <2> QED
    BY <1>1, <2>1, TakeShift
<1>3. CASE state = "Recover"
  <2> SUFFICES ASSUME NEW i \in 1..Len(Tail(events))
               PROVE  Tail(events)[i] = "RecoveryComplete"
    BY <1>1
  <2>1. /\ Rank(state, events[1]) = 2
        /\ Rank(state, events[1]) <= Rank(state, events[i + 1])
        /\ Tail(events)[i] = events[i + 1]
    BY <1>1, <1>3, TakeShift DEF Rank, RecoveryTriggers
  <2> QED
    BY <2>1, <1>3 DEF Rank
<1> QED
  BY <1>1, <1>2, <1>3

LEMMA VerifyStep ==
  Safe /\ (TakeVerify \/ TakeVerifyUnprovisioned)
    => (ChannelInv /\ ReleaseIsVerified)'
<1> SUFFICES ASSUME Safe, TakeVerify \/ TakeVerifyUnprovisioned
             PROVE  (ChannelInv /\ ReleaseIsVerified)'
  OBVIOUS
<1> DEFINE q == Tail(events)
<1>1. /\ state' = "Verify"
      /\ q \in Seq(Event)
      /\ \A i \in 1..Len(q) : q[i] = "RecoveryComplete"
  BY BeforeVerification, TakeShift DEF TakeVerify, TakeVerifyUnprovisioned
<1>2. CASE events' = q /\ pc' = "verify" /\ verdict' = "none"
  BY <1>1, <1>2
  DEF ChannelInv, ChannelSorted, LocationInv, ReportIsLast, ContentInv, Queued,
      BlockedIsFull, ReleaseIsVerified, Released, ReleaseSteps, Rank, RecoveryTriggers
<1>3. CASE /\ events' = Append(q, "VerificationPassed")
           /\ pc' = "run"
           /\ verdict' = "passed"
  <2>1. /\ Len(q) \in Nat
        /\ Len(events') = Len(q) + 1
        /\ \A i \in 1..Len(q) : events'[i] = "RecoveryComplete"
        /\ events'[Len(q) + 1] = "VerificationPassed"
    BY <1>1, <1>3, AppendFacts DEF Event, SuccessEvents
  <2>2. \A i \in 1..Len(events') :
          \/ i \in 1..Len(q) /\ events'[i] = "RecoveryComplete"
          \/ i = Len(q) + 1 /\ events'[i] = "VerificationPassed"
    BY <2>1
  <2>3. ChannelSorted'
    BY <1>1, <2>1, <2>2 DEF ChannelSorted, Rank, RecoveryTriggers
  <2> QED
    BY <1>1, <1>3, <2>1, <2>2, <2>3
    DEF ChannelInv, LocationInv, ReportIsLast, Report, ContentInv, Queued,
        BlockedIsFull, ReleaseIsVerified, Released, ReleaseSteps
<1>4. Len(q) < QueueDepth
  <2>1. Len(events) \in Nat /\ Len(q) = Len(events) - 1 /\ Len(events) <= QueueDepth
    BY TakeShift DEF TakeVerify, TakeVerifyUnprovisioned, Safe, TypeOK
  <2> QED
    BY <2>1, QueueDepthAssumption
<1> QED
  BY <1>2, <1>3, <1>4, Reports DEF TakeVerify, TakeVerifyUnprovisioned, Send

(* A release starts with nothing queued: the report that started it was last.*)
LEMMA ReleaseStep == Safe /\ TakeRelease => (ChannelInv /\ ReleaseIsVerified)'
<1> SUFFICES ASSUME Safe, TakeRelease PROVE (ChannelInv /\ ReleaseIsVerified)'
  OBVIOUS
<1>1. /\ state = "Verify"
      /\ events[1] = "VerificationPassed"
      /\ state' = "Release"
      /\ pc = "run"
  BY TakeShift, MachineCases
  DEF TakeRelease, Take, StepRecord, Safe, TypeOK, MachineTypeOK
<1>2. Len(events) = 1
  BY <1>1, ReportAlone DEF TakeRelease, Take, Report, SuccessEvents
<1>3. Len(events') = 0 /\ pc' = "flash_reset"
  BY <1>2, TakeShift DEF TakeRelease
<1>4. verdict' = "passed"
  BY <1>1, <1>2 DEF TakeRelease, Safe, ChannelInv, ContentInv
<1> QED
  BY <1>1, <1>3, <1>4
  DEF ChannelInv, ChannelSorted, LocationInv, ReportIsLast, ContentInv, Queued,
      BlockedIsFull, ReleaseIsVerified, Released, ReleaseSteps

(* A recovery puts its end behind everything queued.                        *)
LEMMA RecoverStep == Safe /\ TakeRecover => (ChannelInv /\ ReleaseIsVerified)'
<1> SUFFICES ASSUME Safe, TakeRecover PROVE (ChannelInv /\ ReleaseIsVerified)'
  OBVIOUS
<1> DEFINE q == Tail(events)
<1>1. /\ events[1] \in RecoveryTriggers
      /\ state' = "Recover"
      /\ verdict' = verdict
      /\ pc = "run"
  BY TakeShift, MachineCases
  DEF TakeRecover, Take, StepRecord, Safe, TypeOK, MachineTypeOK
<1>2. state # "Init"
  BY <1>1 DEF Safe, ChannelInv, LocationInv, RecoveryTriggers
<1>3. /\ q \in Seq(Event)
      /\ Len(q) \in Nat
      /\ Len(q) = Len(events) - 1
      /\ \A i \in 1..Len(q) : /\ q[i] = events[i + 1]
                               /\ q[i] \in Event
                               /\ i + 1 \in 1..Len(events)
      /\ \A i, j \in 1..Len(q) :
           i < j => Rank(state, q[i]) <= Rank(state, q[j])
      /\ \A i \in 1..Len(q) : Rank(state, events[1]) <= Rank(state, q[i])
  BY TakeShift DEF TakeRecover
<1>4. Len(q) < QueueDepth
  BY <1>3, QueueDepthAssumption DEF Safe, TypeOK
<1>5. events' = Append(q, "RecoveryComplete") /\ pc' = "run"
  BY <1>4, Reports DEF TakeRecover, Send
<1>6. /\ Len(events') = Len(q) + 1
      /\ \A i \in 1..Len(q) : events'[i] = q[i]
      /\ events'[Len(q) + 1] = "RecoveryComplete"
  BY <1>3, <1>5, AppendFacts DEF Event, SuccessEvents
<1>7. \A i \in 1..Len(events') :
        \/ i \in 1..Len(q) /\ events'[i] = q[i]
        \/ i = Len(q) + 1 /\ events'[i] = "RecoveryComplete"
  <2>1. Len(q) \in Nat
    BY <1>3
  <2>2. \A i \in 1..Len(events') : i \in 1..Len(q) \/ i = Len(q) + 1
    BY <2>1, <1>6
  <2> QED
    BY <2>2, <1>6
<1>8. \A i, j \in 1..Len(q) : i < j => Rank("Recover", q[i]) <= Rank("Recover", q[j])
  <2>1. CASE state = "Verify"
    <3>1. \A i \in 1..Len(q) : q[i] # "RecoveryComplete"
      BY <1>1, <1>3, <2>1 DEF Rank, RecoveryTriggers
    <3> QED
      BY <1>3, <2>1, <3>1 DEF Rank
  <2>2. CASE state # "Verify"
    BY <1>3, <2>2 DEF Rank
  <2> QED
    BY <2>1, <2>2
<1>9. \A i \in 1..Len(q) : Rank("Recover", q[i]) <= 2
  BY DEF Rank
<1>10. ChannelSorted'
  BY <1>1, <1>3, <1>6, <1>7, <1>8, <1>9 DEF ChannelSorted, Rank, RecoveryTriggers
<1>11. ContentInv'
  BY <1>1, <1>2, <1>3, <1>7 DEF ContentInv, Safe, ChannelInv
<1> QED
  BY <1>1, <1>5, <1>10, <1>11
  DEF ChannelInv, LocationInv, ReportIsLast, BlockedIsFull, ReleaseIsVerified,
      Released, ReleaseSteps

(* An event that only logs, or that the machine ignores.                    *)
LEMMA QuietStep == Safe /\ TakeQuiet => (ChannelInv /\ ReleaseIsVerified)'
<1> SUFFICES ASSUME Safe, TakeQuiet PROVE (ChannelInv /\ ReleaseIsVerified)'
  OBVIOUS
<1> DEFINE q == Tail(events)
<1>1. PICK a \in {"None", "StartMonitoring", "Lockdown"} : Take(a)
  BY DEF TakeQuiet
<1>2. /\ pc = "run"
      /\ events[1] \in Event
      /\ ActionFor(state, events[1]) = a
      /\ state' = NextState(state, events[1])
      /\ state \in State
  BY <1>1, TakeShift DEF Take, StepRecord, Safe, TypeOK, MachineTypeOK
<1>3. events[1] # "RecoveryFailed"
  BY <1>1, TakeShift DEF Safe, ChannelInv, ContentInv
<1>4. \/ state = "Release" /\ state' = "Monitor"
      \/ state' = state /\ events[1] \notin RecoveryTriggers /\ ~Advances(state, events[1])
  BY <1>1, <1>2, <1>3, MachineCases
<1>5. state # "Init"
  BY <1>2, <1>4 DEF Safe, ChannelInv, LocationInv, Advances
<1>6. state' # "Init"
  BY <1>4, <1>5
<1>7. /\ Len(q) \in Nat
      /\ Len(q) = Len(events) - 1
      /\ \A i \in 1..Len(q) : /\ q[i] = events[i + 1]
                               /\ i + 1 \in 1..Len(events)
      /\ \A i, j \in 1..Len(q) :
           i < j => Rank(state, q[i]) <= Rank(state, q[j])
  <2>1. /\ Len(events) \in Nat \ {0}
        /\ Len(q) = Len(events) - 1
        /\ \A i \in 1..Len(q) : q[i] = events[i + 1] /\ i + 1 \in 1..Len(events)
        /\ \A i, j \in 1..Len(q) :
             i < j => Rank(state, events[i + 1]) <= Rank(state, events[j + 1])
    BY <1>1, TakeShift
  <2> QED
    BY <2>1
<1>8. events' = q /\ pc' = "run" /\ verdict' = verdict
  BY <1>2 DEF TakeQuiet
<1>9. ChannelSorted'
  BY <1>4, <1>7, <1>8 DEF ChannelSorted, Rank
<1>10. LocationInv'
  BY <1>6, <1>8 DEF LocationInv, ReleaseSteps
<1>11. ReportIsLast'
  <2> SUFFICES ASSUME state' \in {"TMinus1", "Verify", "Release"},
                      NEW i \in 1..Len(q), q[i] \in Report
               PROVE  i = Len(q)
    BY <1>8 DEF ReportIsLast
  <2>1. state = state'
    BY <1>4
  <2> QED
    BY <2>1, <1>2, <1>7 DEF Safe, ChannelInv, ReportIsLast
<1>12. ContentInv'
  BY <1>4, <1>5, <1>7, <1>8 DEF ContentInv, Queued, Safe, ChannelInv
<1>13. ReleaseIsVerified'
  BY <1>4, <1>8 DEF ReleaseIsVerified, Released, ReleaseSteps, Safe
<1> QED
  BY <1>8, <1>9, <1>10, <1>11, <1>12, <1>13 DEF ChannelInv, BlockedIsFull

(* An event that belongs behind every event queued keeps the channel sorted. *)
LEMMA AppendSorted ==
  ASSUME Safe, NEW e \in Event, events' = Append(events, e), state' = state,
         \A i \in 1..Len(events) : Rank(state, events[i]) <= Rank(state, e)
  PROVE  /\ ChannelSorted'
         /\ Len(events') = Len(events) + 1
         /\ \A i \in 1..Len(events') :
              \/ i \in 1..Len(events) /\ events'[i] = events[i]
              \/ i = Len(events') /\ events'[i] = e
<1>1. /\ Len(events) \in Nat
      /\ Len(events') = Len(events) + 1
      /\ \A i \in 1..Len(events) : events'[i] = events[i]
      /\ events'[Len(events) + 1] = e
  BY AppendFacts DEF Safe, TypeOK
<1>2. \A i \in 1..Len(events') : i \in 1..Len(events) \/ i = Len(events) + 1
  BY <1>1
<1>3. \A i \in 1..Len(events') :
        \/ i \in 1..Len(events) /\ events'[i] = events[i]
        \/ i = Len(events') /\ events'[i] = e
  BY <1>1, <1>2
<1>4. \A i, j \in 1..Len(events) :
        i < j => Rank(state, events[i]) <= Rank(state, events[j])
  BY DEF Safe, ChannelInv, ChannelSorted
<1>5. Rank(state, e) \in Nat
  BY DEF Rank
<1>6. ChannelSorted'
  BY <1>1, <1>3, <1>4, <1>5 DEF ChannelSorted
<1> QED
  BY <1>1, <1>3, <1>6

(* The three awaits after which the main task reports its action done.      *)
LEMMA ReportStep ==
  ASSUME Safe, NEW e \in Event, Send(events, e), UNCHANGED machineVars,
         \/ pc = "hold" /\ e = "PlatformHeld" /\ verdict' = verdict
         \/ pc = "verify" /\ e = "VerificationPassed" /\ verdict' = "passed"
         \/ pc = "verify" /\ e = "VerificationFailed" /\ verdict' = "failed"
         \/ pc = "aux_settle" /\ e = "ReleaseComplete" /\ verdict' = verdict
  PROVE  (ChannelInv /\ ReleaseIsVerified)'
<1>1. /\ state' = state
      /\ pc = "hold" => state = "TMinus1" /\ Queued(RecoveryTriggers)
      /\ pc = "verify" =>
           state = "Verify" /\ Queued(RecoveryTriggers \cup {"RecoveryComplete"})
      /\ pc = "aux_settle" => state = "Release" /\ Queued(RecoveryTriggers)
  BY DEF machineVars, Safe, ChannelInv, LocationInv, ReleaseSteps
<1>2. state = "Release" => verdict = "passed"
  BY DEF Safe, ReleaseIsVerified, Released
<1>3. CASE events' = Append(events, e) /\ pc' = "run"
  <2>1. \A i \in 1..Len(events) : Rank(state, events[i]) <= Rank(state, e)
    BY <1>1 DEF Rank, Queued, RecoveryTriggers
  <2>2. /\ ChannelSorted'
        /\ \A i \in 1..Len(events') :
             \/ i \in 1..Len(events) /\ events'[i] = events[i]
             \/ i = Len(events') /\ events'[i] = e
    BY <1>1, <1>3, <2>1, AppendSorted
  <2>3. LocationInv'
    BY <1>1, <1>3 DEF LocationInv, ReleaseSteps
  <2>4. ReportIsLast'
    BY <1>1, <2>2
    DEF ReportIsLast, Report, SuccessEvents, Queued, RecoveryTriggers
  <2>5. ContentInv'
    BY <1>1, <2>2
    DEF ContentInv, Queued, RecoveryTriggers
  <2>6. ReleaseIsVerified'
    BY <1>1, <1>2, <1>3 DEF ReleaseIsVerified, Released, ReleaseSteps
  <2> QED
    BY <1>3, <2>2, <2>3, <2>4, <2>5, <2>6 DEF ChannelInv, BlockedIsFull
<1>4. CASE events' = events /\ pc' = "blocked" /\ ~(Len(events) < QueueDepth)
  <2>1. ChannelSorted'
    BY <1>1, <1>4 DEF ChannelSorted, Safe, ChannelInv
  <2>2. LocationInv' /\ ReportIsLast'
    BY <1>1, <1>4 DEF LocationInv, ReportIsLast, ReleaseSteps
  <2>3. ContentInv'
    BY <1>1, <1>4 DEF ContentInv, Queued, RecoveryTriggers
  <2>4. ReleaseIsVerified'
    BY <1>1, <1>2, <1>4 DEF ReleaseIsVerified, Released, ReleaseSteps
  <2>5. BlockedIsFull'
    BY <1>4, QueueDepthAssumption DEF BlockedIsFull, Safe, TypeOK
  <2> QED
    BY <2>1, <2>2, <2>3, <2>4, <2>5 DEF ChannelInv
<1> QED
  BY <1>3, <1>4 DEF Send

(* Steps of the release sequence, and parking: the channel is left alone.   *)
LEMMA QuietAwaitStep ==
  Safe /\ (FlashResetDone \/ RaiseSrst \/ RaiseExtrst \/ RaiseAuxPwrgd
             \/ Park \/ Wake \/ UNCHANGED vars)
    => (ChannelInv /\ ReleaseIsVerified)'
<1> SUFFICES ASSUME Safe,
                    FlashResetDone \/ RaiseSrst \/ RaiseExtrst \/ RaiseAuxPwrgd
                      \/ Park \/ Wake \/ UNCHANGED vars
             PROVE  (ChannelInv /\ ReleaseIsVerified)'
  OBVIOUS
<1>1. UNCHANGED <<state, events, verdict>>
  BY DEF FlashResetDone, RaiseSrst, RaiseExtrst, RaiseAuxPwrgd, Park, Wake,
         Resume, machineVars, vars
<1>2. \/ pc \in ReleaseSteps /\ pc' \in ReleaseSteps
      \/ pc = "run" /\ pc' = "receive" /\ events = <<>>
      \/ pc = "receive" /\ pc' = "run" /\ events # <<>>
      \/ pc' = pc
  BY DEF FlashResetDone, RaiseSrst, RaiseExtrst, RaiseAuxPwrgd, Park, Wake,
         Resume, ReleaseSteps, vars
<1>3. ChannelSorted' /\ ContentInv'
  BY <1>1 DEF Safe, ChannelInv, ChannelSorted, ContentInv, Queued
<1>4. LocationInv'
  BY <1>1, <1>2 DEF Safe, ChannelInv, LocationInv, Queued, ReleaseSteps
<1>5. ReportIsLast'
  <2>1. CASE pc = "receive" /\ pc' = "run"
    BY <1>1, <2>1
    DEF Safe, ChannelInv, LocationInv, ReportIsLast, Queued, Report,
        SuccessEvents, RecoveryTriggers
  <2> QED
    BY <1>1, <1>2, <2>1 DEF Safe, ChannelInv, ReportIsLast, ReleaseSteps
<1>6. ReleaseIsVerified'
  BY <1>1, <1>2 DEF Safe, ReleaseIsVerified, Released, ReleaseSteps
<1>7. BlockedIsFull'
  BY <1>1, <1>2 DEF Safe, ChannelInv, BlockedIsFull, ReleaseSteps
<1> QED
  BY <1>3, <1>4, <1>5, <1>6, <1>7 DEF ChannelInv

(* A trigger arrives only while the main task waits, and then only events   *)
(* that belong in front of it are queued.                                   *)
LEMMA TriggerStep ==
  ASSUME Safe, NEW e \in ProtocolEvents, ProtocolSend(e)
  PROVE  (ChannelInv /\ ReleaseIsVerified)'
<1>1. /\ e \in RecoveryTriggers
      /\ e \in Event
      /\ pc # "run"
      /\ Len(events) < QueueDepth
      /\ events' = Append(events, e)
      /\ UNCHANGED <<state, pc, verdict>>
  BY ProtocolEventsAreTriggers
  DEF ProtocolSend, Waiting, machineVars, Event
<1>2. CASE pc = "blocked"
  BY <1>1, <1>2 DEF Safe, TypeOK, ChannelInv, BlockedIsFull
<1>3. CASE pc # "blocked"
  <2>1. /\ state # "Init"
        /\ pc = "verify" =>
             state = "Verify" /\ Queued(RecoveryTriggers \cup {"RecoveryComplete"})
        /\ pc # "verify" => Queued(RecoveryTriggers)
    BY <1>1, <1>3 DEF Safe, TypeOK, Location, ChannelInv, LocationInv
  <2>2. \A i \in 1..Len(events) : Rank(state, events[i]) <= Rank(state, e)
    BY <1>1, <2>1 DEF Rank, Queued, RecoveryTriggers
  <2>3. /\ ChannelSorted'
        /\ \A i \in 1..Len(events') :
             \/ i \in 1..Len(events) /\ events'[i] = events[i]
             \/ i = Len(events') /\ events'[i] = e
    BY <1>1, <2>2, AppendSorted
  <2>4. LocationInv'
    BY <1>1, <1>3, <2>1, <2>3
    DEF Safe, ChannelInv, LocationInv, Queued, ReleaseSteps
  <2>5. ReportIsLast' /\ BlockedIsFull'
    BY <1>1, <1>3 DEF ReportIsLast, BlockedIsFull
  <2>6. ContentInv'
    BY <1>1, <2>1, <2>3
    DEF Safe, ChannelInv, ContentInv, Queued, RecoveryTriggers
  <2>7. ReleaseIsVerified'
    BY <1>1 DEF Safe, ReleaseIsVerified, Released
  <2> QED
    BY <2>3, <2>4, <2>5, <2>6, <2>7 DEF ChannelInv
<1> QED
  BY <1>2, <1>3

-----------------------------------------------------------------------------
(* The inductive step, one case per action.                                 *)
LEMMA SafeStep == Safe /\ [Next]_vars => Safe'
<1> SUFFICES ASSUME Safe, [Next]_vars PROVE Safe'
  OBVIOUS
<1>1. TypeOK'
  BY TypeStep DEF Safe
<1>r. /\ SuccessEvent("HoldPlatform") = "PlatformHeld"
      /\ SuccessEvent("VerifyImages") = "VerificationPassed"
      /\ SuccessEvent("ReleasePlatform") = "ReleaseComplete"
      /\ {"PlatformHeld", "VerificationPassed", "ReleaseComplete",
          "VerificationFailed"} \subseteq Event
  BY Reports DEF Event, SuccessEvents, RecoveryTriggers
<1>2. CASE HoldDone
  BY <1>1, <1>2, <1>r, ReportStep DEF HoldDone, Resume, Safe
<1>3. CASE VerificationOk
  BY <1>1, <1>3, <1>r, ReportStep DEF VerificationOk, Resume, Safe
<1>4. CASE VerificationErr
  BY <1>1, <1>4, <1>r, ReportStep DEF VerificationErr, Resume, Safe
<1>5. CASE ReleaseDone
  BY <1>1, <1>5, <1>r, ReportStep DEF ReleaseDone, Resume, Safe
<1>6. CASE \E e \in ProtocolEvents : ProtocolSend(e)
  BY <1>1, <1>6, TriggerStep DEF Safe
<1>7. CASE \/ TakeHold \/ TakeVerify \/ TakeVerifyUnprovisioned \/ TakeRelease
           \/ TakeRecover \/ TakeQuiet
  BY <1>1, <1>7, HoldStep, VerifyStep, ReleaseStep, RecoverStep, QuietStep DEF Safe
<1>8. CASE \/ FlashResetDone \/ RaiseSrst \/ RaiseExtrst \/ RaiseAuxPwrgd
           \/ Park \/ Wake \/ UNCHANGED vars
  BY <1>1, <1>8, QuietAwaitStep DEF Safe
<1> QED
  BY <1>2, <1>3, <1>4, <1>5, <1>6, <1>7, <1>8 DEF Next, MainTask

LEMMA SafeInit == Init => Safe
<1> SUFFICES ASSUME Init PROVE Safe
  OBVIOUS
<1>1. TypeOK
  BY TypeInit
<1>2. Len(events) = 1 /\ events[1] = "Boot" /\ state = "Init" /\ pc = "run"
  BY DEF Init, MachineInit
<1> QED
  BY <1>1, <1>2
  DEF Safe, ChannelInv, ChannelSorted, LocationInv, ReportIsLast, ContentInv,
      BlockedIsFull, Queued, ReleaseIsVerified, Released, ReleaseSteps, Init

(* The channel is sorted, whatever protocol tasks send and when.            *)
THEOREM ChannelStaysSorted == Spec => []ChannelInv
<1>1. Spec => []Safe
  BY SafeInit, SafeStep, PTL DEF Spec
<1>2. Safe => ChannelInv
  BY DEF Safe
<1> QED
  BY <1>1, <1>2, PTL

(* No firmware is released on the word of a verification that is not the    *)
(* latest one, for every channel depth and any number of triggers.          *)
THEOREM ReleasesAreVerified == Spec => []ReleaseIsVerified
<1>1. Spec => []Safe
  BY SafeInit, SafeStep, PTL DEF Spec
<1>2. Safe => ReleaseIsVerified
  BY DEF Safe
<1> QED
  BY <1>1, <1>2, PTL

-----------------------------------------------------------------------------
(* Work never multiplies, so few triggers cannot fill the channel.          *)

LEMMA WorkStep == TypeOK /\ WorkIsBounded /\ [Next]_vars => WorkIsBounded'
<1> SUFFICES ASSUME TypeOK, WorkIsBounded, [Next]_vars PROVE WorkIsBounded'
  OBVIOUS
<1> USE DEF WorkIsBounded, Busy
<1>1. /\ Len(events) \in Nat
      /\ budget \in Nat
      /\ ExternalBudget \in Nat
      /\ events \in Seq(Event)
  BY ExternalBudgetAssumption DEF TypeOK
<1>2. ASSUME NEW a, Take(a)
      PROVE  /\ Tail(events) \in Seq(Event)
             /\ Len(Tail(events)) = Len(events) - 1
             /\ pc = "run"
             /\ budget' = budget
  BY <1>2, TakeType DEF Take
<1>3. ASSUME NEW q \in Seq(Event), NEW e, Send(q, e)
      PROVE  /\ Len(q) \in Nat
             /\ \/ pc' = "run" /\ Len(events') = Len(q) + 1
                \/ pc' = "blocked" /\ Len(events') = Len(q)
  BY <1>3 DEF Send
<1>4. CASE TakeHold \/ TakeVerify \/ TakeRelease \/ TakeQuiet
  <2>1. /\ Len(events') = Len(events) - 1
        /\ pc = "run"
        /\ budget' = budget
    BY <1>2, <1>4 DEF TakeHold, TakeVerify, TakeRelease, TakeQuiet
  <2> QED
    BY <1>1, <2>1
<1>5. CASE TakeVerifyUnprovisioned \/ TakeRecover
  <2>1. PICK a, e : Take(a) /\ Send(Tail(events), e)
    BY <1>5 DEF TakeVerifyUnprovisioned, TakeRecover
  <2>2. /\ Tail(events) \in Seq(Event)
        /\ Len(Tail(events)) = Len(events) - 1
        /\ pc = "run"
        /\ budget' = budget
    BY <1>2, <2>1
  <2>3. \/ pc' = "run" /\ Len(events') = Len(Tail(events)) + 1
        \/ pc' = "blocked" /\ Len(events') = Len(Tail(events))
    BY <1>3, <2>1, <2>2
  <2>4. \/ pc' = "run" /\ Len(events') = Len(events)
        \/ pc' = "blocked" /\ Len(events') = Len(events) - 1
    <3>1. Len(events) \in Nat /\ Len(Tail(events)) = Len(events) - 1
      BY <1>1, <2>2
    <3>2. Len(Tail(events)) + 1 = Len(events)
      BY <3>1
    <3> QED
      BY <2>3, <3>1, <3>2
  <2>5. pc = "run" /\ budget' = budget
    BY <2>2
  <2> QED
    BY <1>1, <2>4, <2>5 DEF ReleaseSteps
<1>6. CASE HoldDone \/ VerificationOk \/ VerificationErr \/ ReleaseDone
  BY <1>1, <1>3, <1>6
  DEF HoldDone, VerificationOk, VerificationErr, ReleaseDone, Resume, ReleaseSteps
<1>7. CASE \/ FlashResetDone \/ RaiseSrst \/ RaiseExtrst \/ RaiseAuxPwrgd
           \/ Park \/ Wake \/ UNCHANGED vars
  BY <1>1, <1>7
  DEF FlashResetDone, RaiseSrst, RaiseExtrst, RaiseAuxPwrgd, Park, Wake, Resume,
      ReleaseSteps, vars
<1>8. ASSUME NEW e \in ProtocolEvents, ProtocolSend(e) PROVE WorkIsBounded'
  <2>1. Len(events') = Len(events) + 1 /\ budget' = budget - 1 /\ pc' = pc
    BY <1>1, <1>8 DEF ProtocolSend
  <2> QED
    BY <1>1, <2>1
<1> QED
  BY <1>4, <1>5, <1>6, <1>7, <1>8 DEF Next, MainTask

(* Events never multiply, for every depth and every number of triggers.     *)
THEOREM WorkStaysBounded == Spec => []WorkIsBounded
<1>1. Init => WorkIsBounded
  BY ExternalBudgetAssumption DEF Init, WorkIsBounded, Busy, ReleaseSteps
<1> QED
  BY <1>1, TypeInit, TypeStep, WorkStep, PTL DEF Spec

(* The main task never waits for room in the channel it alone empties, as   *)
(* long as the protocol tasks send fewer events than the channel has slots. *)
THEOREM MainTaskIsNeverBlocked == Spec => []NeverBlocked
<1>1. Safe /\ WorkIsBounded => NeverBlocked
  <2> SUFFICES ASSUME Safe, WorkIsBounded, ExternalBudget < QueueDepth,
                      pc = "blocked"
               PROVE  FALSE
    BY DEF NeverBlocked
  <2>1. Len(events) = QueueDepth
    BY DEF Safe, ChannelInv, BlockedIsFull
  <2>2. Len(events) + 1 <= 1 + (ExternalBudget - budget)
    BY DEF WorkIsBounded, Busy
  <2>3. budget \in Nat
    BY DEF Safe, TypeOK
  <2> QED
    BY <2>1, <2>2, <2>3, QueueDepthAssumption, ExternalBudgetAssumption
<1>2. Spec => []Safe
  BY SafeInit, SafeStep, PTL DEF Spec
<1> QED
  BY <1>1, <1>2, WorkStaysBounded, PTL

-----------------------------------------------------------------------------
(* The machine records why it recovers exactly while it recovers.           *)
THEOREM ReasonMatches == Spec => []ReasonMatchesState
<1>1. Init => ReasonMatchesState
  BY DEF Init, MachineInit, ReasonMatchesState
<1>2. Safe /\ ReasonMatchesState /\ [Next]_vars => ReasonMatchesState'
  <2> SUFFICES ASSUME Safe, ReasonMatchesState, [Next]_vars
               PROVE  ReasonMatchesState'
    OBVIOUS
  <2>1. ASSUME NEW a, Take(a) PROVE ReasonMatchesState'
    <3>1. /\ Head(events) \in Event
          /\ state' = NextState(state, Head(events))
          /\ recovery_reason' = NextReason(state, recovery_reason, Head(events))
      BY <2>1, TakeType DEF Take, StepRecord, Safe
    <3> QED
      BY <3>1
      DEF NextState, NextReason, Successor, Advances, Event, SuccessEvents,
          RecoveryTriggers, ReasonMatchesState, Safe, TypeOK, MachineTypeOK, State
  <2>2. CASE UNCHANGED machineVars
    BY <2>2 DEF machineVars, ReasonMatchesState
  <2> QED
    BY <2>1, <2>2
    DEF Next, MainTask, TakeHold, TakeVerify, TakeVerifyUnprovisioned,
        TakeRelease, TakeRecover, TakeQuiet, Park, Wake, HoldDone, VerificationOk,
        VerificationErr, FlashResetDone, RaiseSrst, RaiseExtrst, RaiseAuxPwrgd,
        ReleaseDone, Resume, ProtocolSend, vars, machineVars
<1>3. Spec => []Safe
  BY SafeInit, SafeStep, PTL DEF Spec
<1> QED
  BY <1>1, <1>2, <1>3, PTL DEF Spec

-----------------------------------------------------------------------------
(* The main task implements the lifecycle.                                  *)
LEMMA LifecycleStep ==
  Safe /\ [Next]_vars => [Lifecycle!LNext]_(Lifecycle!lifecycleVars)
<1> SUFFICES ASSUME Safe, [Next]_vars
             PROVE  \/ Lifecycle!LNext
                    \/ UNCHANGED <<state, verdict>>
  BY DEF Lifecycle!lifecycleVars
<1> USE DEF PhaseOf
<1>1. state \in State
  BY DEF Safe, TypeOK, MachineTypeOK
<1>2. CASE TakeHold
  <2>1. state = "Init" /\ state' = "TMinus1" /\ verdict' = verdict
    BY <1>1, <1>2, TakeShift, MachineCases DEF TakeHold, Take, StepRecord
  <2> QED
    BY <2>1 DEF Lifecycle!LNext, Lifecycle!Hold
<1>3. CASE TakeVerify \/ TakeVerifyUnprovisioned
  <2>1. state \in {"TMinus1", "Recover"} /\ state' = "Verify"
    BY <1>1, <1>3, TakeShift, MachineCases
    DEF TakeVerify, TakeVerifyUnprovisioned, Take, StepRecord
  <2> QED
    BY <1>3, <2>1
    DEF TakeVerify, TakeVerifyUnprovisioned, Lifecycle!LNext,
        Lifecycle!StartVerification, Lifecycle!WaiveVerification
<1>4. CASE TakeRelease
  <2>1. /\ state = "Verify"
        /\ state' = "Release"
        /\ Len(events) \in Nat \ {0}
        /\ events[1] = "VerificationPassed"
        /\ verdict' = verdict
    BY <1>1, <1>4, TakeShift, MachineCases DEF TakeRelease, Take, StepRecord
  <2>2. verdict = "passed"
    BY <2>1 DEF Safe, ChannelInv, ContentInv
  <2> QED
    BY <2>1, <2>2 DEF Lifecycle!LNext, Lifecycle!BeginRelease
<1>5. CASE TakeRecover
  <2>1. /\ state' = "Recover"
        /\ events[1] \in RecoveryTriggers
        /\ verdict' = verdict
    BY <1>1, <1>5, TakeShift, MachineCases DEF TakeRecover, Take, StepRecord
  <2>2. state \notin {"Init", "Lockdown"}
    BY <2>1 DEF Safe, ChannelInv, LocationInv, ContentInv, RecoveryTriggers
  <2> QED
    BY <1>1, <2>1, <2>2
    DEF State, Lifecycle!LNext, Lifecycle!Recover, Lifecycle!Phase
<1>6. CASE TakeQuiet
  <2>1. PICK a \in {"None", "StartMonitoring", "Lockdown"} : Take(a)
    BY <1>6 DEF TakeQuiet
  <2>2. /\ events[1] \in Event
        /\ events[1] # "RecoveryFailed"
        /\ ActionFor(state, events[1]) = a
        /\ state' = NextState(state, events[1])
        /\ verdict' = verdict
    BY <1>6, <2>1, TakeShift
    DEF TakeQuiet, Take, StepRecord, Safe, ChannelInv, ContentInv
  <2>3. (state = "Release" /\ state' = "Monitor") \/ state' = state
    BY <1>1, <2>2, MachineCases
  <2> QED
    BY <2>2, <2>3 DEF Lifecycle!LNext, Lifecycle!FinishRelease
<1>7. CASE VerificationOk \/ VerificationErr
  <2>1. state' = state /\ state = "Verify" /\ verdict' \in {"passed", "failed"}
    BY <1>7
    DEF VerificationOk, VerificationErr, Resume, machineVars, Safe, ChannelInv,
        LocationInv
  <2>2. verdict = "none"
    BY <1>7 DEF VerificationOk, VerificationErr, Resume, Safe, ChannelInv,
                LocationInv
  <2> QED
    BY <2>1, <2>2 DEF Lifecycle!LNext, Lifecycle!FinishVerification
<1>8. CASE \/ Park \/ Wake \/ HoldDone \/ FlashResetDone \/ RaiseSrst
           \/ RaiseExtrst \/ RaiseAuxPwrgd \/ ReleaseDone
           \/ \E e \in ProtocolEvents : ProtocolSend(e)
           \/ UNCHANGED vars
  BY <1>8
  DEF Park, Wake, HoldDone, FlashResetDone, RaiseSrst, RaiseExtrst,
      RaiseAuxPwrgd, ReleaseDone, ProtocolSend, Resume, machineVars, vars
<1> QED
  BY <1>2, <1>3, <1>4, <1>5, <1>6, <1>7, <1>8 DEF Next, MainTask

(* Refinement: for every depth and any traffic, the main task of            *)
(* rot_ast1060.rs is an implementation of the platform lifecycle.           *)
THEOREM Refinement == Spec => ImplementsLifecycle
<1>1. Init => Lifecycle!LInit
  BY DEF Init, MachineInit, Lifecycle!LInit, PhaseOf
<1>2. Spec => []Safe
  BY SafeInit, SafeStep, PTL DEF Spec
<1> QED
  BY <1>1, <1>2, LifecycleStep, PTL
  DEF Spec, ImplementsLifecycle, Lifecycle!LSpec

-----------------------------------------------------------------------------
(* The lines and the flash come up in order.                                *)

\* What the release in force has programmed.
Programmed == IF provisioned THEN "manifest" ELSE "bypass"

\* How far the platform is at each step of a release; the SRST is only ever
\* taken back by the boot event, before the first release.
PlatformInv ==
  /\ LinesInOrder
  /\ state = "Init" => first_release
  /\ ~first_release => "srst" \in lines
  /\ pc \in ReleaseSteps => filter = Programmed
  /\ pc \in ReleaseSteps \ {"flash_reset"} => mux = "target"
  /\ pc \in {"srst_settle", "extrst_settle", "aux_settle"} => ~first_release
  /\ pc \in {"extrst_settle", "aux_settle"} => "extrst" \in lines

\* The main task does not come back to where it has not booted.
LEMMA InitIsLeft ==
  ASSUME Safe, [Next]_vars, state' = "Init"
  PROVE  state = "Init" /\ ~TakeHold
<1>1. ASSUME NEW a, Take(a) PROVE state = "Init" /\ a # "HoldPlatform"
  <2>1. /\ Head(events) \in Event /\ state \in State
        /\ state' = NextState(state, Head(events))
        /\ a = ActionFor(state, Head(events))
    BY <1>1, TakeType DEF Take, StepRecord, Safe, TypeOK, MachineTypeOK
  <2> QED
    BY <2>1 DEF NextState, ActionFor, Successor, EntryAction, Advances, State
<1>2. UNCHANGED machineVars => state = "Init"
  BY DEF machineVars
<1> QED
  BY <1>1, <1>2
  DEF Next, MainTask, TakeHold, TakeVerify, TakeVerifyUnprovisioned,
      TakeRelease, TakeRecover, TakeQuiet, Park, Wake, HoldDone, VerificationOk,
      VerificationErr, FlashResetDone, RaiseSrst, RaiseExtrst, RaiseAuxPwrgd,
      ReleaseDone, Resume, ProtocolSend, vars, machineVars

LEMMA PlatformStep == Safe /\ PlatformInv /\ [Next]_vars => PlatformInv'
<1> SUFFICES ASSUME Safe, PlatformInv, [Next]_vars PROVE PlatformInv'
  OBVIOUS
<1> USE DEF ReleaseSteps, Programmed
<1>1. ASSUME UNCHANGED <<platformVars, provisioned>>,
             pc' = pc \/ pc' \notin ReleaseSteps
      PROVE  PlatformInv'
  BY <1>1, InitIsLeft DEF PlatformInv, LinesInOrder, platformVars
<1>2. CASE TakeHold
  <2>1. state = "Init"
    BY <1>2, TakeShift, MachineCases
    DEF TakeHold, Take, Safe, TypeOK, MachineTypeOK
  <2> QED
    BY <1>2, <2>1 DEF TakeHold, Take, PlatformInv, LinesInOrder
<1>3. CASE TakeRelease
  BY <1>3, InitIsLeft DEF TakeRelease, Take, PlatformInv, LinesInOrder
<1>4. CASE FlashResetDone \/ RaiseSrst \/ RaiseExtrst \/ RaiseAuxPwrgd
  <2>1. state' = state /\ state = "Release"
    BY <1>4
    DEF FlashResetDone, RaiseSrst, RaiseExtrst, RaiseAuxPwrgd, Resume,
        machineVars, Safe, ChannelInv, LocationInv
  <2>2. CASE FlashResetDone
    BY <2>1, <2>2 DEF FlashResetDone, Resume, PlatformInv, LinesInOrder
  <2>3. CASE RaiseSrst
    BY <2>1, <2>3 DEF RaiseSrst, Resume, PlatformInv, LinesInOrder
  <2>4. CASE RaiseExtrst
    BY <2>1, <2>4 DEF RaiseExtrst, Resume, PlatformInv, LinesInOrder
  <2>5. CASE RaiseAuxPwrgd
    BY <2>1, <2>5 DEF RaiseAuxPwrgd, Resume, PlatformInv, LinesInOrder
  <2> QED
    BY <1>4, <2>2, <2>3, <2>4, <2>5
<1>5. CASE \/ TakeVerify \/ TakeVerifyUnprovisioned \/ TakeRecover \/ TakeQuiet
           \/ Park \/ Wake \/ HoldDone \/ VerificationOk \/ VerificationErr
           \/ ReleaseDone \/ \E e \in ProtocolEvents : ProtocolSend(e)
           \/ UNCHANGED vars
  BY <1>1, <1>5
  DEF TakeVerify, TakeVerifyUnprovisioned, TakeRecover, TakeQuiet, Take, Park,
      Wake, HoldDone, VerificationOk, VerificationErr, ReleaseDone, Resume, Send,
      ProtocolSend, vars, platformVars
<1> QED
  BY <1>2, <1>3, <1>4, <1>5 DEF Next, MainTask

LEMMA PlatformInit == Init => PlatformInv
  BY DEF Init, PlatformInv, LinesInOrder, ReleaseSteps

(* Reset and power come up in order, on the first release and on every      *)
(* later one, for every channel depth and any traffic.                      *)
THEOREM LinesComeUpInOrder == Spec => []LinesInOrder
<1>1. Spec => []Safe
  BY SafeInit, SafeStep, PTL DEF Spec
<1>2. PlatformInv => LinesInOrder
  BY DEF PlatformInv
<1> QED
  BY <1>1, <1>2, PlatformInit, PlatformStep, PTL DEF Spec

(* The flash is handed to the target behind the right filter only, on the   *)
(* word of the latest verification.                                         *)
THEOREM HandoversAreFiltered == Spec => HandoverIsFiltered
<1>1. Spec => []Safe
  BY SafeInit, SafeStep, PTL DEF Spec
<1>2. Safe /\ PlatformInv /\ [Next]_vars =>
        (mux = "rot" /\ mux' = "target" => verdict = "passed" /\ filter = Programmed)
  <2> SUFFICES ASSUME Safe, PlatformInv, [Next]_vars, mux = "rot", mux' = "target"
               PROVE  verdict = "passed" /\ filter = Programmed
    OBVIOUS
  <2>1. FlashResetDone
    BY DEF Next, MainTask, TakeHold, TakeVerify, TakeVerifyUnprovisioned,
           TakeRelease, TakeRecover, TakeQuiet, Park, Wake, HoldDone,
           VerificationOk, VerificationErr, RaiseSrst, RaiseExtrst,
           RaiseAuxPwrgd, ReleaseDone, ProtocolSend, vars, platformVars
  <2> QED
    BY <2>1
    DEF FlashResetDone, Resume, Safe, ReleaseIsVerified, Released, ReleaseSteps,
        PlatformInv
<1>3. Spec => []PlatformInv
  BY <1>1, PlatformInit, PlatformStep, PTL DEF Spec
<1>4. Safe /\ PlatformInv /\ [Next]_vars =>
        [mux = "rot" /\ mux' = "target" =>
           /\ verdict = "passed"
           /\ filter = IF provisioned THEN "manifest" ELSE "bypass"]_vars
  BY <1>2 DEF Programmed
<1> QED
  BY <1>1, <1>3, <1>4, PTL DEF Spec, HandoverIsFiltered
=============================================================================

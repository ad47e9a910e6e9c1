---------------------------- MODULE PfrProtocol -----------------------------
(***************************************************************************)
(* The protocol-independent policy types of app-rot/src/protocol/mod.rs:    *)
(* what a mailbox command, a boot checkpoint or an update intent asks of    *)
(* the PFR state machine.  "None" is Option::None: no event is sent.        *)
(***************************************************************************)
MailboxCommand == {"None", "Provision", "UpdateIntent", "Checkpoint",
                   "ResetCommunication", "RequestRecovery"}

CheckpointProgress == {"Started", "Paused", "Resumed", "Completed",
                       "AuthenticationFailed"}

\* The flags of an UpdateIntent that are set.
UpdateFlag == {"active", "recovery", "staging", "dynamic_at_reset"}

\* ProtocolEvent::to_pfr_event
MailboxEvent(command) ==
  IF command \in {"RequestRecovery", "ResetCommunication"}
    THEN "ResetDetected" ELSE "None"

\* CheckpointEvent::to_pfr_event
CheckpointEvent(progress) ==
  IF progress = "AuthenticationFailed" THEN "WatchdogTimeout" ELSE "None"

\* UpdateIntent::any_update and UpdateIntent::to_pfr_event
UpdateIntentEvent(flags) ==
  IF flags \cap {"active", "recovery", "staging"} # {}
    THEN "VerificationFailed" ELSE "None"

\* Every event a protocol task can put into the event channel.
ProtocolEvents ==
  ({MailboxEvent(c) : c \in MailboxCommand}
     \cup {CheckpointEvent(p) : p \in CheckpointProgress}
     \cup {UpdateIntentEvent(f) : f \in SUBSET UpdateFlag}) \ {"None"}
=============================================================================

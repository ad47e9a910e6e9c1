----------------------------- MODULE Provision -----------------------------
(***************************************************************************)
(* The provisioning service of app-rot/src/provision/mod.rs: apply, a pure  *)
(* function of the state, under any caller that keeps to the module's usage *)
(* pattern: the next state goes to durable storage, and right after that,   *)
(* only if storage succeeds, it becomes the live state.  When the caller    *)
(* performs the hardware operation that belongs to the command the module   *)
(* leaves open: here it comes before the one or after the other.  Any       *)
(* operation of the caller may fail, and power may be lost at any point.    *)
(***************************************************************************)
EXTENDS Naturals

CONSTANT SvnMax    \* u32::MAX, where the anti-rollback counter saturates

VARIABLES
  live,       \* the state in memory
  stored,     \* the state in durable storage
  otp,        \* what is burned: root_key, svn, locked
  cmd, pending,   \* the command under way, the state after it
  todo        \* what is left of it

provisionVars == <<live, stored, otp, cmd, pending, todo>>

Operations == {"hardware", "store", "commit"}

ReadOnlyCommands == {"ReadDeviceId", "QueryStatus"}
ProvisionCommands ==
  {"WriteRootKey", "DeployManifest", "SetPlatformDescriptor", "BurnAntiRollback",
   "LockProvisioning"} \cup ReadOnlyCommands

ProvisionState == [root_key_written : BOOLEAN, manifest_deployed : BOOLEAN,
                   descriptor_set : BOOLEAN, locked : BOOLEAN, svn_burned : Nat]
New == [root_key_written |-> FALSE, manifest_deployed |-> FALSE,
        descriptor_set |-> FALSE, locked |-> FALSE, svn_burned |-> 0]

IsProvisioned(s) == s.root_key_written /\ s.manifest_deployed /\ s.descriptor_set

\* saturating_add(1).
Burn(svn) == IF svn = SvnMax THEN svn ELSE svn + 1

\* apply returns Ok.
Allowed(s, c) ==
  \/ c \in ReadOnlyCommands
  \/ /\ ~s.locked
     /\ c = "DeployManifest" => s.root_key_written
     /\ c = "LockProvisioning" => IsProvisioned(s)

\* The state that apply returns.
Applied(s, c) ==
  CASE c = "WriteRootKey"          -> [s EXCEPT !.root_key_written = TRUE]
    [] c = "DeployManifest"        -> [s EXCEPT !.manifest_deployed = TRUE]
    [] c = "SetPlatformDescriptor" -> [s EXCEPT !.descriptor_set = TRUE]
    [] c = "BurnAntiRollback"      -> [s EXCEPT !.svn_burned = Burn(@)]
    [] c = "LockProvisioning"      -> [s EXCEPT !.locked = TRUE]
    [] c \in ReadOnlyCommands      -> s

ProvisionInit ==
  /\ live = New /\ stored = New
  /\ otp = [root_key |-> FALSE, svn |-> 0, locked |-> FALSE]
  /\ cmd = "QueryStatus" /\ pending = New /\ todo = {}

Command(c) ==
  /\ todo = {} /\ Allowed(live, c)
  /\ cmd' = c /\ pending' = Applied(live, c) /\ todo' = {"hardware", "store"}
  /\ UNCHANGED <<live, stored, otp>>

Hardware ==
  /\ "hardware" \in todo /\ "commit" \notin todo
  /\ otp' = [root_key |-> otp.root_key \/ cmd = "WriteRootKey",
             svn |-> IF cmd = "BurnAntiRollback" THEN Burn(otp.svn) ELSE otp.svn,
             locked |-> otp.locked \/ cmd = "LockProvisioning"]
  /\ todo' = todo \ {"hardware"}
  /\ UNCHANGED <<live, stored, cmd, pending>>

Store ==
  /\ "store" \in todo
  /\ stored' = pending /\ todo' = (todo \ {"store"}) \cup {"commit"}
  /\ UNCHANGED <<live, otp, cmd, pending>>

Commit ==
  /\ "commit" \in todo
  /\ live' = pending /\ todo' = todo \ {"commit"}
  /\ UNCHANGED <<stored, otp, cmd, pending>>

\* The burn or the write fails: the caller gives up on the command.
Fail ==
  /\ todo # {} /\ "commit" \notin todo
  /\ todo' = {}
  /\ UNCHANGED <<live, stored, otp, cmd, pending>>

PowerLoss ==
  /\ live' = stored /\ todo' = {}
  /\ UNCHANGED <<stored, otp, cmd, pending>>

ProvisionNext ==
  \/ \E c \in ProvisionCommands : Command(c)
  \/ Hardware \/ Store \/ Commit \/ Fail \/ PowerLoss

ProvisionSpec == ProvisionInit /\ [][ProvisionNext]_provisionVars

----------------------------------------------------------------------------
ProvisionTypeOK ==
  /\ live \in ProvisionState /\ stored \in ProvisionState /\ pending \in ProvisionState
  /\ otp \in [root_key : BOOLEAN, svn : Nat, locked : BOOLEAN]
  /\ cmd \in ProvisionCommands /\ todo \subseteq Operations

(* No order of burns, writes, failures and restarts locks a device that has  *)
(* no root key, manifest or descriptor: not in memory, not in storage, and   *)
(* not for good in its OTP.  (Whether a state may claim what has not been    *)
(* burned depends on the order the caller picks.)                            *)
LockedIsProvisioned ==
  /\ live.locked => IsProvisioned(live)
  /\ stored.locked => IsProvisioned(stored)
  /\ otp.locked => IsProvisioned(stored)

(* Once a lock is stored, nothing in storage changes again.                  *)
LockIsFinal == [][stored.locked => stored' = stored]_provisionVars
=============================================================================

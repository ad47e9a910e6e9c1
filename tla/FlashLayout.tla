---------------------------- MODULE FlashLayout ----------------------------
(***************************************************************************)
(* Flash layouts, recovery plans and recovery levels of                     *)
(* app-rot/src/flash/mod.rs: pure functions, without a caller in the        *)
(* sources.  A layout is a sequence of regions: slot, offset, size.         *)
(***************************************************************************)
EXTENDS Manifest

\* Region::contains.
Contains(region, offset, len) ==
  /\ ~Overflows(region) /\ offset + len <= WordMax
  /\ offset >= region.offset /\ offset + len <= End(region)

FindSlot(layout, slot) == FirstOf({k \in DOMAIN layout : layout[k].slot = slot})
FindContaining(layout, offset, len) ==
  FirstOf({k \in DOMAIN layout : Contains(layout[k], offset, len)})

ValidateLayout(layout) ==
  /\ \A k \in DOMAIN layout : layout[k].size # 0 /\ ~Overflows(layout[k])
  /\ \A j, k \in DOMAIN layout : j < k => ~Overlapping(layout[j], layout[k])

IsCompatible(pair) ==
  /\ pair.active.size # 0 /\ pair.recovery.size # 0
  /\ pair.recovery.size >= pair.active.size

ValidatePlan(pairs) ==
  pairs # <<>> /\ \A k \in DOMAIN pairs : IsCompatible(pairs[k])

MaxLevel == 2
RecoveryLevel == 0..MaxLevel
CanEscalate(level) == level < MaxLevel
\* What escalate returns; the set is empty for None.
Escalated(level) == IF CanEscalate(level) THEN {level + 1} ELSE {}
=============================================================================

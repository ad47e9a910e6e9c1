----------------------------- MODULE SpiFilter -----------------------------
(***************************************************************************)
(* The policy of the SPI monitors, app-rot/src/filter.rs: which blocks of   *)
(* flash a manifest makes read-only, the commands that pass, and what the   *)
(* monitor lets the target do to flash.                                     *)
(***************************************************************************)
EXTENDS Manifest, FiniteSets

CONSTANTS
  Block,         \* bytes behind one bit of the address table (16 KiB)
  TableBlocks,   \* bits of the address table (512)
  EraseUnits,    \* bytes that the erase commands clear (4, 32 and 64 KiB)
  FlashSize      \* bytes of a flash device

\* Faulty variant: the last block is left out.
ProtectRangeShort(offset, size) ==
  {b \in 0..(TableBlocks - 1) :
     b >= offset \div Block /\ b < (offset + size - 1) \div Block}
\* Faulty variant: the loop runs past the end of the table.
ProtectRangePastTable(offset, size) ==
  IF size = 0 \/ offset + size > WordMax THEN {}
  ELSE (offset \div Block)..((offset + size - 1) \div Block)
\* protect_range: every block that the range touches, as far as the table goes.
ProtectRange(offset, size) ==
  IF size = 0 \/ offset + size > WordMax THEN {}
  ELSE {b \in 0..(TableBlocks - 1) :
          b >= offset \div Block /\ b <= (offset + size - 1) \div Block}

Unprovisioned == [provisioned |-> FALSE, write_disable |-> {}]
FromManifest(m) ==
  [provisioned |-> TRUE,
   write_disable |->
     UNION {ProtectRange(m.regions[k].offset, m.regions[k].size) :
              k \in {k \in DOMAIN m.regions : "write" \notin m.regions[k].permissions}}]
Policy(m) == IF m.images = <<>> THEN Unprovisioned ELSE FromManifest(m)

\* The commands of the target that change flash, with the bytes that each
\* changes: a page program is counted by its first byte.
Programs == {{a} : a \in 0..(FlashSize - 1)}
Erases == {{a \in 0..(FlashSize - 1) : a \div unit = n} :
             unit \in EraseUnits, n \in 0..(FlashSize - 1)} \ {{}}
ChipErase == 0..(FlashSize - 1)
\* program_common_commands: the opcodes 02, 20, 52, D8 and C7.
Commands == Programs \cup Erases \cup {ChipErase}

\* A monitor that is enabled stops a command that would change a byte of a
\* block with its bit set; it knows the extent of each from erase_size.
Passes(enabled, write_disable, command) ==
  enabled => \A a \in command : a \div Block \notin write_disable
=============================================================================

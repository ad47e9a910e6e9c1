---------------------------- MODULE Ast1060Flash ----------------------------
(***************************************************************************)
(* The flash backend of app-rot/src/platform/ast1060.rs: slots mapped to    *)
(* ranges of the flash devices, and writes that go page by page.  Slots is  *)
(* a sequence of records: slot, ce, offset, size.                           *)
(***************************************************************************)
EXTENDS Naturals, Sequences

CONSTANTS
  Page,      \* bytes of a flash page (256)
  Sector     \* bytes of a flash sector (4 KiB)

ASSUME PagesAssumption ==
  Page \in Nat \ {0} /\ Sector \in Nat \ {0} /\ Sector % Page = 0

\* find: the index of the first mapping of the slot that is large enough, or 0.
Fits(slots, slot, offset, len) ==
  {k \in DOMAIN slots : slots[k].slot = slot /\ offset + len <= slots[k].size}
Find(slots, slot, offset, len) ==
  LET fits == Fits(slots, slot, offset, len)
  IN IF fits = {} THEN 0 ELSE CHOOSE k \in fits : \A j \in fits : k <= j

\* A range that read, write and erase_sector go on with: found, and on a chip
\* select that exists.
Usable(slots, slot, offset, len) ==
  /\ Find(slots, slot, offset, len) # 0
  /\ slots[Find(slots, slot, offset, len)].ce <= 1

\* Faulty variant: every chunk is a whole page.
ChunkLenUnaligned(offset, left) == IF left < Page THEN left ELSE Page
\* One turn of the loop of write.
ChunkLen(offset, left) ==
  LET page_remaining == Page - (offset % Page)
  IN IF left < page_remaining THEN left ELSE page_remaining

\* The device: a page program wraps around inside its page, an erase clears the
\* aligned sector.
Programmed(physical, len) ==
  {(physical \div Page) * Page + ((physical + i) % Page) : i \in 0..(len - 1)}
Erased(physical) ==
  ((physical \div Sector) * Sector)..((physical \div Sector) * Sector + Sector - 1)
=============================================================================

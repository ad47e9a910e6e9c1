------------------------------ MODULE SpiImage -----------------------------
(***************************************************************************)
(* imgtools spi-image, tools/imgtools/spi.go: where the tool places the     *)
(* files it is given in the flash image of an AST2700, which requests it    *)
(* refuses, and which file owns each byte in the end.                       *)
(***************************************************************************)
EXTENDS Naturals, Sequences, FiniteSets, FiniteSetsExt

CONSTANTS
  AsthOffset,      \* asthOffset; caliptraOffset is 0
  AsthSize,        \* headerSize of asth.go
  HeaderOffset,    \* a35HeaderOffset
  HeaderSize,      \* of the A35 boot header (16)
  PayloadOffset,   \* where "a35", "ssp" and "tsp" payloads go
  PrebuiltAlign,   \* alignment of prebuilts (16)
  ImageAlign       \* alignment of the whole image (64 KiB)

Payloads == {"a35", "ssp", "tsp"}
FmcOffset == AsthOffset + AsthSize
AlignUp(n, to) == ((n + to - 1) \div to) * to

\* The ASTH and the boot header lie below the payloads.
ASSUME LayoutAssumption ==
  /\ {AsthOffset, AsthSize, HeaderOffset, HeaderSize} \subseteq Nat
  /\ PayloadOffset \in [Payloads -> Nat]
  /\ \A p \in Payloads : /\ FmcOffset <= PayloadOffset[p]
                         /\ HeaderOffset + HeaderSize <= PayloadOffset[p]

\* A request is a record: the lengths of the files caliptra and fmc, a sequence
\* of them for prebuilts, for each payload its length, 0 when it is not given,
\* whether the ELF of the CA35 payload has an entry above the text base, and
\* the size asked for, 0 for automatic.
Extent(name, at, len) == [name |-> name, at |-> at, end |-> at + len]
Given(b) == {p \in Payloads : b.payload[p] > 0}
PayloadExtent(b, p) == Extent(p, PayloadOffset[p], b.payload[p])

\* Prebuilts follow the FMC, each at the next aligned place.
PrebuiltEnd(b) ==
  LET end[k \in 0..Len(b.prebuilts)] ==
        IF k = 0 THEN FmcOffset + b.fmc
        ELSE AlignUp(end[k - 1], PrebuiltAlign) + b.prebuilts[k]
  IN end
PlacePrebuilts(b) ==
  [k \in DOMAIN b.prebuilts |->
     Extent("prebuilt", AlignUp(PrebuiltEnd(b)[k - 1], PrebuiltAlign), b.prebuilts[k])]

HasHeader(b) == b.payload["a35"] > 0

\* The copies in the order in which they are made; nothing is copied for what
\* is not given.
Copies(b) ==
  <<Extent("caliptra", 0, b.caliptra), Extent("asth", AsthOffset, AsthSize),
    Extent("fmc", FmcOffset, b.fmc)>>
    \o PlacePrebuilts(b)
    \o <<PayloadExtent(b, "a35"), PayloadExtent(b, "ssp"), PayloadExtent(b, "tsp"),
         Extent("header", HeaderOffset, IF HasHeader(b) THEN HeaderSize ELSE 0)>>

\* The end of all content but the Caliptra firmware and the ASTH header.
ContentEnd(b) ==
  Max({PrebuiltEnd(b)[Len(b.prebuilts)]}
        \cup {PayloadExtent(b, p).end : p \in Given(b)}
        \cup (IF HasHeader(b) THEN {HeaderOffset + HeaderSize} ELSE {}))
ImageSize(b) == IF b.size > 0 THEN b.size ELSE AlignUp(ContentEnd(b), ImageAlign)

Overlap(x, y) == x.at < y.end /\ y.at < x.end

\* Faulty variant: payloads may overlap.
AcceptedOverlapping(b) ==
  /\ b.caliptra <= AsthOffset
  /\ HasHeader(b) => b.entry
  /\ ImageSize(b) >= ContentEnd(b)
\* cmdSpiImage succeeds.
Accepted(b) ==
  /\ b.caliptra <= AsthOffset
  /\ \A p, q \in Given(b) :
       p # q => ~Overlap(PayloadExtent(b, p), PayloadExtent(b, q))
  /\ HasHeader(b) => b.entry
  /\ ImageSize(b) >= ContentEnd(b)

\* The last copy over a byte owns it; a byte of none is erased (0xFF).
Owner(b, a) ==
  LET over == {k \in DOMAIN Copies(b) : Copies(b)[k].at <= a /\ a < Copies(b)[k].end}
  IN IF over = {} THEN "erased" ELSE Copies(b)[Max(over)].name
=============================================================================

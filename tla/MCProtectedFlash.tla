-------------------------- MODULE MCProtectedFlash --------------------------
(***************************************************************************)
(* A flash of 8 sectors of 4 bytes, in 4 blocks of which the table reaches   *)
(* 3, behind slots that begin with the device, at a sector, and nowhere.     *)
(***************************************************************************)
EXTENDS ProtectedFlash

Region(offset, size, permissions) ==
  [offset |-> offset, size |-> size, permissions |-> permissions]
Rom == {"read", "execute"}
Ram == {"read", "write"}

Ecdsa == [digest |-> 48, signature |-> 96, key |-> 96]
Image(offset, size, svn) ==
  [offset |-> offset, size |-> size, hash |-> "Sha384", signature |-> "EcdsaP384",
   svn |-> svn, material |-> Ecdsa]
Rsa(descriptor, key) ==
  [descriptor EXCEPT !.hash = "Sha256", !.signature = "Rsa2048",
                !.material = [digest |-> 32, signature |-> 256, key |-> key]]

Firmware(regions, images) == [regions |-> regions, images |-> images]
Half == <<Region(0, 16, Rom), Region(16, 8, Ram)>>

\* The manifest of the sources is the first; the others are what a build
\* with images would hold, right and wrong.
MCManifests == {
  Firmware(<<>>, <<>>),
  Firmware(Half, <<Image(6, 3, 1)>>),
  Firmware(Half, <<Rsa(Image(14, 2, 2), 259), Image(17, 2, 1)>>),
  Firmware(<<Region(22, 10, Rom)>>, <<Image(22, 2, 1), Rsa(Image(23, 3, 1), 256)>>),
  Firmware(<<Region(22, 10, Rom)>>, <<Image(21, 2, 1)>>),
  Firmware(<<Region(22, 10, Rom)>>, <<Image(22, 2, 1), Image(30, 2, 1)>>),
  Firmware(Half, <<Image(6, 3, 0)>>),
  Firmware(Half, <<[Image(6, 3, 1) EXCEPT !.material = <<>>]>>),
  Firmware(<<Region(0, 16, Rom), Region(15, 8, Ram)>>, <<Image(6, 3, 1)>>)}

Slot(slot, ce, offset, size) ==
  [slot |-> slot, ce |-> ce, offset |-> offset, size |-> size]
MCSlotTables == {
  <<>>,
  <<Slot("Active", 0, 0, 32)>>,
  <<Slot("Recovery", 1, 0, 32), Slot("Active", 0, 0, 12), Slot("Active", 1, 0, 32)>>,
  <<Slot("Active", 0, 3, 28)>>,
  <<Slot("Active", 1, 8, 20), Slot("Recovery", 2, 0, 32)>>}

MCEraseUnits == {4, 16}
=============================================================================

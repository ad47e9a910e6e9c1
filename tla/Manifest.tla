------------------------------ MODULE Manifest ------------------------------
(***************************************************************************)
(* The platform firmware manifest of app-rot/src/manifest/mod.rs: what it   *)
(* says of flash, and which manifests validate_manifest and                 *)
(* validate_anti_rollback accept.  A manifest is a record of two sequences: *)
(* regions (offset, size, permissions) and images (offset, size, hash,      *)
(* signature, svn); beside it the descriptors of keys and attestation, and   *)
(* the queue of verification requests, which no code uses yet.               *)
(***************************************************************************)
EXTENDS Naturals, Sequences

CONSTANT WordMax    \* u32::MAX (fewer values where TLC counts)

\* checked_end is None.
Overflows(x) == x.offset + x.size > WordMax
End(x) == x.offset + x.size

ContainsImage(region, image) ==
  /\ ~Overflows(region) /\ ~Overflows(image)
  /\ image.offset >= region.offset /\ End(image) <= End(region)

Overlapping(a, b) == a.offset < End(b) /\ b.offset < End(a)

ValidRegion(r) == r.size # 0 /\ r.permissions # {} /\ ~Overflows(r)
ValidImage(m, image) ==
  /\ image.size # 0 /\ ~Overflows(image)
  /\ \E k \in DOMAIN m.regions : ContainsImage(m.regions[k], image)

ValidateManifest(m) ==
  /\ m.images # <<>>
  /\ \A k \in DOMAIN m.regions : ValidRegion(m.regions[k])
  /\ \A k \in DOMAIN m.images : ValidImage(m, m.images[k])
  /\ \A j, k \in DOMAIN m.regions : j < k => ~Overlapping(m.regions[j], m.regions[k])

\* AntiRollbackPolicy::accepts.
Accepts(minimum_svn, svn) == svn >= minimum_svn
ValidateAntiRollback(m, minimum_svn) ==
  \A k \in DOMAIN m.images : Accepts(minimum_svn, m.images[k].svn)

\* validate_key_descriptor and validate_afm_descriptor.
ValidateKey(key) == key.digest_size # 0 /\ key.digest_offset + key.digest_size <= WordMax
ValidateAfm(afm) == afm.size # 0 /\ ~Overflows(afm)

\* Iterator::find: the first index of the set, or 0.
FirstOf(indices) ==
  IF indices = {} THEN 0 ELSE CHOOSE k \in indices : \A j \in indices : k <= j
FindKey(keys, kind, index) ==
  FirstOf({k \in DOMAIN keys : keys[k].kind = kind /\ keys[k].index = index})

\* VerificationQueue: an array whose unused places hold Nothing.
Nothing == <<>>
NewQueue(n) == [items |-> [k \in 1..n |-> Nothing], len |-> 0]
IsFull(q) == q.len >= Len(q.items)
\* push, when it returns true.
Push(q, request) ==
  [items |-> [q.items EXCEPT ![q.len + 1] = request], len |-> q.len + 1]
\* pop, of a queue that is not empty: the rest moves down.
Pop(q) ==
  [items |-> [k \in DOMAIN q.items |->
                IF k < q.len THEN q.items[k + 1]
                ELSE IF k = q.len THEN Nothing ELSE q.items[k]],
   len |-> q.len - 1]

DigestLen(hash) == CASE hash = "Sha256" -> 32 [] hash = "Sha384" -> 48 [] hash = "Sha512" -> 64
=============================================================================

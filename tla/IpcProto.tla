----------------------------- MODULE IpcProto ------------------------------
(***************************************************************************)
(* The codec of the inter-core IPC envelope, ipc-proto/src/lib.rs: the      *)
(* proto3 wire format on sequences of bytes.                                *)
(***************************************************************************)
EXTENDS Naturals, Sequences, SequencesExt

\* How many values a u32 and, on this 32-bit core, a usize has: 2^32, and a
\* smaller power of two where TLC counts.
CONSTANT U32
ASSUME U32Assumption == U32 \in Nat \ {0} /\ U32 % 2048 = 0

\* An Option: a set of at most one element.
None == {}
Some(x) == {x}
The(option) == CHOOSE x \in option : TRUE

Payload(kind, value) == [kind |-> kind, value |-> value]
Envelope(seq, payload) == [seq |-> seq, payload |-> payload]
NoPayload == Payload("none", 0)
Ping(nonce) == Payload("ping", nonce)
Pong(nonce) == Payload("pong", nonce)
GetRotStatus == Payload("get_rot_status", 0)
RotStatus(status) == Payload("rot_status", status)

MaxEnvelopeLen == 31
VarintType == 0
I64Type == 1
LenType == 2
I32Type == 5

----------------------------------------------------------------------------
(* Encoding: a scalar that is zero or false is left out.                    *)

PutVarint[v \in Nat] ==
  IF v < 128 THEN <<v>> ELSE <<128 + (v % 128)>> \o PutVarint[v \div 128]
PutTag(field, wire) == PutVarint[8 * field + wire]
PutU32(field, v) ==
  IF v = 0 THEN <<>> ELSE PutTag(field, VarintType) \o PutVarint[v]
PutBool(field, v) == PutU32(field, IF v THEN 1 ELSE 0)
PutSubmessage(field, body) ==
  PutTag(field, LenType) \o PutVarint[Len(body)] \o body

EncodeNonce(nonce) == PutU32(1, nonce)
EncodeRotStatus(rs) ==
  PutU32(1, rs.silicon_rev) \o PutU32(2, rs.flow) \o PutU32(3, rs.boot)
    \o PutBool(4, rs.secure) \o PutBool(5, rs.rt)

EncodePayload(payload) ==
  CASE payload.kind = "none" -> <<>>
    [] payload.kind = "ping" -> PutSubmessage(2, EncodeNonce(payload.value))
    [] payload.kind = "pong" -> PutSubmessage(3, EncodeNonce(payload.value))
    [] payload.kind = "get_rot_status" -> PutSubmessage(4, <<>>)
    [] payload.kind = "rot_status" -> PutSubmessage(5, EncodeRotStatus(payload.value))

\* None if the bytes do not fit the caller's buffer.
Encode(env, room) ==
  {bytes \in {PutU32(1, env.seq) \o EncodePayload(env.payload)} : Len(bytes) <= room}

----------------------------------------------------------------------------
(* Decoding.  The value and the place after it, or None.                    *)

\* At most ten bytes, seven bits of the value in each, the last below 128.  Every
\* use of the u64 cuts it to 32 bits or fewer (val) or asks if it is zero; of
\* the tenth byte it has one bit.
GetVarint(buf, pos) ==
  {[next |-> last + 1,
    val |-> FoldRight(LAMBDA b, acc : (b % 128) + 128 * (acc % (U32 \div 128)),
                      SubSeq(buf, pos, last), 0),
    zero |-> \A q \in pos..last : buf[q] % (IF q = pos + 9 THEN 2 ELSE 128) = 0] :
     last \in {q \in pos..Len(buf) :
                /\ q < pos + 10 /\ buf[q] < 128
                /\ \A r \in pos..(q - 1) : buf[r] >= 128}}

\* One field of any number.  Field numbers are cut to eight bits, lengths to a
\* usize: one of 2^32 and more stands for a shorter one.
GetField(buf, pos) ==
  LET Field(tag, body, v, next) ==
        IF next > Len(buf) + 1 THEN None
        ELSE Some([num |-> (tag.val \div 8) % 256, wire |-> tag.val % 8,
                   val |-> v.val, zero |-> v.zero, body |-> body, next |-> next])
      NoScalar == [val |-> 0, zero |-> TRUE]
      Bytes(tag, from, len) ==
        Field(tag, SubSeq(buf, from, from + len - 1), NoScalar, from + len)
      OfType(tag, wire) ==
        CASE wire = I64Type -> Bytes(tag, tag.next, 8)
          [] wire = I32Type -> Bytes(tag, tag.next, 4)
          [] wire = VarintType ->
               UNION {Field(tag, <<>>, v, v.next) : v \in GetVarint(buf, tag.next)}
          [] wire = LenType ->
               UNION {Bytes(tag, v.next, v.val) : v \in GetVarint(buf, tag.next)}
          [] OTHER -> None
  IN UNION {OfType(tag, tag.val % 8) : tag \in GetVarint(buf, pos)}

\* All fields, or None if one of them is malformed.
GetFields(buf) ==
  LET From[pos \in 1..(Len(buf) + 1)] ==
        IF pos > Len(buf) THEN Some(<<>>)
        ELSE UNION {{<<field>> \o rest : rest \in From[field.next]} :
                      field \in GetField(buf, pos)}
  IN From[1]

\* Of the fields that match, the last one counts; the others are skipped.
LastScalar(fields, num) ==
  LET hits == SelectSeq(fields, LAMBDA f : f.num = num /\ f.wire = VarintType)
  IN IF hits = <<>> THEN [val |-> 0, zero |-> TRUE] ELSE Last(hits)

DecodeNonce(fields) == LastScalar(fields, 1).val
DecodeRotStatus(fields) ==
  [silicon_rev |-> LastScalar(fields, 1).val,
   flow |-> LastScalar(fields, 2).val,
   boot |-> LastScalar(fields, 3).val,
   secure |-> ~LastScalar(fields, 4).zero,
   rt |-> ~LastScalar(fields, 5).zero]

DecodePayload(field) ==
  LET fields == GetFields(field.body)
  IN CASE field.num = 2 -> {Ping(DecodeNonce(f)) : f \in fields}
       [] field.num = 3 -> {Pong(DecodeNonce(f)) : f \in fields}
       [] field.num = 4 -> {GetRotStatus}
       [] field.num = 5 -> {RotStatus(DecodeRotStatus(f)) : f \in fields}

\* Every submessage must be well formed but that of get_rot_status, whose body
\* is not looked at; the last one counts.
Decode(buf) ==
  LET Cases(fields) == SelectSeq(fields, LAMBDA f : f.num \in 2..5 /\ f.wire = LenType)
      OfCases(cases) ==
        IF cases = <<>> THEN {NoPayload}
        ELSE IF \E k \in DOMAIN cases : DecodePayload(cases[k]) = None THEN None
        ELSE DecodePayload(Last(cases))
  IN UNION {{Envelope(LastScalar(fields, 1).val, payload) :
               payload \in OfCases(Cases(fields))} : fields \in GetFields(buf)}
=============================================================================

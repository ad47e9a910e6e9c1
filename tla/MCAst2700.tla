----------------------------- MODULE MCAst2700 ------------------------------
(***************************************************************************)
(* An AST2700 board for TLC.  Flash is scaled: Caliptra at 0, ASTH at 2,    *)
(* FMC from 3, boot header at 7, CA35 window 8-11, SSP 12-13, TSP 14-15.    *)
(***************************************************************************)
EXTENDS Ast2700

MCPayloadOffset == [w \in Core |-> CASE w = "a35" -> 8 [] w = "ssp" -> 12 [] w = "tsp" -> 14]
MCWindowSize == [w \in Core |-> IF w = "a35" THEN 4 ELSE 2]

\* Requests of the tool: whole sets of payloads, missing ones, payloads that
\* are longer than the window, prebuilts that run into the header.
Sized(a, s, t) == [w \in Core |-> CASE w = "a35" -> a [] w = "ssp" -> s [] w = "tsp" -> t]
Asked(prebuilts, payload, entry, size) ==
  [caliptra |-> 2, fmc |-> 1, prebuilts |-> prebuilts, payload |-> payload,
   entry |-> entry, size |-> size]
MCBuilds ==
  {Asked(<<1, 1>>, Sized(4, 2, 2), TRUE, 16),
   Asked(<<2, 3>>, Sized(3, 1, 0), TRUE, 0),
   Asked(<<1>>, Sized(5, 0, 2), TRUE, 16),
   Asked(<<>>, Sized(0, 1, 0), FALSE, 0),
   \* refused: an overlap, an entry below the text base, a size too small
   Asked(<<>>, Sized(4, 3, 2), TRUE, 0),
   Asked(<<1>>, Sized(5, 2, 0), TRUE, 0),
   Asked(<<1>>, Sized(4, 2, 2), FALSE, 0),
   Asked(<<1>>, Sized(4, 2, 2), TRUE, 8)}

Wide == 1073741823
Of(seq, payload) == [frame |-> ToFrame(The(Encode(Envelope(seq, payload), MaxEnvelopeLen))),
                     asks |-> Some(Envelope(seq, payload))]
Raw(bytes, asks) == [frame |-> ToFrame(bytes), asks |-> asks]
MCRequests ==
  {Of(0, Ping(0)), Of(7, Ping(4660)), Of(Wide, GetRotStatus),
   \* an unknown field, and two cases of the oneof: the last one counts
   Raw(<<8, 5, 72, 99, 18, 2, 8, 1, 34, 0>>, Some(Envelope(5, GetRotStatus))),
   \* a length of 2^32 + 2, cut to 2
   Raw(<<18, 130, 128, 128, 128, 16, 8, 1>>, Some(Envelope(0, Ping(1)))),
   Raw(<<18, 5, 0>>, None), Raw(<<>>, None), Raw(<<26, 0>>, None),
   [frame |-> <<32>> \o [k \in 1..31 |-> 0], asks |-> None]}

\* Frames for the codec alone: numbers at every length of a varint.
Edges == {0, 1, 127, 128, 16383, 16384, 2097151, 2097152, 268435455, 268435456, Wide}
EdgeRequests ==
  {Of(seq, payload) : seq \in Edges, payload \in {GetRotStatus} \cup {Ping(n) : n \in Edges}}
  \cup {\* field 258, cut to 2; a nonce of 2^32 + 3, cut to 3
         Raw(<<146, 16, 2, 8, 1>>, Some(Envelope(0, Ping(1)))),
         Raw(<<18, 6, 8, 131, 128, 128, 128, 16>>, Some(Envelope(0, Ping(3)))),
         \* a varint of ten bytes, and one of eleven
         Raw(<<18, 11, 8, 129, 128, 128, 128, 128, 128, 128, 128, 128, 1>>,
             Some(Envelope(0, Ping(1)))),
         Raw(<<18, 12, 8, 129, 128, 128, 128, 128, 128, 128, 128, 128, 128, 1>>, None)}
ASSUME CodecIsSound == CodecAgrees(Requests \cup EdgeRequests)
=============================================================================

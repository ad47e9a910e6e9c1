------------------------------- MODULE Ast2700 ------------------------------
(***************************************************************************)
(* An AST2700 board: the flash image that imgtools builds, the BootMCU that *)
(* boots from it, and, once the CA35 runs, the IPC loop that ends main in   *)
(* rot_ast2700_bootmcu.rs.                                                  *)
(***************************************************************************)
EXTENDS BootMcu, SpiImage, IpcProto

CONSTANTS
  Builds,        \* the requests made of the image tool
  FlashOffset,   \* RAW_*_PAYLOAD_FLASH_OFFSET, as the BootMCU has them
  WindowSize,    \* A35_PAYLOAD_SIZE and M4_PAYLOAD_SIZE
  FlowStatus, BootStatus,    \* Caliptra's status words
  Requests,      \* what the CA35 may send: a frame, and what it asks for
  MaxRequests,   \* bound: requests in one boot
  MailSlots,     \* DATA slots of a sub-channel, one per message (4)
  QueueSlots     \* what Queue<IpcEvent, 8> holds (7)

ASSUME BuildAssumption ==
  \A b \in Builds :
    /\ {b.caliptra, b.fmc, b.size} \subseteq Nat /\ b.prebuilts \in Seq(Nat)
    /\ b.payload \in [Core -> Nat] /\ b.entry \in BOOLEAN
\* The BootMCU has the tool's offsets, and no window reaches into the next.
ASSUME WindowAssumption ==
  /\ FlashOffset = PayloadOffset /\ WindowSize \in [Core -> Nat \ {0}]
  /\ \A p, q \in Core : \/ p = q
                        \/ FlashOffset[p] + WindowSize[p] <= FlashOffset[q]
                        \/ FlashOffset[q] + WindowSize[q] <= FlashOffset[p]

\* A frame asks for one thing at most.
ASSUME RequestAssumption ==
  \A r \in Requests : r.asks = None \/ \E env \in r.asks : r.asks = Some(env)
ASSUME QueueAssumption == QueueSlots \in Nat \ {0} /\ MailSlots \in Nat \ {0}

VARIABLES
  build,     \* the image in flash
  inbox,     \* mailbox from the CA35: messages with an id and a frame
  outbox,    \* mailbox to the CA35
  queue,     \* ipc_queue
  asked,     \* requests sent since the reset
  open       \* history: requests sent that have had no reply, oldest first

ipcVars == <<inbox, outbox, queue, asked, open>>
boardVars == <<bootVars, build, ipcVars>>

\* The images that the tool makes, and in each the payloads whose window does
\* not begin with erased flash.
Images == {b \in Builds : Accepted(b)}
NotBlank ==
  [b \in Images |-> {w \in Core : Owner(b, FlashOffset[w]) # "erased"}]

BoardInit ==
  /\ Init
  /\ build \in Images
  /\ present = NotBlank[build]
  /\ inbox = <<>> /\ outbox = <<>> /\ queue = <<>> /\ asked = 0 /\ open = <<>>

----------------------------------------------------------------------------
(* Boot.  On NOR flash the boot header is there if the tool has written it. *)

Boots ==
  /\ Main
  /\ pc = "header" /\ media = "nor" => (pc' = "a35") = HasHeader(build)
  /\ UNCHANGED <<build, ipcVars>>
Warms == CaliptraReady /\ UNCHANGED <<build, ipcVars>>

PowerCycle ==
  /\ build' \in Images
  /\ Reset(NotBlank[build'])
  /\ build' = build \/ \A w \in Core : dram'[w] = {}
  /\ inbox' = <<>> /\ outbox' = <<>> /\ queue' = <<>> /\ asked' = 0 /\ open' = <<>>

----------------------------------------------------------------------------
(* IPC.  A frame is a mailbox slot: the length, then 31 bytes.              *)

ToFrame(bytes) ==
  <<Len(bytes)>> \o [k \in 1..MaxEnvelopeLen |-> IF k <= Len(bytes) THEN bytes[k] ELSE 0]
FromFrame(frame) == Decode(SubSeq(frame, 2, frame[1] + 1))
Frames == {r.frame : r \in Requests}

PackSiliconRev(rev) == 10064 * 65536 + (IF rev = "A2" THEN 2 ELSE 1)
Boards == [hw : {"A1", "A2"}, secure : BOOLEAN, rt : BOOLEAN]
RotStatusOf(board) ==
  [silicon_rev |-> PackSiliconRev(board.hw), flow |-> FlowStatus, boot |-> BootStatus,
   secure |-> board.secure, rt |-> board.rt]
ThisBoard == [hw |-> hw, secure |-> secure, rt |-> rt]

\* Faulty variant: the sequence number is not echoed.
ReplyUnsequenced(env, board) ==
  CASE env.payload.kind = "ping" -> Some(Envelope(0, Pong(env.payload.value)))
    [] env.payload.kind = "get_rot_status" ->
         Some(Envelope(0, RotStatus(RotStatusOf(board))))
    [] OTHER -> None
\* The reply to an envelope: None for what the BootMCU does not serve.
Reply(env, board) ==
  CASE env.payload.kind = "ping" -> Some(Envelope(env.seq, Pong(env.payload.value)))
    [] env.payload.kind = "get_rot_status" ->
         Some(Envelope(env.seq, RotStatus(RotStatusOf(board))))
    [] OTHER -> None

\* Faulty variant: the reply is encoded into a buffer shorter than the slot.
HandleIpcShortBuffer(frame, board) ==
  LET Encoded(reply) == {ToFrame(bytes) : bytes \in Encode(reply, MaxEnvelopeLen - 2)}
      Replied(env) == UNION {Encoded(reply) : reply \in Reply(env, board)}
  IN IF frame[1] \in 1..MaxEnvelopeLen
     THEN UNION {Replied(env) : env \in FromFrame(frame)}
     ELSE None
\* The frames that handle_ipc sends for one frame: one or none.
HandleIpc(frame, board) ==
  LET Encoded(reply) == {ToFrame(bytes) : bytes \in Encode(reply, MaxEnvelopeLen)}
      Replied(env) == UNION {Encoded(reply) : reply \in Reply(env, board)}
  IN IF frame[1] \in 1..MaxEnvelopeLen
     THEN UNION {Replied(env) : env \in FromFrame(frame)}
     ELSE None
Handled ==
  {[board |-> board, frame |-> frame, reply |-> HandleIpc(frame, board)] :
     board \in Boards, frame \in Frames}

\* One turn of the loop: receive into the queue, serve from the queue.
Enqueue(q, event) == IF Len(q) < QueueSlots THEN Append(q, event) ELSE q
Serve ==
  /\ pc = "serve"
  /\ inbox # <<>> \/ queue # <<>>
  /\ LET queued == IF inbox = <<>> THEN queue ELSE Enqueue(queue, Head(inbox))
     IN /\ inbox' = IF inbox = <<>> THEN inbox ELSE Tail(inbox)
        /\ queue' = Tail(queued)
        /\ \E h \in Handled :
             /\ h.board = ThisBoard /\ h.frame = Head(queued).frame
             /\ outbox' = IF h.reply = None THEN outbox
                          ELSE Append(outbox, [id |-> Head(queued).id,
                                               frame |-> The(h.reply)])
  /\ UNCHANGED <<bootVars, build, asked, open>>

\* The CA35 side, and the mailbox between: a driver outside the repository, taken
\* to keep messages and their order as long as each finds a free slot.  The CA35
\* sees to that in both directions: it has no more messages under way than one
\* direction has slots.  To keep the instance small it speaks only on a board
\* whose windows all hold what flash holds; the loop reads none of that.
Talks == "a35" \in running /\ \A w \in Core : dram[w] = Part
Room == Len(inbox) + Len(queue) + Len(outbox) < MailSlots
Ca35Sends ==
  /\ Talks /\ asked < MaxRequests /\ Room
  /\ asked' = asked + 1
  /\ \E r \in Requests :
       /\ inbox' = Append(inbox, [id |-> asked, frame |-> r.frame])
       /\ open' = IF r.asks = None THEN open
                  ELSE Append(open, [id |-> asked, env |-> The(r.asks)])
  /\ UNCHANGED <<bootVars, build, outbox, queue>>
Ca35Receives ==
  /\ outbox # <<>> /\ open # <<>>
  /\ outbox' = Tail(outbox) /\ open' = Tail(open)
  /\ UNCHANGED <<bootVars, build, inbox, queue, asked>>

Next == Boots \/ Warms \/ PowerCycle \/ Serve \/ Ca35Sends \/ Ca35Receives
Spec ==
  /\ BoardInit /\ [][Next]_boardVars
  /\ WF_boardVars(Boots) /\ WF_boardVars(Serve) /\ WF_boardVars(Ca35Receives)

----------------------------------------------------------------------------
(* Properties.                                                              *)

\* A core that runs from NOR flash on raw payloads runs on the file that the
\* image tool was given for it, whole in flash and with both ends in DRAM.  A
\* core without a file stays in reset, but where the tool let another file run
\* on beyond its own place: a payload past the end of its window, or FMC and
\* prebuilts past the boot header.
BelowHeader(b) ==
  /\ FmcOffset + b.fmc \in 0..HeaderOffset
  /\ \A k \in DOMAIN b.prebuilts : PlacePrebuilts(b)[k].end \in 0..HeaderOffset
Runnable ==
  [b \in Images |->
     {w \in Core :
        IF b.payload[w] > 0
        THEN \A a \in FlashOffset[w]..(FlashOffset[w] + b.payload[w] - 1) : Owner(b, a) = w
        ELSE \/ ~BelowHeader(b)
             \/ \E p \in Given(b) :
                  /\ b.payload[p] > WindowSize[p]
                  /\ Overlap(PayloadExtent(b, p), Extent(w, FlashOffset[w], 1))}]
RunsWhatWasBuilt ==
  media = "nor" =>
    \A w \in running \cap (IF hw = "A1" THEN Core ELSE M4) :
      dram[w] = Part /\ w \in Runnable[build]

\* The two sides agree on every one of some frames: the decoder serves it as what it
\* asks for by the schema, or not at all, and whatever the state of the board
\* the reply fits a slot and is decoded as it was meant.
Served(frame) ==
  {env \in IF frame[1] \in 1..MaxEnvelopeLen THEN FromFrame(frame) ELSE None :
     env.payload.kind \in {"ping", "get_rot_status"}}
CodecAgrees(requests) ==
  \A r \in requests :
    /\ Served(r.frame) = r.asks
    /\ \A env \in r.asks, board \in Boards : \A reply \in Reply(env, board) :
         \E bytes \in Encode(reply, MaxEnvelopeLen) : FromFrame(ToFrame(bytes)) = {reply}

\* Replies come in the order of the requests, each for its own: same id, same
\* sequence number, the nonce of the ping or the status of this board.
Answers(board, request, reply) ==
  /\ reply.seq = request.seq
  /\ \/ /\ request.payload.kind = "ping"
        /\ reply.payload = Pong(request.payload.value)
     \/ /\ request.payload.kind = "get_rot_status"
        /\ reply.payload.kind = "rot_status"
        /\ LET said == reply.payload.value
           IN said \in {RotStatusOf([board EXCEPT !.rt = ready]) : ready \in BOOLEAN}
              /\ (said.rt => board.rt)
RepliesInOrder ==
  /\ Len(outbox) <= Len(open)
  /\ \A k \in DOMAIN outbox :
       /\ outbox[k].id = open[k].id
       /\ \E reply \in FromFrame(outbox[k].frame) : Answers(ThisBoard, open[k].env, reply)

\* Every request that the CA35 makes while the BootMCU serves is answered,
\* whatever ill-formed frames come between.
RequestsAreAnswered == (open # <<>>) ~> (open = <<>>)

\* Each boot of the board ends in serving the cores or in a halt.
BoardSettles == (pc = "sli") ~> (pc \in {"serve", "halted"})
=============================================================================

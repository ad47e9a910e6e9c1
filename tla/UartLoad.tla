------------------------------ MODULE UartLoad ------------------------------
(***************************************************************************)
(* The serial loader, tools/aspeed-uart-load/main.go: the main goroutine    *)
(* waits for the prompt of the boot ROM, sends an image in chunks, waits    *)
(* for the second prompt and sends the application, while a goroutine       *)
(* collects what the ROM prints.  The ROM and the line are external; the    *)
(* board may be power-cycled at any time.  Bytes of a file are <<file, k>>. *)
(***************************************************************************)
EXTENDS Naturals, Sequences

CONSTANTS
  Options,        \* command lines: soc, wait, monitor, verbose, stage2, raw,
                  \* chunk
  Files,          \* bytes of a file, and bytes its header announces in all
  MinFile, MaxPayload,   \* 8 bytes and 1 MiB
  HeaderBytes,    \* the length field of a header, 4 bytes
  WireDepth,      \* bytes that the line holds
  MaxCycles       \* power cycles in a run

\* A loader with -stage2 begins with the first stage of an AST2700, as its help
\* text says; the code does not check that the ROM's second stage is not
\* offered the first file.
ASSUME OptionAssumption ==
  \A o \in Options :
    /\ o.soc \in {"ast1060", "ast2700", "ast2700-app"}
    /\ {o.wait, o.monitor, o.verbose, o.stage2, o.raw} \subseteq BOOLEAN
    /\ o.chunk \in Nat
    /\ o.stage2 => o.soc # "ast2700-app"
\* What a header announces counts its own bytes.
ASSUME FileAssumption ==
  /\ HeaderBytes \in Nat
  /\ \A f \in Files : \A k \in {1, 2} : f[k].bytes \in Nat /\ f[k].expected \in Nat \ {0}
ASSUME LineAssumption == WireDepth \in Nat /\ MaxCycles \in Nat

VARIABLES
  opt, files,     \* the command line, the two files
  pc,             \* where main is
  sent,           \* the counter of the send loops
  rx, stop,       \* reader: "off", "on", "ended"; rxStop is closed
  rxBuf,          \* what the reader collected
  line,           \* bytes from the ROM that nobody has read
  wire,           \* bytes on their way to the ROM
  rom, taken,     \* what the ROM does, bytes of the file it has taken
  cycles,
  log,            \* history: each byte that arrived, and what the ROM did
  misled          \* history: the ROM was not, or is no longer, where the loader
                  \* takes it to be

loader == <<opt, files, pc, sent>>
reader == <<rx, stop, rxBuf>>
board == <<rom, taken, cycles, log>>
loadVars == <<loader, reader, line, wire, board, misled>>

Ready(soc) ==
  CASE soc = "ast1060" -> <<"U">> [] soc = "ast2700" -> <<"U", "1">>
    [] soc = "ast2700-app" -> <<"U", "2">>

\* bytes.Contains.
Contains(buf, s) == \E k \in 0..(Len(buf) - Len(s)) : SubSeq(buf, k + 1, k + Len(s)) = s

\* The checks of the two files before anything is sent of them.
Refused(file) ==
  /\ ~opt.raw
  /\ \/ files[file].bytes < MinFile
     \/ file = 1 /\ files[1].expected > MaxPayload + HeaderBytes

\* Faulty variant: the reader serves -monitor only.
StartsReaderForMonitor == opt.monitor
StartsReader == opt.monitor \/ opt.wait \/ opt.verbose

RomState == {"boot", "stage1", "caliptra", "stage2", "app"}
Location == {"start", "wait", "drain", "send", "open2", "wait2", "send2", "monitor",
             "join", "done", "failed"}

\* What the ROM does when it takes the first file, and the header it reads.
First == IF opt.soc = "ast2700-app" THEN "stage2" ELSE "stage1"
Announced == IF rom = "stage2" /\ opt.stage2 THEN files[2].expected ELSE files[1].expected

TypeOK ==
  /\ opt \in Options /\ files \in Files
  /\ pc \in Location /\ sent \in Nat
  /\ pc = "send" => sent <= files[1].bytes
  /\ pc \in {"wait2", "send2"} => sent <= files[2].bytes
  /\ rx \in {"off", "on", "ended"} /\ stop \in BOOLEAN
  /\ rx # "off" => StartsReader
  /\ Len(wire) <= WireDepth /\ cycles \in 0..MaxCycles
  /\ rom \in RomState /\ misled \in BOOLEAN
  /\ rom \in {"stage1", "stage2"} => taken < Announced

\* The port is open and the file read; the board is anywhere.
Init ==
  /\ opt \in Options /\ files \in Files
  /\ pc = "start" /\ sent = 0
  /\ rx = "off" /\ stop = FALSE /\ rxBuf = <<>>
  /\ line = <<>> /\ wire = <<>>
  /\ rom \in {"boot", "stage1"} \cup (IF opt.soc = "ast1060" THEN {} ELSE {"caliptra", "stage2"})
  /\ taken = 0 /\ cycles = 0 /\ log = <<>> /\ misled = FALSE

----------------------------------------------------------------------------
(* main *)

Start ==
  /\ pc = "start"
  /\ IF Refused(1) THEN pc' = "failed" /\ UNCHANGED rx
     ELSE /\ pc' = IF opt.wait THEN "wait" ELSE "drain"
          /\ rx' = IF StartsReader THEN "on" ELSE "off"
  /\ UNCHANGED <<opt, files, sent, stop, rxBuf, line, wire, board, misled>>

\* One poll that finds the prompt, or the deadline.
Await(here, prompt, next) ==
  /\ pc = here
  /\ \/ Contains(rxBuf, prompt) /\ pc' = next
     \/ pc' = "failed"
  /\ UNCHANGED <<opt, files, sent, reader, line, wire, board, misled>>

Wait == Await("wait", Ready(opt.soc), "send")

\* The drain reads until a read times out; it shares the port with the reader.
\* What is sent after it finds the ROM waiting or is lost.
Drain ==
  /\ pc = "drain"
  /\ \/ /\ line = <<>> /\ pc' = "send" /\ misled' = (misled \/ rom # First)
        /\ UNCHANGED line
     \/ /\ line # <<>> /\ UNCHANGED <<pc, misled>>
        /\ \E n \in 1..Len(line) : line' = SubSeq(line, n + 1, Len(line))
  /\ UNCHANGED <<opt, files, sent, reader, wire, board>>

\* Faulty variant: a write counts for the whole chunk.
CountChunk(n, chunk) == sent + chunk
\* sent += n.
Count(n, chunk) == sent + n

\* One chunk; write may take fewer bytes than it was given.
SendChunk(here, file) ==
  /\ pc = here /\ sent < files[file].bytes
  /\ LET left == files[file].bytes - sent
         chunk == IF opt.chunk < left THEN opt.chunk ELSE left
     IN \E n \in (IF chunk = 0 THEN {0} ELSE 1..chunk) :
          /\ Len(wire) + n <= WireDepth
          /\ wire' = wire \o [k \in 1..n |-> <<file, sent + k>>]
          /\ sent' = Count(n, chunk)
  /\ UNCHANGED <<opt, files, pc, reader, line, board, misled>>

\* The write fails, or the deadline of the first transfer has passed.
SendFails(here, file) ==
  /\ pc = here /\ sent < files[file].bytes
  /\ pc' = "failed"
  /\ UNCHANGED <<opt, files, sent, reader, line, wire, board, misled>>

AfterSending ==
  CASE opt.monitor -> "monitor" [] ~opt.monitor /\ (opt.wait \/ opt.verbose) -> "join"
    [] OTHER -> "done"

Sent(here, file) ==
  /\ pc = here /\ sent >= files[file].bytes
  /\ pc' = IF file = 1 /\ opt.stage2 THEN "open2" ELSE AfterSending
  /\ UNCHANGED <<opt, files, sent, reader, line, wire, board, misled>>

\* Faulty variant: the counter of the first transfer is not reset.
OpenStage2WithoutReset ==
  /\ pc = "open2"
  /\ pc' \in IF Refused(2) THEN {"failed"} ELSE {"wait2", "failed"}
  /\ UNCHANGED <<opt, files, sent, reader, line, wire, board, misled>>

OpenStage2 ==
  /\ pc = "open2"
  /\ pc' \in IF Refused(2) THEN {"failed"} ELSE {"wait2", "failed"}
  /\ sent' = 0
  /\ UNCHANGED <<opt, files, reader, line, wire, board, misled>>

U2Ready == Ready("ast2700-app")
WaitStage2 == Await("wait2", U2Ready, "send2")

Monitor ==
  /\ pc = "monitor"
  /\ pc' = "join"
  /\ UNCHANGED <<opt, files, sent, reader, line, wire, board, misled>>

\* close(rxStop), then <-rxDone.
Join ==
  /\ pc = "join"
  /\ stop' = TRUE
  /\ pc' = IF rx = "ended" THEN "done" ELSE "join"
  /\ UNCHANGED <<opt, files, sent, rx, rxBuf, line, wire, board, misled>>

SendFirst == SendChunk("send", 1) \/ Sent("send", 1)
SendSecond == SendChunk("send2", 2) \/ Sent("send2", 2)
Fails == SendFails("send", 1) \/ SendFails("send2", 2)
Exits == pc \in {"done", "failed"} /\ UNCHANGED loadVars

----------------------------------------------------------------------------
(* The reader. *)

\* Before each read: rxStop is closed.
ReaderStops ==
  /\ rx = "on" /\ stop
  /\ rx' = "ended"
  /\ UNCHANGED <<loader, stop, rxBuf, line, wire, board, misled>>

\* The port is gone.
ReaderEof ==
  /\ rx = "on"
  /\ rx' = "ended"
  /\ UNCHANGED <<loader, stop, rxBuf, line, wire, board, misled>>

Read ==
  /\ rx = "on" /\ line # <<>>
  /\ \E n \in 1..Len(line) :
       rxBuf' = rxBuf \o SubSeq(line, 1, n) /\ line' = SubSeq(line, n + 1, Len(line))
  /\ UNCHANGED <<loader, rx, stop, wire, board, misled>>

----------------------------------------------------------------------------
(* The board. *)

\* "Fc U1", "Ff U2", or the "U" of an AST1060.
RomPrompts ==
  /\ \/ /\ rom = "boot" /\ rom' = "stage1"
        /\ line' = line \o Ready(IF opt.soc = "ast1060" THEN "ast1060" ELSE "ast2700")
     \/ /\ rom = "caliptra" /\ rom' = "stage2"
        /\ line' = line \o Ready("ast2700-app")
  /\ taken' = 0
  /\ UNCHANGED <<loader, reader, wire, cycles, log, misled>>

\* A byte arrives; the ROM loses those it does not wait for.
Deliver ==
  /\ wire # <<>>
  /\ wire' = Tail(wire)
  /\ log' = Append(log, [byte |-> Head(wire), rom |-> rom])
  /\ IF rom \notin {"stage1", "stage2"} THEN UNCHANGED <<rom, taken>>
     ELSE IF taken + 1 < Announced THEN taken' = taken + 1 /\ UNCHANGED rom
     ELSE /\ taken' = 0
          /\ rom' = IF rom = "stage1" /\ opt.soc # "ast1060" THEN "caliptra" ELSE "app"
  /\ UNCHANGED <<loader, reader, line, cycles, misled>>

PowerCycle ==
  /\ cycles < MaxCycles /\ pc \notin {"done", "failed"}
  /\ cycles' = cycles + 1
  /\ rom' = "boot" /\ taken' = 0
  /\ misled' = (misled \/ line # <<>> \/ rxBuf # <<>> \/ pc \notin {"start", "wait", "drain"})
  /\ UNCHANGED <<loader, reader, line, wire, log>>

----------------------------------------------------------------------------
Loads ==
  Start \/ Wait \/ Drain \/ SendFirst \/ OpenStage2 \/ WaitStage2 \/ SendSecond
    \/ Monitor \/ Join
Next ==
  \/ Loads \/ Fails \/ Exits
  \/ ReaderStops \/ ReaderEof \/ Read
  \/ RomPrompts \/ Deliver \/ PowerCycle

\* The goroutines are scheduled, timers fire, reads time out after 100 ms and
\* the line empties at its bit rate.
Fairness ==
  /\ WF_loadVars(Loads)
  /\ WF_loadVars(ReaderStops) /\ WF_loadVars(Read)
  /\ WF_loadVars(Deliver)

Spec == Init /\ [][Next]_loadVars /\ Fairness

----------------------------------------------------------------------------
Bytes(file) == [k \in 1..files[file].bytes |-> <<file, k>>]
Arrived == [k \in DOMAIN log |-> log[k].byte]
FirstFits == files[1].bytes <= files[1].expected

(* A loader that ends well has sent every byte of its files once and in      *)
(* order, whatever the command line, the files, partial writes and the       *)
(* board's power cycles.  What the header of the first file announces has    *)
(* come to a ROM that was taking the first file, and what the header of the  *)
(* second announces to one that was taking the second, unless the first file *)
(* is longer than it says, which the loader only warns of.  This holds while *)
(* the ROM is where the loader takes it to be.  It is not if the board is    *)
(* power-cycled after it gave a prompt or was sent something (rxBuf is never *)
(* cleared), or if a loader without -wait begins before the ROM waits.       *)
ImagesArriveWhole ==
  /\ pc = "done" => Arrived \o wire = Bytes(1) \o (IF opt.stage2 THEN Bytes(2) ELSE <<>>)
  /\ ~misled => \A k \in DOMAIN log :
       LET file == log[k].byte[1]
       IN log[k].byte[2] <= files[file].expected =>
            IF file = 1 THEN log[k].rom = First ELSE FirstFits => log[k].rom = "stage2"

(* The loader ends, with or without success: no prompt that never comes, no  *)
(* full line and no join with the reader keeps it for ever, on any command   *)
(* line but a chunk of 0.  The target must pause for a drain to end.         *)
LoaderEnds == opt.chunk > 0 => <>(pc \in {"done", "failed"})
=============================================================================

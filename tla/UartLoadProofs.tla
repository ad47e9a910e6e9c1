--------------------------- MODULE UartLoadProofs ---------------------------
(***************************************************************************)
(* The serial loader sends every byte of its files once and in order, and    *)
(* brings each file to the ROM that waits for it, for every command line,    *)
(* files of any length, any chunk and line, and any way in which writes and  *)
(* reads are cut.  The invariant ties four places together: how far main is, *)
(* which bytes are on the line or at the ROM, which prompts may be heard,    *)
(* and what the ROM does.                                                    *)
(***************************************************************************)
EXTENDS UartLoad, SequenceTheorems, TLAPS

\* Where the byte with number j of everything that is sent comes from.
Stream(j) == IF j <= files[1].bytes THEN <<1, j>> ELSE <<2, j - files[1].bytes>>
\* Bytes written to the port, and how many the command line asks for.
Total == Len(log) + Len(wire)
All == files[1].bytes + (IF opt.stage2 THEN files[2].bytes ELSE 0)
\* The characters of prompts that the reader has or may still get.
Marks == {"U", "1", "2"}
Seen == {rxBuf[k] : k \in DOMAIN rxBuf} \cup {line[k] : k \in DOMAIN line}
\* Sending has begun, and has come to the second file.
Begun == pc \notin {"start", "wait", "drain", "failed"} \/ Total > 0
Second == pc = "send2" \/ Total > files[1].bytes

\* Types, with the counter at zero wherever a transfer is about to begin.
Typed ==
  /\ TypeOK
  /\ taken \in Nat
  /\ wire \in Seq({1, 2} \X Nat)
  /\ log \in Seq([byte : {1, 2} \X Nat, rom : RomState])
  /\ line \in Seq(Marks) /\ rxBuf \in Seq(Marks)
  /\ pc \in {"start", "wait", "drain", "wait2"} => sent = 0
  /\ pc \in {"open2", "wait2", "send2"} => opt.stage2

\* What was written is the files' bytes from the first one on, and where main
\* is tells how many.
BytesInv ==
  /\ \A k \in DOMAIN log : log[k].byte = Stream(k)
  /\ \A k \in DOMAIN wire : wire[k] = Stream(Len(log) + k)
PlaceInv ==
  /\ Total <= All
  /\ pc \in {"start", "wait", "drain"} => Total = 0
  /\ pc = "send" => Total = sent
  /\ pc \in {"open2", "wait2"} => Total = files[1].bytes
  /\ pc = "send2" => Total = files[1].bytes + sent
  /\ pc \in {"monitor", "join", "done"} => Total = All

\* A prompt is heard only once the ROM has come to give it.
SeenInv ==
  /\ rom = "boot" => Seen = {}
  /\ rom \in {"boot", "stage1", "caliptra"} => "2" \notin Seen
  /\ opt.soc = "ast1060" => "2" \notin Seen /\ rom \notin {"caliptra", "stage2"}
  /\ Total = 0 => /\ taken = 0 /\ rom # "app"
                  /\ rom \in {"caliptra", "stage2"} => "1" \notin Seen

\* Once sending has begun, what came says what the ROM does.
Taking(state, after) == rom = state /\ taken = Len(log) - after
RomInv ==
  /\ Begun => \/ Taking(First, 0) /\ Len(log) < files[1].expected
              \/ Len(log) >= files[1].expected
  /\ Begun /\ opt.stage2 /\ opt.soc = "ast2700" /\ FirstFits
       /\ Len(log) >= files[1].expected =>
         \/ rom = "caliptra" /\ Total = files[1].bytes
         \/ Taking("stage2", files[1].bytes)
         \/ rom = "app" /\ Len(log) >= files[1].bytes + files[2].expected
  /\ Second /\ FirstFits =>
         /\ opt.stage2 /\ opt.soc = "ast2700"
         /\ Len(log) >= files[1].expected /\ rom # "caliptra"

ArrivalInv ==
  \A k \in DOMAIN log :
    /\ k <= files[1].bytes /\ k <= files[1].expected => log[k].rom = First
    /\ FirstFits /\ files[1].bytes < k /\ k <= files[1].bytes + files[2].expected
         => log[k].rom = "stage2"

LoadInv ==
  Typed /\ BytesInv /\ PlaceInv /\ (~misled => SeenInv /\ RomInv /\ ArrivalInv)

-----------------------------------------------------------------------------
(* Constants and sequences.                                                 *)

LEMMA Lengths ==
  ASSUME Typed
  PROVE  /\ files[1].bytes \in Nat /\ files[1].expected \in Nat \ {0}
         /\ files[2].bytes \in Nat /\ files[2].expected \in Nat \ {0}
         /\ opt.stage2 \in BOOLEAN /\ opt.wait \in BOOLEAN /\ opt.chunk \in Nat
         /\ opt.soc \in {"ast1060", "ast2700", "ast2700-app"}
         /\ opt.stage2 => opt.soc # "ast2700-app"
         /\ Len(log) \in Nat /\ Len(wire) \in Nat
         /\ All \in Nat /\ files[1].bytes <= All
<1>1. opt \in Options /\ files \in Files
  BY DEF Typed, TypeOK
<1>2. /\ files[1].bytes \in Nat /\ files[1].expected \in Nat \ {0}
      /\ files[2].bytes \in Nat /\ files[2].expected \in Nat \ {0}
  BY <1>1, FileAssumption
<1>3. /\ opt.stage2 \in BOOLEAN /\ opt.wait \in BOOLEAN /\ opt.chunk \in Nat
      /\ opt.soc \in {"ast1060", "ast2700", "ast2700-app"}
      /\ opt.stage2 => opt.soc # "ast2700-app"
  BY <1>1, OptionAssumption
<1>4. Len(log) \in Nat /\ Len(wire) \in Nat
  BY DEF Typed
<1> QED
  BY <1>2, <1>3, <1>4 DEF All

\* The characters of a prompt that the reader holds are among those seen.
LEMMA HeldIsSeen ==
  ASSUME Typed, NEW P \in Seq(Marks), Contains(rxBuf, P), NEW i \in 1..Len(P)
  PROVE  P[i] \in Seen
<1>1. PICK k \in 0..(Len(rxBuf) - Len(P)) : SubSeq(rxBuf, k + 1, k + Len(P)) = P
  BY DEF Contains
<1>2. rxBuf \in Seq(Marks) /\ Len(P) \in Nat /\ Len(rxBuf) \in Nat
  BY DEF Typed
<1>3. k + i \in 1..Len(rxBuf)
  BY <1>2
<1>4. SubSeq(rxBuf, k + 1, k + Len(P))[i] = rxBuf[k + i]
  BY <1>2, <1>3
<1>5. k + i \in DOMAIN rxBuf
  BY <1>2, <1>3
<1> QED
  BY <1>1, <1>4, <1>5 DEF Seen

LEMMA ReadyIs ==
  /\ Ready("ast1060") \in Seq(Marks) /\ Ready("ast2700") \in Seq(Marks)
  /\ Ready("ast2700-app") \in Seq(Marks)
  /\ Len(Ready("ast1060")) = 1 /\ Ready("ast1060")[1] = "U"
  /\ Len(Ready("ast2700")) = 2 /\ Ready("ast2700")[2] = "1"
  /\ Len(Ready("ast2700-app")) = 2 /\ Ready("ast2700-app")[2] = "2"
  /\ \A k \in DOMAIN Ready("ast1060") : Ready("ast1060")[k] = "U"
  /\ \A k \in DOMAIN Ready("ast2700") : Ready("ast2700")[k] \in {"U", "1"}
  /\ \A k \in DOMAIN Ready("ast2700-app") : Ready("ast2700-app")[k] \in {"U", "2"}
BY DEF Ready, Marks

\* Sequences that are joined or cut hold no other elements.
LEMMA JoinedHolds ==
  ASSUME NEW S, NEW s \in Seq(S), NEW t \in Seq(S)
  PROVE  {(s \o t)[k] : k \in DOMAIN (s \o t)}
           \subseteq {s[k] : k \in DOMAIN s} \cup {t[k] : k \in DOMAIN t}
<1> SUFFICES ASSUME NEW k \in DOMAIN (s \o t)
             PROVE  \/ \E j \in DOMAIN s : (s \o t)[k] = s[j]
                    \/ \E j \in DOMAIN t : (s \o t)[k] = t[j]
  OBVIOUS
<1>1. /\ DOMAIN (s \o t) = 1..(Len(s) + Len(t)) /\ Len(s) \in Nat /\ Len(t) \in Nat
      /\ DOMAIN s = 1..Len(s) /\ DOMAIN t = 1..Len(t)
  OBVIOUS
<1>2. (s \o t)[k] = IF k <= Len(s) THEN s[k] ELSE t[k - Len(s)]
  BY <1>1, ConcatProperties
<1>3. CASE k <= Len(s)
  <2>1. k \in DOMAIN s
    BY <1>1, <1>3
  <2> QED
    BY <1>2, <1>3, <2>1
<1>4. CASE ~(k <= Len(s))
  <2>1. k - Len(s) \in DOMAIN t
    BY <1>1, <1>4
  <2> QED
    BY <1>2, <1>4, <2>1
<1> QED
  BY <1>3, <1>4

LEMMA CutHolds ==
  ASSUME NEW S, NEW s \in Seq(S), NEW m \in 1..(Len(s) + 1), NEW n \in 0..Len(s)
  PROVE  /\ SubSeq(s, m, n) \in Seq(S)
         /\ {SubSeq(s, m, n)[k] : k \in DOMAIN SubSeq(s, m, n)}
              \subseteq {s[k] : k \in DOMAIN s}
<1>1. SubSeq(s, m, n) \in Seq(S) /\ Len(s) \in Nat /\ DOMAIN s = 1..Len(s)
  OBVIOUS
<1>2. /\ Len(SubSeq(s, m, n)) = IF m <= n THEN n - m + 1 ELSE 0
      /\ DOMAIN SubSeq(s, m, n) = 1..Len(SubSeq(s, m, n))
  OBVIOUS
<1>3. ASSUME NEW k \in DOMAIN SubSeq(s, m, n)
      PROVE  \E j \in DOMAIN s : SubSeq(s, m, n)[k] = s[j]
  <2>1. k \in 1..(n - m + 1) /\ m <= n
    BY <1>2
  <2>2. SubSeq(s, m, n)[k] = s[m + k - 1] /\ m + k - 1 \in DOMAIN s
    BY <1>1, <2>1
  <2> QED
    BY <2>2
<1> QED
  BY <1>1, <1>3

-----------------------------------------------------------------------------
(* What a write, a byte that arrives and a prompt do to the sequences.      *)

LEMMA SendStep ==
  ASSUME Typed, NEW here, NEW file \in {1, 2}, SendChunk(here, file)
  PROVE  \E n \in Nat :
           /\ sent' = sent + n /\ sent + n <= files[file].bytes
           /\ wire' \in Seq({1, 2} \X Nat)
           /\ Len(wire') = Len(wire) + n /\ Len(wire) + n <= WireDepth
           /\ \A k \in 1..(Len(wire) + n) :
                wire'[k] = IF k <= Len(wire) THEN wire[k]
                           ELSE <<file, sent + (k - Len(wire))>>
<1> DEFINE left == files[file].bytes - sent
           chunk == IF opt.chunk < left THEN opt.chunk ELSE left
           more(n) == [k \in 1..n |-> <<file, sent + k>>]
<1>0. /\ files[file].bytes \in Nat /\ sent \in Nat /\ opt.chunk \in Nat
      /\ sent < files[file].bytes /\ wire \in Seq({1, 2} \X Nat)
  BY Lengths DEF Typed, TypeOK, SendChunk
<1>1. PICK n \in (IF chunk = 0 THEN {0} ELSE 1..chunk) :
        /\ Len(wire) + n <= WireDepth
        /\ wire' = wire \o more(n)
        /\ sent' = sent + n
  BY DEF SendChunk, Count
<1>2. left \in Nat /\ chunk \in Nat /\ chunk <= left
  BY <1>0
<1>3. n \in Nat /\ n <= left
  <2> HIDE DEF left, chunk
  <2>1. n \in IF chunk = 0 THEN {0} ELSE 1..chunk
    BY <1>1
  <2> QED
    BY <1>2, <2>1
<1>4. more(n) \in Seq({1, 2} \X Nat) /\ Len(more(n)) = n
  <2>1. \A k \in 1..n : <<file, sent + k>> \in {1, 2} \X Nat
    BY <1>0, <1>3
  <2>2. more(n) \in [1..n -> {1, 2} \X Nat]
    BY <2>1
  <2> HIDE DEF more
  <2> QED
    BY <1>3, <2>2
<1>5. \A k \in 1..n : more(n)[k] = <<file, sent + k>>
  OBVIOUS
<1>6. sent + n <= files[file].bytes
  BY <1>0, <1>3
<1> HIDE DEF more, left, chunk
<1>7. /\ wire \o more(n) \in Seq({1, 2} \X Nat)
      /\ Len(wire \o more(n)) = Len(wire) + n
      /\ \A k \in 1..(Len(wire) + n) :
           (wire \o more(n))[k] = IF k <= Len(wire) THEN wire[k] ELSE more(n)[k - Len(wire)]
  <2> DEFINE u == more(n)
             T == {1, 2} \X Nat
  <2>1. wire \in Seq(T) /\ u \in Seq(T) /\ Len(u) = n
    BY <1>0, <1>4
  <2> HIDE DEF u, T
  <2>2. wire \o u \in Seq(T) /\ Len(wire \o u) = Len(wire) + n
    BY <2>1, ConcatProperties
  <2>3. \A k \in 1..(Len(wire) + n) :
          (wire \o u)[k] = IF k <= Len(wire) THEN wire[k] ELSE u[k - Len(wire)]
    BY <2>1, ConcatProperties
  <2> QED
    BY <2>2, <2>3 DEF u, T
<1>8. ASSUME NEW k \in 1..(Len(wire) + n)
      PROVE  wire'[k] = IF k <= Len(wire) THEN wire[k]
                        ELSE <<file, sent + (k - Len(wire))>>
  <2>1. Len(wire) \in Nat
    BY <1>0
  <2>2. ~(k <= Len(wire)) => k - Len(wire) \in 1..n
    BY <1>3, <2>1
  <2> QED
    BY <1>1, <1>5, <1>7, <2>2
<1> QED
  BY <1>1, <1>3, <1>6, <1>7, <1>8

LEMMA DeliverStep ==
  ASSUME Typed, Deliver
  PROVE  /\ Len(wire) > 0 /\ Len(wire') = Len(wire) - 1
         /\ wire' \in Seq({1, 2} \X Nat)
         /\ \A k \in 1..Len(wire') : wire'[k] = wire[k + 1]
         /\ log' \in Seq([byte : {1, 2} \X Nat, rom : RomState])
         /\ Len(log') = Len(log) + 1
         /\ \A k \in 1..Len(log) : log'[k] = log[k]
         /\ log'[Len(log) + 1].byte = wire[1]
         /\ log'[Len(log) + 1].rom = rom
<1> DEFINE T == {1, 2} \X Nat
           entry == [byte |-> Head(wire), rom |-> rom]
<1>1. /\ wire \in Seq(T) /\ wire # <<>> /\ wire' = Tail(wire) /\ log' = Append(log, entry)
      /\ log \in Seq([byte : T, rom : RomState]) /\ rom \in RomState
  BY DEF Typed, TypeOK, Deliver
<1> HIDE DEF T
<1>2. /\ Head(wire) \in T /\ wire' \in Seq(T) /\ Len(wire') = Len(wire) - 1
      /\ \A k \in 1..Len(wire') : wire'[k] = wire[k + 1]
  BY <1>1, HeadTailProperties
<1>3. Len(wire) > 0 /\ Head(wire) = wire[1]
  BY <1>1
<1>4. entry \in [byte : T, rom : RomState]
  BY <1>1, <1>2
<1>5. entry.byte = wire[1] /\ entry.rom = rom
  BY <1>3
<1> HIDE DEF entry
<1>6. /\ log' \in Seq([byte : T, rom : RomState]) /\ Len(log') = Len(log) + 1
      /\ \A k \in 1..Len(log) : log'[k] = log[k]
      /\ log'[Len(log) + 1] = entry
  BY <1>1, <1>4, AppendProperties
<1> QED
  BY <1>2, <1>3, <1>5, <1>6 DEF T
-----------------------------------------------------------------------------
(* Types.                                                                   *)

\* The part of Typed that only the line and the ROM change, and the rest.
BoardTyped ==
  /\ Len(wire) <= WireDepth /\ cycles \in 0..MaxCycles
  /\ rom \in RomState /\ misled \in BOOLEAN
  /\ rom \in {"stage1", "stage2"} => taken < Announced
  /\ taken \in Nat
  /\ wire \in Seq({1, 2} \X Nat)
  /\ log \in Seq([byte : {1, 2} \X Nat, rom : RomState])
  /\ line \in Seq(Marks) /\ rxBuf \in Seq(Marks)
HostTyped ==
  /\ opt \in Options /\ files \in Files
  /\ pc \in Location /\ sent \in Nat
  /\ pc = "send" => sent <= files[1].bytes
  /\ pc \in {"wait2", "send2"} => sent <= files[2].bytes
  /\ rx \in {"off", "on", "ended"} /\ stop \in BOOLEAN
  /\ rx # "off" => StartsReader
  /\ pc \in {"start", "wait", "drain", "wait2"} => sent = 0
  /\ pc \in {"open2", "wait2", "send2"} => opt.stage2

LEMMA TypedParts ==
  /\ Typed <=> BoardTyped /\ HostTyped
  /\ Typed' <=> BoardTyped' /\ HostTyped'
<1>1. Typed <=> BoardTyped /\ HostTyped
  BY Zenon DEF Typed, TypeOK, BoardTyped, HostTyped
<1>2. Typed' <=> BoardTyped' /\ HostTyped'
  BY Zenon DEF Typed, TypeOK, BoardTyped, HostTyped
<1> QED
  BY <1>1, <1>2

LEMMA AfterSendingIs == AfterSending \in {"monitor", "join", "done"}
BY DEF AfterSending

LEMMA TypedNext ==
  ASSUME Typed, [Next]_loadVars
  PROVE  Typed'
<1> USE DEF Location, RomState
<1>0. BoardTyped /\ HostTyped
  BY TypedParts
<1>1. ASSUME UNCHANGED <<opt, files, line, wire, board, misled>>, UNCHANGED rxBuf
      PROVE  BoardTyped'
  BY <1>0, <1>1 DEF BoardTyped, board, Announced
<1>2. ASSUME UNCHANGED <<loader, rx, stop>>
      PROVE  HostTyped'
  BY <1>0, <1>2 DEF HostTyped, loader, StartsReader
<1>3. CASE Start
  <2>1. BoardTyped'
    BY <1>1, <1>3 DEF Start
  <2>2. HostTyped'
    BY <1>0, <1>3, Lengths DEF HostTyped, Start, StartsReader
  <2> QED
    BY <2>1, <2>2, TypedParts
<1>4. CASE Wait \/ WaitStage2
  <2>1. BoardTyped'
    BY <1>1, <1>4 DEF Wait, WaitStage2, Await, reader
  <2>2. HostTyped'
    BY <1>0, <1>4, Lengths DEF HostTyped, Wait, WaitStage2, Await, reader, StartsReader
  <2> QED
    BY <2>1, <2>2, TypedParts
<1>5. CASE Drain
  <2>1. line' \in Seq(Marks)
    <3>1. \A n \in 1..Len(line) : SubSeq(line, n + 1, Len(line)) \in Seq(Marks)
      BY <1>0 DEF BoardTyped
    <3>2. line' = line \/ \E n \in 1..Len(line) : line' = SubSeq(line, n + 1, Len(line))
      BY <1>5 DEF Drain
    <3> QED
      BY <1>0, <3>1, <3>2 DEF BoardTyped
  <2>2. BoardTyped'
    <3>1. UNCHANGED <<opt, files, wire, board>> /\ UNCHANGED rxBuf /\ misled' \in BOOLEAN
      BY <1>0, <1>5 DEF Drain, reader, BoardTyped
    <3> QED
      BY <1>0, <2>1, <3>1 DEF BoardTyped, board, Announced
  <2>3. HostTyped'
    BY <1>0, <1>5, Lengths DEF HostTyped, Drain, reader, StartsReader
  <2> QED
    BY <2>2, <2>3, TypedParts
<1>6. ASSUME NEW here, NEW file \in {1, 2}, SendChunk(here, file),
             <<here, file>> \in {<<"send", 1>>, <<"send2", 2>>}
      PROVE  Typed'
  <2>1. PICK n \in Nat :
           /\ sent' = sent + n /\ sent + n <= files[file].bytes
           /\ wire' \in Seq({1, 2} \X Nat)
           /\ Len(wire') = Len(wire) + n /\ Len(wire) + n <= WireDepth
    BY <1>6, SendStep
  <2>2. pc = here /\ UNCHANGED <<opt, files, pc, reader, line, board, misled>>
    BY <1>6 DEF SendChunk
  <2>3. BoardTyped'
    BY <1>0, <2>1, <2>2 DEF BoardTyped, reader, board, Announced
  <2>4. HostTyped'
    BY <1>0, <1>6, <2>1, <2>2, Lengths DEF HostTyped, reader, StartsReader
  <2> QED
    BY <2>3, <2>4, TypedParts
<1>7. CASE Sent("send", 1) \/ Sent("send2", 2)
  <2>1. BoardTyped'
    BY <1>1, <1>7 DEF Sent, reader
  <2>2. HostTyped'
    BY <1>0, <1>7, Lengths, AfterSendingIs DEF HostTyped, Sent, reader, StartsReader
  <2> QED
    BY <2>1, <2>2, TypedParts
<1>8. CASE OpenStage2
  <2>1. BoardTyped'
    BY <1>1, <1>8 DEF OpenStage2, reader
  <2>2. HostTyped'
    BY <1>0, <1>8, Lengths DEF HostTyped, OpenStage2, reader, StartsReader
  <2> QED
    BY <2>1, <2>2, TypedParts
<1>9. CASE Monitor \/ Join \/ Fails
  <2>1. BoardTyped'
    BY <1>1, <1>9 DEF Monitor, Join, Fails, SendFails, reader
  <2>2. HostTyped'
    BY <1>0, <1>9, Lengths DEF HostTyped, Monitor, Join, Fails, SendFails, reader, StartsReader
  <2> QED
    BY <2>1, <2>2, TypedParts
<1>10. CASE ReaderStops \/ ReaderEof
  <2>1. BoardTyped'
    BY <1>1, <1>10 DEF ReaderStops, ReaderEof, loader
  <2>2. HostTyped'
    BY <1>0, <1>10 DEF HostTyped, ReaderStops, ReaderEof, loader, StartsReader
  <2> QED
    BY <2>1, <2>2, TypedParts
<1>11. CASE Read
  <2>1. line' \in Seq(Marks) /\ rxBuf' \in Seq(Marks)
    <3>1. line \in Seq(Marks) /\ rxBuf \in Seq(Marks)
      BY <1>0 DEF BoardTyped
    <3>2. PICK n \in 1..Len(line) : rxBuf' = rxBuf \o SubSeq(line, 1, n)
                                   /\ line' = SubSeq(line, n + 1, Len(line))
      BY <1>11 DEF Read
    <3>3. SubSeq(line, 1, n) \in Seq(Marks) /\ SubSeq(line, n + 1, Len(line)) \in Seq(Marks)
      BY <3>1
    <3> QED
      BY <3>1, <3>2, <3>3, ConcatProperties
  <2>2. BoardTyped'
    BY <1>0, <1>11, <2>1 DEF BoardTyped, Read, loader, board, Announced
  <2>3. HostTyped'
    BY <1>2, <1>11 DEF Read
  <2> QED
    BY <2>2, <2>3, TypedParts
<1>12. CASE RomPrompts
  <2>1. line' \in Seq(Marks)
    <3>1. Ready("ast1060") \in Seq(Marks) /\ Ready("ast2700") \in Seq(Marks)
          /\ Ready("ast2700-app") \in Seq(Marks)
      BY DEF Ready, Marks
    <3>2. \/ line' = line \o Ready("ast1060") \/ line' = line \o Ready("ast2700")
          \/ line' = line \o Ready("ast2700-app")
      BY <1>12 DEF RomPrompts
    <3>3. line \in Seq(Marks)
      BY <1>0 DEF BoardTyped
    <3> QED
      BY <3>1, <3>2, <3>3, ConcatProperties
  <2>2. UNCHANGED <<opt, files>> /\ Announced' \in Nat \ {0}
    BY <1>12, Lengths DEF RomPrompts, loader, Announced
  <2>3. /\ rom' \in RomState /\ taken' = 0
        /\ UNCHANGED <<wire, log, cycles, misled>> /\ UNCHANGED rxBuf
    BY <1>12 DEF RomPrompts, reader
  <2>4. BoardTyped'
    BY <1>0, <2>1, <2>2, <2>3 DEF BoardTyped
  <2>5. HostTyped'
    BY <1>2, <1>12 DEF RomPrompts, reader
  <2> QED
    BY <2>4, <2>5, TypedParts
<1>13. CASE Deliver
  <2>1. /\ Len(wire') = Len(wire) - 1 /\ wire' \in Seq({1, 2} \X Nat)
        /\ log' \in Seq([byte : {1, 2} \X Nat, rom : RomState])
    BY <1>13, DeliverStep
  <2>2. UNCHANGED <<opt, files, line, cycles, misled>> /\ UNCHANGED rxBuf
    BY <1>13 DEF Deliver, loader, reader
  <2>3. /\ rom' \in RomState /\ taken' \in Nat
        /\ rom' \in {"stage1", "stage2"} => taken' < Announced'
    BY <1>0, <1>13, <2>2 DEF Deliver, BoardTyped, Announced
  <2>4. Len(wire) \in Nat /\ WireDepth \in Nat
    BY Lengths, LineAssumption
  <2>5. BoardTyped'
    BY <1>0, <2>1, <2>2, <2>3, <2>4 DEF BoardTyped
  <2>6. HostTyped'
    BY <1>2, <1>13 DEF Deliver, reader
  <2> QED
    BY <2>5, <2>6, TypedParts
<1>14. CASE PowerCycle
  <2>1. BoardTyped'
    BY <1>0, <1>14, LineAssumption DEF BoardTyped, PowerCycle, loader, reader, Announced
  <2>2. HostTyped'
    BY <1>2, <1>14 DEF PowerCycle, reader
  <2> QED
    BY <2>1, <2>2, TypedParts
<1>15. CASE UNCHANGED loadVars
  BY <1>1, <1>2, <1>15, TypedParts DEF loadVars, loader, reader
<1>16. SendFirst \/ SendSecond => Typed'
  BY <1>6, <1>7 DEF SendFirst, SendSecond
<1> QED
  BY <1>3, <1>4, <1>5, <1>8, <1>9, <1>10, <1>11, <1>12, <1>13, <1>14, <1>15, <1>16
     DEF Next, Loads, Exits
-----------------------------------------------------------------------------
(* The invariant holds at first, and each step keeps it.                    *)

LEMMA LoadInit == Init => LoadInv
<1> SUFFICES ASSUME Init PROVE LoadInv
  OBVIOUS
<1>1. /\ opt \in Options /\ files \in Files /\ pc = "start" /\ sent = 0 /\ taken = 0
      /\ line = <<>> /\ wire = <<>> /\ rxBuf = <<>> /\ log = <<>> /\ rx = "off"
      /\ cycles = 0 /\ misled = FALSE /\ stop = FALSE
  BY DEF Init
<1>2. /\ rom \in {"boot", "stage1", "caliptra", "stage2"}
      /\ opt.soc = "ast1060" => rom \in {"boot", "stage1"}
  BY DEF Init
<1>3. Announced \in Nat \ {0}
  BY <1>1, FileAssumption DEF Announced
<1>4. BoardTyped
  <2>1. /\ wire \in Seq({1, 2} \X Nat) /\ Len(wire) = 0
        /\ log \in Seq([byte : {1, 2} \X Nat, rom : RomState])
        /\ line \in Seq(Marks) /\ rxBuf \in Seq(Marks)
    <3>1. Len(<<>>) = 0 /\ \A S : <<>> \in Seq(S)
      BY EmptySeq
    <3> QED
      BY <1>1, <3>1, Zenon
  <2>2. 0 <= WireDepth /\ 0 \in 0..MaxCycles /\ 0 < Announced /\ 0 \in Nat
    BY <1>3, LineAssumption
  <2>3. rom \in RomState
    BY <1>2 DEF RomState
  <2> QED
    BY <1>1, <2>1, <2>2, <2>3, Zenon DEF BoardTyped
<1>5. HostTyped
  BY <1>1 DEF HostTyped, Location
<1>6. Typed
  BY <1>4, <1>5, TypedParts
<1>7. Total = 0 /\ Seen = {} /\ ~Begun
  BY <1>1 DEF Total, Seen, Begun
<1>8. BytesInv /\ ArrivalInv
  BY <1>1 DEF BytesInv, ArrivalInv
<1>9. PlaceInv
  BY <1>1, <1>6, <1>7, Lengths DEF PlaceInv
<1>10. SeenInv
  BY <1>1, <1>2, <1>7 DEF SeenInv
<1>11. RomInv
  <2>1. ~Second
    BY <1>1, <1>6, <1>7, Lengths DEF Second
  <2> QED
    BY <1>7, <2>1 DEF RomInv
<1> QED
  BY <1>6, <1>8, <1>9, <1>10, <1>11 DEF LoadInv

\* Once misled, always misled.
LEMMA MisledStays ==
  ASSUME Typed, [Next]_loadVars, ~misled'
  PROVE  ~misled
<1> DEFINE Kept == misled => misled'
<1>1. Start \/ Wait \/ Drain \/ OpenStage2 \/ WaitStage2 \/ Monitor \/ Join => Kept
  BY DEF Start, Wait, Drain, OpenStage2, WaitStage2, Monitor, Join, Await
<1>2. SendFirst \/ SendSecond \/ Fails => Kept
  BY DEF SendFirst, SendSecond, Fails, SendChunk, Sent, SendFails
<1>3. ReaderStops \/ ReaderEof \/ Read \/ RomPrompts \/ Deliver \/ PowerCycle => Kept
  BY DEF ReaderStops, ReaderEof, Read, RomPrompts, Deliver, PowerCycle
<1>4. UNCHANGED loadVars => Kept
  BY DEF loadVars
<1> HIDE DEF Kept
<1>5. Kept
  BY <1>1, <1>2, <1>3, <1>4, Zenon DEF Next, Loads, Exits
<1> QED
  BY <1>5 DEF Kept

\* Steps that neither send nor deliver a byte.
Quiet ==
  \/ Start \/ Wait \/ Drain \/ OpenStage2 \/ WaitStage2 \/ Monitor \/ Join
  \/ Sent("send", 1) \/ Sent("send2", 2) \/ Fails
  \/ ReaderStops \/ ReaderEof \/ Read \/ UNCHANGED loadVars
Ticks == RomPrompts \/ PowerCycle

LEMMA QuietKeeps ==
  ASSUME Quiet
  PROVE  UNCHANGED <<opt, files, wire, log, rom, taken>>
<1>1. Start \/ Wait \/ Drain \/ OpenStage2 \/ WaitStage2 \/ Monitor \/ Join =>
        UNCHANGED <<opt, files, wire, log, rom, taken>>
  BY DEF Start, Wait, Drain, OpenStage2, WaitStage2, Monitor, Join, Await, board
<1>2. Sent("send", 1) \/ Sent("send2", 2) \/ Fails =>
        UNCHANGED <<opt, files, wire, log, rom, taken>>
  BY DEF Sent, Fails, SendFails, board
<1>3. ReaderStops \/ ReaderEof \/ Read \/ UNCHANGED loadVars =>
        UNCHANGED <<opt, files, wire, log, rom, taken>>
  BY DEF ReaderStops, ReaderEof, Read, loader, board, loadVars
<1> QED
  BY <1>1, <1>2, <1>3 DEF Quiet

LEMMA TicksKeep ==
  ASSUME Ticks
  PROVE  UNCHANGED <<opt, files, wire, log>> /\ UNCHANGED <<pc, sent, rxBuf>>
BY DEF Ticks, RomPrompts, PowerCycle, loader, reader

\* What stays true while no byte moves.
LEMMA Still ==
  ASSUME UNCHANGED <<opt, files, wire, log>>
  PROVE  /\ BytesInv => BytesInv'
         /\ ArrivalInv => ArrivalInv'
         /\ Total' = Total /\ All' = All
<1>1. Total' = Total /\ All' = All
  BY DEF Total, All
<1>2. (BytesInv => BytesInv') /\ (ArrivalInv => ArrivalInv')
  BY DEF BytesInv, ArrivalInv, Stream, First, FirstFits
<1> QED
  BY <1>1, <1>2

\* How far main is tells how much was written, on every command line.
LEMMA QuietPlace ==
  ASSUME Typed, PlaceInv, Quiet
  PROVE  PlaceInv'
<1>1. UNCHANGED <<opt, files, wire, log>>
  BY QuietKeeps
<1>2. Total' = Total /\ All' = All /\ files'[1].bytes = files[1].bytes
  BY <1>1, Still
<1>3. Total \in Nat /\ Total <= All
  BY Lengths DEF PlaceInv, Total
<1>4. CASE Start
  <2>1. pc = "start" /\ pc' \in {"wait", "drain", "failed"} /\ sent' = sent
    BY <1>4 DEF Start
  <2> QED
    BY <1>2, <1>3, <2>1 DEF PlaceInv
<1>5. CASE Wait \/ Drain
  <2>1. pc \in {"wait", "drain"} /\ pc' \in {pc, "send", "failed"} /\ sent' = sent
    BY <1>5 DEF Wait, Await, Drain
  <2>2. sent = 0
    BY <2>1 DEF Typed
  <2> QED
    BY <1>2, <1>3, <2>1, <2>2 DEF PlaceInv
<1>6. CASE OpenStage2
  <2>1. pc = "open2" /\ pc' \in {"wait2", "failed"} /\ sent' = 0
    BY <1>6 DEF OpenStage2
  <2> QED
    BY <1>2, <1>3, <2>1 DEF PlaceInv
<1>7. CASE WaitStage2
  <2>1. pc = "wait2" /\ pc' \in {"send2", "failed"} /\ sent' = sent /\ sent = 0
    BY <1>7 DEF WaitStage2, Await, Typed
  <2> QED
    BY <1>2, <1>3, <2>1, Lengths DEF PlaceInv
<1>8. CASE Monitor \/ Join
  <2>1. pc \in {"monitor", "join"} /\ pc' \in {"join", "done"}
    BY <1>8 DEF Monitor, Join
  <2> QED
    BY <1>2, <1>3, <2>1 DEF PlaceInv
<1>9. CASE Sent("send", 1)
  <2>1. /\ pc = "send" /\ sent >= files[1].bytes
        /\ pc' = IF opt.stage2 THEN "open2" ELSE AfterSending
    BY <1>9 DEF Sent
  <2>2. sent = files[1].bytes /\ Total = sent
    BY <2>1, Lengths DEF Typed, TypeOK, PlaceInv
  <2>3. ~opt.stage2 => Total = All
    BY <2>2, Lengths DEF All
  <2> QED
    BY <1>2, <1>3, <2>1, <2>2, <2>3, AfterSendingIs DEF PlaceInv
<1>10. CASE Sent("send2", 2)
  <2>1. pc = "send2" /\ sent >= files[2].bytes /\ pc' = AfterSending
    BY <1>10 DEF Sent
  <2>2. sent \in Nat /\ sent <= files[2].bytes /\ opt.stage2 /\ files[2].bytes \in Nat
    BY <2>1, Lengths DEF Typed, TypeOK
  <2>3. Total = files[1].bytes + sent /\ sent = files[2].bytes
    BY <2>1, <2>2 DEF PlaceInv
  <2>4. Total = All
    BY <2>2, <2>3 DEF All
  <2> QED
    BY <1>2, <1>3, <2>1, <2>4, AfterSendingIs DEF PlaceInv
<1>11. CASE Fails
  <2>1. pc' = "failed"
    BY <1>11 DEF Fails, SendFails
  <2> QED
    BY <1>2, <1>3, <2>1 DEF PlaceInv
<1>12. CASE ReaderStops \/ ReaderEof \/ Read \/ UNCHANGED loadVars
  <2>1. pc' = pc /\ sent' = sent
    BY <1>12 DEF ReaderStops, ReaderEof, Read, loader, loadVars
  <2> QED
    BY <1>2, <2>1 DEF PlaceInv
<1> QED
  BY <1>4, <1>5, <1>6, <1>7, <1>8, <1>9, <1>10, <1>11, <1>12 DEF Quiet

\* Reading and draining bring nothing new to be heard.
LEMMA QuietSeen ==
  ASSUME Typed, Quiet
  PROVE  Seen' \subseteq Seen
<1>1. rxBuf \in Seq(Marks) /\ line \in Seq(Marks) /\ Len(line) \in Nat
  BY DEF Typed
<1>2. CASE UNCHANGED <<rxBuf, line>>
  BY <1>2 DEF Seen
<1>3. CASE Drain
  <2>1. UNCHANGED rxBuf
        /\ (line' = line \/ \E n \in 1..Len(line) : line' = SubSeq(line, n + 1, Len(line)))
    BY <1>3 DEF Drain, reader
  <2>2. ASSUME NEW n \in 1..Len(line), line' = SubSeq(line, n + 1, Len(line))
        PROVE  {line'[k] : k \in DOMAIN line'} \subseteq {line[k] : k \in DOMAIN line}
    <3>1. n + 1 \in 1..(Len(line) + 1) /\ Len(line) \in 0..Len(line)
      BY <1>1
    <3> QED
      BY <1>1, <2>2, <3>1, CutHolds
  <2> QED
    BY <2>1, <2>2 DEF Seen
<1>4. CASE Read
  <2>1. PICK n \in 1..Len(line) : rxBuf' = rxBuf \o SubSeq(line, 1, n)
                                 /\ line' = SubSeq(line, n + 1, Len(line))
    BY <1>4 DEF Read
  <2>2. /\ n + 1 \in 1..(Len(line) + 1) /\ Len(line) \in 0..Len(line)
        /\ 1 \in 1..(Len(line) + 1) /\ n \in 0..Len(line)
    BY <1>1
  <2>3. {line'[k] : k \in DOMAIN line'} \subseteq {line[k] : k \in DOMAIN line}
    BY <1>1, <2>1, <2>2, CutHolds
  <2> DEFINE cut == SubSeq(line, 1, n)
  <2>4. cut \in Seq(Marks) /\ {cut[k] : k \in DOMAIN cut} \subseteq {line[k] : k \in DOMAIN line}
    BY <1>1, <2>2, CutHolds
  <2>5. rxBuf' = rxBuf \o cut
    BY <2>1
  <2> HIDE DEF cut
  <2>6. {rxBuf'[k] : k \in DOMAIN rxBuf'}
          \subseteq {rxBuf[k] : k \in DOMAIN rxBuf} \cup {cut[k] : k \in DOMAIN cut}
    BY <1>1, <2>4, <2>5, JoinedHolds
  <2> QED
    BY <2>3, <2>4, <2>6 DEF Seen
<1>5. Drain \/ Read \/ UNCHANGED <<rxBuf, line>>
  <2>1. Start \/ Wait \/ OpenStage2 \/ WaitStage2 \/ Monitor \/ Join =>
          UNCHANGED <<rxBuf, line>>
    BY DEF Start, Wait, OpenStage2, WaitStage2, Monitor, Join, Await, reader
  <2>2. Sent("send", 1) \/ Sent("send2", 2) \/ Fails => UNCHANGED <<rxBuf, line>>
    BY DEF Sent, Fails, SendFails, reader
  <2>3. ReaderStops \/ ReaderEof \/ UNCHANGED loadVars => UNCHANGED <<rxBuf, line>>
    BY DEF ReaderStops, ReaderEof, loadVars, reader
  <2> QED
    BY <2>1, <2>2, <2>3 DEF Quiet
<1> QED
  BY <1>2, <1>3, <1>4, <1>5

\* Main begins to send when the ROM waits for the first file, and goes on to
\* the second only after the ROM has come that far.
LEMMA BeginsWhenAwaited ==
  ASSUME Typed, PlaceInv, SeenInv
  PROVE  /\ Wait /\ pc' = "send" => rom = First
         /\ Drain /\ pc' = "send" /\ ~misled' => rom = First
         /\ WaitStage2 /\ pc' = "send2" =>
              rom \in {"stage2", "app"} /\ opt.soc = "ast2700"
<1>1. rom \in RomState
  BY DEF Typed, TypeOK
<1>2. ASSUME Wait, pc' = "send"
      PROVE  rom = First
  <2>1. Contains(rxBuf, Ready(opt.soc)) /\ pc = "wait"
    BY <1>2 DEF Wait, Await
  <2>2. Total = 0
    BY <2>1 DEF PlaceInv
  <2>3. CASE opt.soc = "ast1060"
    <3>1. Ready("ast1060") \in Seq(Marks) /\ 1 \in 1..Len(Ready("ast1060"))
      BY ReadyIs
    <3>2. "U" \in Seen
      BY <2>1, <2>3, <3>1, HeldIsSeen, ReadyIs
    <3> QED
      BY <1>1, <2>2, <2>3, <3>2 DEF SeenInv, First, RomState
  <2>4. CASE opt.soc = "ast2700"
    <3>1. Ready("ast2700") \in Seq(Marks) /\ 2 \in 1..Len(Ready("ast2700"))
      BY ReadyIs
    <3>2. "1" \in Seen
      BY <2>1, <2>4, <3>1, HeldIsSeen, ReadyIs
    <3> QED
      BY <1>1, <2>2, <2>4, <3>2 DEF SeenInv, First, RomState
  <2>5. CASE opt.soc = "ast2700-app"
    <3>1. Ready("ast2700-app") \in Seq(Marks) /\ 2 \in 1..Len(Ready("ast2700-app"))
      BY ReadyIs
    <3>2. "2" \in Seen
      BY <2>1, <2>5, <3>1, HeldIsSeen, ReadyIs
    <3> QED
      BY <1>1, <2>2, <2>5, <3>2 DEF SeenInv, First, RomState
  <2> QED
    BY <2>3, <2>4, <2>5, Lengths
<1>3. ASSUME Drain, pc' = "send", ~misled'
      PROVE  rom = First
  BY <1>3 DEF Drain
<1>4. ASSUME WaitStage2, pc' = "send2"
      PROVE  rom \in {"stage2", "app"} /\ opt.soc = "ast2700"
  <2>1. Contains(rxBuf, Ready("ast2700-app")) /\ pc = "wait2"
    BY <1>4 DEF WaitStage2, Await, U2Ready
  <2>2. Ready("ast2700-app") \in Seq(Marks) /\ 2 \in 1..Len(Ready("ast2700-app"))
    BY ReadyIs
  <2>3. "2" \in Seen
    BY <2>1, <2>2, HeldIsSeen, ReadyIs
  <2>4. opt.stage2
    BY <2>1 DEF Typed
  <2> QED
    BY <1>1, <2>3, <2>4, Lengths DEF SeenInv, RomState
<1> QED
  BY <1>2, <1>3, <1>4

\* Main moves on or the reader reads: what the ROM does still fits.
LEMMA QuietRom ==
  ASSUME LoadInv, Quiet, ~misled, ~misled'
  PROVE  RomInv'
<1>0. Typed /\ PlaceInv /\ SeenInv /\ RomInv
  BY DEF LoadInv
<1>1. UNCHANGED <<opt, files, wire, log, rom, taken>>
  BY QuietKeeps
<1>2. Total' = Total /\ All' = All
  BY <1>1, Still
<1>3. /\ files[1].bytes \in Nat /\ files[1].expected \in Nat \ {0}
      /\ Total = Len(log) + Len(wire) /\ Len(log) \in Nat /\ Len(wire) \in Nat
  BY <1>0, Lengths DEF Total
<1>4. CASE (Begun' => Begun) /\ (Second' => Second)
  BY <1>0, <1>1, <1>2, <1>4 DEF RomInv, Taking, First, FirstFits
<1>5. CASE (Wait \/ Drain) /\ pc' = "send"
  <2>1. rom = First
    BY <1>0, <1>5, BeginsWhenAwaited
  <2>2. pc \in {"wait", "drain"}
    BY <1>5 DEF Wait, Await, Drain
  <2>3. Total = 0 /\ taken = 0 /\ Len(log) = 0
    BY <1>0, <1>3, <2>2 DEF PlaceInv, SeenInv
  <2>4. Taking(First, 0)' /\ Len(log') < files'[1].expected /\ ~Second'
    BY <1>1, <1>2, <1>3, <1>5, <2>1, <2>3 DEF Taking, First, Second
  <2> QED
    BY <1>1, <1>3, <2>3, <2>4 DEF RomInv
<1>6. CASE WaitStage2 /\ pc' = "send2"
  <2>1. rom \in {"stage2", "app"} /\ opt.soc = "ast2700"
    BY <1>0, <1>6, BeginsWhenAwaited
  <2>2. pc = "wait2" /\ opt.stage2
    BY <1>0, <1>6 DEF WaitStage2, Await, Typed
  <2>3. Begun
    BY <2>2 DEF Begun
  <2>4. Len(log) >= files[1].expected
    BY <1>0, <2>1, <2>3 DEF RomInv, Taking, First
  <2>5. RomInv
    BY <1>0
  <2> QED
    BY <1>1, <1>2, <2>1, <2>2, <2>3, <2>4, <2>5 DEF RomInv, Taking, First, FirstFits
<1>7. \/ (Begun' => Begun) /\ (Second' => Second)
      \/ (Wait \/ Drain) /\ pc' = "send"
      \/ WaitStage2 /\ pc' = "send2"
  <2>1. CASE Start
    <3>1. pc' \in {"wait", "drain", "failed"}
      BY <2>1 DEF Start
    <3> QED
      BY <1>1, <1>2, <3>1 DEF Begun, Second
  <2>2. CASE Wait \/ Drain
    <3>1. pc \in {"wait", "drain"} /\ pc' \in {pc, "send", "failed"}
      BY <2>2 DEF Wait, Await, Drain
    <3> QED
      BY <1>1, <1>2, <2>2, <3>1 DEF Begun, Second
  <2>3. CASE WaitStage2
    <3>1. pc = "wait2" /\ pc' \in {"send2", "failed"}
      BY <2>3 DEF WaitStage2, Await
    <3> QED
      BY <1>1, <1>2, <2>3, <3>1 DEF Begun, Second
  <2>4. CASE OpenStage2 \/ Monitor \/ Join \/ Sent("send", 1) \/ Sent("send2", 2) \/ Fails
    <3>1. /\ pc \in {"open2", "monitor", "join", "send", "send2"}
          /\ pc' \in {"wait2", "open2", "join", "done", "failed", "monitor"}
      BY <2>4, AfterSendingIs
         DEF OpenStage2, Monitor, Join, Sent, Fails, SendFails
    <3> QED
      BY <1>1, <1>2, <3>1 DEF Begun, Second
  <2>5. CASE ReaderStops \/ ReaderEof \/ Read \/ UNCHANGED loadVars
    <3>1. pc' = pc
      BY <2>5 DEF ReaderStops, ReaderEof, Read, loader, loadVars
    <3> QED
      BY <1>1, <1>2, <3>1 DEF Begun, Second
  <2> QED
    BY <2>1, <2>2, <2>3, <2>4, <2>5 DEF Quiet
<1> QED
  BY <1>4, <1>5, <1>6, <1>7

LEMMA QuietSteps ==
  ASSUME LoadInv, Quiet, ~misled' => ~misled
  PROVE  /\ BytesInv' /\ PlaceInv'
         /\ ~misled' => SeenInv' /\ RomInv' /\ ArrivalInv'
<1>0. Typed /\ BytesInv /\ PlaceInv
  BY DEF LoadInv
<1>1. UNCHANGED <<opt, files, wire, log, rom, taken>> /\ Seen' \subseteq Seen
  BY <1>0, QuietKeeps, QuietSeen
<1>2. BytesInv' /\ PlaceInv' /\ Total' = Total
  BY <1>0, <1>1, Still, QuietPlace
<1>3. ASSUME ~misled'
      PROVE  SeenInv' /\ RomInv' /\ ArrivalInv'
  <2>1. SeenInv /\ RomInv /\ ArrivalInv /\ ~misled
    BY <1>3 DEF LoadInv
  <2>2. SeenInv'
    BY <1>1, <1>2, <2>1 DEF SeenInv
  <2>3. ArrivalInv'
    BY <1>1, <2>1, Still
  <2>4. RomInv'
    BY <1>3, <2>1, QuietRom
  <2> QED
    BY <2>2, <2>3, <2>4
<1> QED
  BY <1>2, <1>3

LEMMA StreamIs ==
  ASSUME NEW j
  PROVE  /\ j <= files[1].bytes => Stream(j) = <<1, j>>
         /\ ~(j <= files[1].bytes) => Stream(j) = <<2, j - files[1].bytes>>
BY DEF Stream

LEMMA SendSteps ==
  ASSUME LoadInv, NEW here, NEW file \in {1, 2}, SendChunk(here, file),
         <<here, file>> \in {<<"send", 1>>, <<"send2", 2>>}
  PROVE  /\ BytesInv' /\ PlaceInv'
         /\ ~misled' => SeenInv' /\ RomInv' /\ ArrivalInv'
<1>0. Typed /\ BytesInv /\ PlaceInv
  BY DEF LoadInv
<1>1. /\ UNCHANGED <<opt, files, log, rom, taken, pc>> /\ UNCHANGED <<rxBuf, line, misled>>
      /\ pc = here
  BY DEF SendChunk, reader, board
<1>3. PICK n \in Nat :
        /\ sent' = sent + n /\ sent + n <= files[file].bytes
        /\ wire' \in Seq({1, 2} \X Nat) /\ Len(wire') = Len(wire) + n
        /\ \A k \in 1..(Len(wire) + n) :
             wire'[k] = IF k <= Len(wire) THEN wire[k]
                        ELSE <<file, sent + (k - Len(wire))>>
  BY <1>0, SendStep
<1>4. /\ Len(log) \in Nat /\ Len(wire) \in Nat /\ sent \in Nat
      /\ files[1].bytes \in Nat /\ files[2].bytes \in Nat
      /\ wire \in Seq({1, 2} \X Nat)
  BY <1>0, Lengths DEF Typed, TypeOK
<1>5. file = 2 => opt.stage2
  BY <1>0, <1>1 DEF Typed
<1>6. Total = sent + (IF file = 1 THEN 0 ELSE files[1].bytes)
  BY <1>0, <1>1, <1>4 DEF PlaceInv
<1>7. Total' = Total + n /\ Total \in Nat
  BY <1>1, <1>3, <1>4 DEF Total
<1>8. All = files[1].bytes + (IF opt.stage2 THEN files[2].bytes ELSE 0) /\ All' = All
  BY <1>1 DEF All
<1>9. BytesInv'
  <2>1. \A k \in DOMAIN log : log[k].byte = Stream(k)
    BY <1>0 DEF BytesInv
  <2>2. DOMAIN wire = 1..Len(wire) /\ DOMAIN wire' = 1..(Len(wire) + n)
    BY <1>3, <1>4
  <2>3. sent + n <= files[file].bytes
    BY <1>3
  <2>4. ASSUME NEW k \in 1..(Len(wire) + n)
        PROVE  wire'[k] = Stream(Len(log) + k)
    <3>1. k \in Nat /\ k <= Len(wire) + n
      BY <1>4
    <3>2. wire'[k] = IF k <= Len(wire) THEN wire[k] ELSE <<file, sent + (k - Len(wire))>>
      BY <1>3
    <3>3. CASE k <= Len(wire)
      <4>1. k \in DOMAIN wire
        BY <1>4, <2>2, <3>1, <3>3
      <4>2. wire[k] = Stream(Len(log) + k)
        BY <1>0, <4>1 DEF BytesInv
      <4> QED
        BY <3>2, <3>3, <4>2
    <3>4. CASE ~(k <= Len(wire)) /\ file = 1
      <4>1. Len(log) + Len(wire) = sent
        <5>1. sent + 0 = sent
          BY <1>4
        <5> QED
          BY <1>6, <3>4, <5>1 DEF Total
      <4>2. Len(log) + k = sent + (k - Len(wire)) /\ Len(log) + k <= files[1].bytes
        <5> DEFINE a == Len(log)
                   b == Len(wire)
                   c == files[1].bytes
        <5>1. a \in Nat /\ b \in Nat /\ c \in Nat /\ sent \in Nat /\ a + b = sent
              /\ k \in Nat /\ k <= b + n /\ sent + n <= c
          BY <1>4, <2>3, <3>1, <3>4, <4>1
        <5> HIDE DEF a, b, c
        <5>2. a + k = sent + (k - b) /\ a + k <= c
          BY <5>1
        <5> QED
          BY <5>2 DEF a, b, c
      <4>3. Stream(Len(log) + k) = <<1, Len(log) + k>>
        BY <4>2 DEF Stream
      <4> QED
        BY <3>2, <3>4, <4>2, <4>3
    <3>5. CASE ~(k <= Len(wire)) /\ file = 2
      <4>0. file # 1
        BY <3>5
      <4>1. Len(log) + Len(wire) = sent + files[1].bytes
        BY <1>6, <4>0 DEF Total
      <4>2. /\ (Len(log) + k) - files[1].bytes = sent + (k - Len(wire))
            /\ ~(Len(log) + k <= files[1].bytes)
        <5> DEFINE a == Len(log)
                   b == Len(wire)
                   c == files[1].bytes
        <5>1. a \in Nat /\ b \in Nat /\ c \in Nat /\ sent \in Nat /\ a + b = sent + c
              /\ k \in Nat /\ ~(k <= b)
          BY <1>4, <3>1, <3>5, <4>1
        <5> HIDE DEF a, b, c
        <5>2. (a + k) - c = sent + (k - b) /\ ~(a + k <= c)
          BY <5>1
        <5> QED
          BY <5>2 DEF a, b, c
      <4>3. Stream(Len(log) + k) = <<2, (Len(log) + k) - files[1].bytes>>
        <5>1. \A m : ~(m <= files[1].bytes) => Stream(m) = <<2, m - files[1].bytes>>
          BY StreamIs
        <5> QED
          BY <4>2, <5>1
      <4> QED
        BY <3>2, <3>5, <4>2, <4>3
    <3> QED
      BY <3>3, <3>4, <3>5
  <2> QED
    BY <1>1, <2>1, <2>2, <2>4 DEF BytesInv, Stream
<1>10. PlaceInv'
  <2>1. Total' <= All'
    <3>1. Total + n <= files[1].bytes + (IF opt.stage2 THEN files[2].bytes ELSE 0)
      <4>1. CASE file = 1
        BY <1>3, <1>4, <1>6, <4>1
      <4>2. CASE file = 2
        BY <1>3, <1>4, <1>5, <1>6, <4>2
      <4> QED
        BY <4>1, <4>2
    <3> QED
      BY <1>7, <1>8, <3>1
  <2>2. CASE here = "send" /\ file = 1
    <3>1. Total' = sent'
      BY <1>3, <1>4, <1>6, <1>7, <2>2
    <3> QED
      BY <1>1, <2>1, <2>2, <3>1 DEF PlaceInv
  <2>3. CASE here = "send2" /\ file = 2
    <3>1. Total' = files[1].bytes + sent'
      BY <1>3, <1>4, <1>6, <1>7, <2>3
    <3> QED
      BY <1>1, <2>1, <2>3, <3>1 DEF PlaceInv
  <2> QED
    BY <2>2, <2>3
<1>11. ASSUME ~misled'
       PROVE  SeenInv' /\ RomInv' /\ ArrivalInv'
  <2>0. SeenInv /\ RomInv /\ ArrivalInv
    BY <1>1, <1>11 DEF LoadInv
  <2>1. Seen' = Seen /\ (Total' = 0 => Total = 0)
    BY <1>1, <1>3, <1>7 DEF Seen
  <2>2. SeenInv'
    BY <1>1, <2>0, <2>1 DEF SeenInv
  <2>3. ArrivalInv'
    BY <1>1, <2>0 DEF ArrivalInv, First, FirstFits
  <2>4. Begun /\ Begun'
    BY <1>1 DEF Begun
  <2>5. (Second' => Second) /\ (Total = files[1].bytes => Second \/ Total' = Total)
    <3>1. CASE here = "send2"
      BY <1>1, <3>1 DEF Second
    <3>2. CASE here = "send" /\ file = 1
      <4>1. Total' = sent + n /\ sent + n <= files[1].bytes /\ Total = sent
        BY <1>3, <1>4, <1>6, <1>7, <3>2
      <4> QED
        BY <1>1, <1>3, <1>4, <3>2, <4>1 DEF Second
    <3> QED
      BY <3>1, <3>2
  <2>6. RomInv'
    BY <1>1, <2>0, <2>4, <2>5 DEF RomInv, Taking, First, FirstFits
  <2> QED
    BY <2>2, <2>3, <2>6
<1> QED
  BY <1>9, <1>10, <1>11

\* A prompt comes when the ROM is where it asks for a file, and a power cycle
\* that does not mislead the loader comes before anything was heard or sent.
LEMMA PromptSteps ==
  ASSUME LoadInv, RomPrompts
  PROVE  /\ BytesInv' /\ PlaceInv'
         /\ ~misled' => SeenInv' /\ RomInv' /\ ArrivalInv'
<1>0. Typed /\ BytesInv /\ PlaceInv
  BY DEF LoadInv
<1>1. /\ UNCHANGED <<opt, files, wire, log>> /\ UNCHANGED <<pc, sent, rxBuf, misled>>
      /\ taken' = 0
  BY DEF RomPrompts, loader, reader
<1>2. BytesInv' /\ Total' = Total /\ All' = All
  BY <1>0, <1>1, Still
<1>3. PlaceInv'
  BY <1>0, <1>1, <1>2 DEF PlaceInv
<1>4. ASSUME ~misled'
      PROVE  SeenInv' /\ RomInv' /\ ArrivalInv'
  <2>0. SeenInv /\ RomInv /\ ArrivalInv
    BY <1>1, <1>4 DEF LoadInv
  <2>1. ArrivalInv'
    BY <1>1, <2>0, Still
  <2>2. (Begun' <=> Begun) /\ (Second' <=> Second)
    BY <1>1, <1>2 DEF Begun, Second
  <2>3. /\ files[1].bytes \in Nat /\ files[1].expected \in Nat \ {0}
        /\ Total = Len(log) + Len(wire) /\ Len(log) \in Nat /\ Len(wire) \in Nat
    BY <1>0, Lengths DEF Total
  <2>4. line \in Seq(Marks)
    BY <1>0 DEF Typed
  <2>5. ASSUME NEW P \in Seq(Marks), NEW S, \A k \in DOMAIN P : P[k] \in S, line' = line \o P
        PROVE  Seen' \subseteq Seen \cup S
    <3>1. {line'[k] : k \in DOMAIN line'}
            \subseteq {line[k] : k \in DOMAIN line} \cup {P[k] : k \in DOMAIN P}
      BY <2>4, <2>5, JoinedHolds
    <3> QED
      BY <1>1, <2>5, <3>1 DEF Seen
  <2>6. CASE rom = "boot" /\ rom' = "stage1"
    <3>1. line' = line \o Ready("ast1060") \/ line' = line \o Ready("ast2700")
      BY <2>6 DEF RomPrompts
    <3>2. Seen' \subseteq Seen \cup {"U", "1"}
      <4>1. CASE line' = line \o Ready("ast1060")
        <5>1. \A k \in DOMAIN Ready("ast1060") : Ready("ast1060")[k] \in {"U", "1"}
          BY ReadyIs
        <5> QED
          BY <2>5, <4>1, <5>1, ReadyIs
      <4>2. CASE line' = line \o Ready("ast2700")
        BY <2>5, <4>2, ReadyIs
      <4> QED
        BY <3>1, <4>1, <4>2
    <3>3. SeenInv'
      BY <1>1, <1>2, <2>0, <2>6, <3>2 DEF SeenInv
    <3>4. Begun => Len(log) >= files[1].expected
      BY <2>0, <2>6 DEF RomInv, Taking, First
    <3>5. RomInv'
      BY <1>1, <1>2, <2>0, <2>2, <2>6, <3>4 DEF RomInv, Taking, First, FirstFits
    <3> QED
      BY <2>1, <3>3, <3>5
  <2>7. CASE rom = "caliptra" /\ rom' = "stage2"
    <3>1. line' = line \o Ready("ast2700-app")
      BY <2>7 DEF RomPrompts
    <3>2. Seen' \subseteq Seen \cup {"U", "2"}
      BY <2>5, <3>1, ReadyIs
    <3>3. SeenInv'
      BY <1>1, <1>2, <2>0, <2>7, <3>2 DEF SeenInv
    <3>4. Begun => Len(log) >= files[1].expected
      BY <2>0, <2>7 DEF RomInv, Taking, First
    <3>5. ASSUME Begun, opt.stage2, opt.soc = "ast2700", FirstFits
          PROVE  Taking("stage2", files[1].bytes)'
      <4>1. Total = files[1].bytes /\ Len(log) >= files[1].expected
        BY <2>0, <2>7, <3>4, <3>5 DEF RomInv, Taking
      <4>2. Len(log) = files[1].bytes
        BY <2>3, <3>5, <4>1 DEF FirstFits
      <4> QED
        BY <1>1, <2>3, <2>7, <4>2 DEF Taking
    <3>6. RomInv'
      BY <1>1, <1>2, <2>0, <2>2, <2>7, <3>4, <3>5 DEF RomInv, First, FirstFits
    <3> QED
      BY <2>1, <3>3, <3>6
  <2> QED
    BY <2>6, <2>7 DEF RomPrompts
<1> QED
  BY <1>2, <1>3, <1>4

LEMMA PowerCycleSteps ==
  ASSUME LoadInv, PowerCycle
  PROVE  /\ BytesInv' /\ PlaceInv'
         /\ ~misled' => SeenInv' /\ RomInv' /\ ArrivalInv'
<1>0. Typed /\ BytesInv /\ PlaceInv
  BY DEF LoadInv
<1>1. /\ UNCHANGED <<opt, files, wire, log>> /\ UNCHANGED <<pc, sent, rxBuf, line>>
      /\ taken' = 0 /\ rom' = "boot"
  BY DEF PowerCycle, loader, reader
<1>2. BytesInv' /\ Total' = Total /\ All' = All
  BY <1>0, <1>1, Still
<1>3. PlaceInv'
  BY <1>0, <1>1, <1>2 DEF PlaceInv
<1>4. ASSUME ~misled'
      PROVE  SeenInv' /\ RomInv' /\ ArrivalInv'
  <2>1. ~misled /\ line = <<>> /\ rxBuf = <<>> /\ pc \in {"start", "wait", "drain"}
    BY <1>4 DEF PowerCycle
  <2>2. Seen' = {}
    BY <1>1, <2>1 DEF Seen
  <2>3. Total' = 0 /\ ~Begun' /\ ~Second'
    BY <1>0, <1>1, <1>2, <2>1, Lengths DEF PlaceInv, Begun, Second
  <2>4. SeenInv'
    BY <1>1, <2>2 DEF SeenInv
  <2>5. RomInv'
    BY <2>3 DEF RomInv
  <2>6. ArrivalInv'
    BY <1>1, <2>1, Still DEF LoadInv
  <2> QED
    BY <2>4, <2>5, <2>6
<1> QED
  BY <1>2, <1>3, <1>4

LEMMA OneMore ==
  ASSUME NEW l \in Nat, NEW f \in Nat, NEW e \in Nat, NEW t, l >= f, t = l - f
  PROVE  t + 1 = (l + 1) - f /\ (~(t + 1 < e) => l + 1 >= f + e)
  OBVIOUS

\* A byte arrives: it is the next of the stream, and if the ROM has a header
\* that announces it, the ROM is taking that file.
LEMMA DeliverSteps ==
  ASSUME LoadInv, Deliver
  PROVE  /\ BytesInv' /\ PlaceInv'
         /\ ~misled' => SeenInv' /\ RomInv' /\ ArrivalInv'
<1>0. Typed /\ BytesInv /\ PlaceInv
  BY DEF LoadInv
<1>1. UNCHANGED <<opt, files>> /\ UNCHANGED <<pc, sent, rxBuf, line, misled>>
  BY DEF Deliver, loader, reader
<1>2. /\ Len(wire) > 0 /\ Len(wire') = Len(wire) - 1
      /\ \A k \in 1..Len(wire') : wire'[k] = wire[k + 1]
      /\ Len(log') = Len(log) + 1
      /\ \A k \in 1..Len(log) : log'[k] = log[k]
      /\ log'[Len(log) + 1].byte = wire[1]
      /\ log'[Len(log) + 1].rom = rom
  BY <1>0, DeliverStep
<1>3. /\ DOMAIN wire = 1..Len(wire) /\ DOMAIN wire' = 1..Len(wire')
      /\ DOMAIN log = 1..Len(log) /\ DOMAIN log' = 1..Len(log')
      /\ Len(wire) \in Nat /\ Len(log) \in Nat
  BY <1>0, DeliverStep DEF Typed
<1>4. Total' = Total /\ All' = All /\ Seen' = Seen /\ Total = Len(log) + Len(wire)
  BY <1>1, <1>2, <1>3 DEF Total, All, Seen
<1>5. PlaceInv'
  BY <1>0, <1>1, <1>4 DEF PlaceInv
<1>6. BytesInv'
  <2>1. ASSUME NEW k \in 1..(Len(log) + 1) PROVE log'[k].byte = Stream(k)
    <3>1. CASE k = Len(log) + 1
      <4>1. 1 \in DOMAIN wire
        BY <1>2, <1>3
      <4> QED
        BY <1>0, <1>2, <3>1, <4>1 DEF BytesInv
    <3>2. CASE k # Len(log) + 1
      <4>1. k \in DOMAIN log
        BY <1>3, <3>2
      <4> QED
        BY <1>0, <1>2, <1>3, <4>1 DEF BytesInv
    <3> QED
      BY <3>1, <3>2
  <2>2. ASSUME NEW k \in 1..Len(wire') PROVE wire'[k] = Stream((Len(log) + 1) + k)
    <3>1. k + 1 \in DOMAIN wire /\ Len(log) + (k + 1) = (Len(log) + 1) + k
      BY <1>2, <1>3
    <3>2. wire[k + 1] = Stream(Len(log) + (k + 1))
      BY <1>0, <3>1 DEF BytesInv
    <3> QED
      BY <1>2, <3>1, <3>2
  <2> QED
    BY <1>1, <1>2, <1>3, <2>1, <2>2 DEF BytesInv, Stream
<1>7. /\ rom \in {"stage1", "stage2"} =>
           /\ taken + 1 < Announced => rom' = rom /\ taken' = taken + 1
           /\ ~(taken + 1 < Announced) =>
                rom' = IF rom = "stage1" /\ opt.soc # "ast1060" THEN "caliptra" ELSE "app"
      /\ rom \notin {"stage1", "stage2"} => rom' = rom /\ taken' = taken
  BY DEF Deliver
<1>8. /\ files[1].bytes \in Nat /\ files[1].expected \in Nat \ {0}
      /\ files[2].bytes \in Nat /\ files[2].expected \in Nat \ {0}
      /\ Total > 0 /\ Len(log) + 1 <= Total /\ Total <= All /\ taken \in Nat
      /\ opt.soc \in {"ast1060", "ast2700", "ast2700-app"}
      /\ opt.stage2 => opt.soc # "ast2700-app"
  <2>1. Total > 0 /\ Len(log) + 1 <= Total
    BY <1>2, <1>3, <1>4
  <2> QED
    BY <1>0, <2>1, Lengths DEF Typed, PlaceInv
<1>9. Begun /\ Begun' /\ (Second' <=> Second)
  BY <1>1, <1>4, <1>8 DEF Begun, Second
<1>10. ASSUME ~misled'
       PROVE  SeenInv' /\ RomInv' /\ ArrivalInv'
  <2>0. SeenInv /\ RomInv /\ ArrivalInv
    BY <1>1, <1>10 DEF LoadInv
  <2>1. SeenInv'
    <3>1. rom' \in {rom, "caliptra", "app"} /\ (rom' = "caliptra" => rom \in {"stage1", "caliptra"})
          /\ (opt.soc = "ast1060" /\ rom' = "caliptra" => rom = "caliptra")
      BY <1>7
    <3> QED
      BY <1>1, <1>4, <1>8, <2>0, <3>1 DEF SeenInv
  \* The first file is being taken.
  <2>2. ASSUME Taking(First, 0), Len(log) < files[1].expected
        PROVE  /\ \/ Taking(First, 0)' /\ Len(log') < files'[1].expected
                  \/ Len(log') >= files'[1].expected
               /\ opt.stage2 /\ opt.soc = "ast2700" /\ FirstFits
                    /\ Len(log') >= files'[1].expected =>
                      rom' = "caliptra" /\ Total = files[1].bytes
    <3>1. taken = Len(log) /\ rom = First /\ rom \in {"stage1", "stage2"}
      BY <1>3, <2>2 DEF Taking, First
    <3>2. Announced = files[1].expected
      BY <1>8, <3>1 DEF Announced, First
    <3>3. CASE Len(log) + 1 < files[1].expected
      <4>1. rom' = rom /\ taken' = Len(log')
        BY <1>2, <1>7, <3>1, <3>2, <3>3
      <4> QED
        BY <1>1, <1>2, <1>3, <1>8, <3>1, <3>3, <4>1 DEF Taking, First
    <3>4. CASE ~(Len(log) + 1 < files[1].expected)
      <4>1. Len(log') = files[1].expected
        BY <1>2, <1>3, <1>8, <2>2, <3>4
      <4>2. opt.soc = "ast2700" => rom' = "caliptra"
        BY <1>7, <3>1, <3>2, <3>4 DEF First
      <4>3. FirstFits => Total = files[1].bytes
        <5>1. FirstFits => ~Second
          BY <1>8, <2>0, <2>2, <1>3 DEF RomInv
        <5>2. ~Second => Total <= files[1].bytes
          BY <1>3, <1>4, <1>8 DEF Second
        <5>3. Total >= files[1].expected
          BY <1>2, <1>3, <1>8, <4>1
        <5> QED
          BY <1>3, <1>4, <1>8, <5>1, <5>2, <5>3 DEF FirstFits
      <4> QED
        BY <1>1, <1>8, <4>1, <4>2, <4>3
    <3> QED
      BY <3>3, <3>4
  \* The first file was taken, and is as long as announced.
  <2>3. ASSUME opt.stage2, opt.soc = "ast2700", FirstFits, Len(log) >= files[1].expected
        PROVE  /\ \/ Taking("stage2", files[1].bytes)'
                  \/ rom' = "app" /\ Len(log') >= files[1].bytes + files[2].expected
               /\ Len(log) + 1 <= files[1].bytes + files[2].expected => rom = "stage2"
               /\ rom # "caliptra" /\ rom' # "caliptra"
    <3>1. Len(log) >= files[1].bytes /\ Total # files[1].bytes
      BY <1>3, <1>8, <2>3 DEF FirstFits
    <3>0. /\ Len(log) \in Nat /\ files[1].bytes \in Nat /\ files[2].expected \in Nat
          /\ Len(log) >= files[1].bytes /\ Len(log') = Len(log) + 1
      BY <1>2, <1>3, <1>8, <3>1
    <3>2. CASE Taking("stage2", files[1].bytes)
      <4>1. rom = "stage2" /\ taken = Len(log) - files[1].bytes /\ Announced = files[2].expected
        BY <2>3, <3>2 DEF Taking, Announced
      <4>2. CASE taken + 1 < files[2].expected
        <5>1. rom' = "stage2" /\ taken' = taken + 1
          BY <1>7, <4>1, <4>2
        <5>2. taken' = Len(log') - files[1].bytes
          BY <3>0, <4>1, <5>1, OneMore
        <5> QED
          BY <1>1, <4>1, <5>1, <5>2 DEF Taking
      <4>3. CASE ~(taken + 1 < files[2].expected)
        <5>1. rom' = "app"
          BY <1>7, <4>1, <4>3
        <5>2. Len(log') >= files[1].bytes + files[2].expected
          BY <3>0, <4>1, <4>3, OneMore
        <5> QED
          BY <4>1, <5>1, <5>2
      <4> QED
        BY <4>2, <4>3
    <3>3. CASE rom = "app" /\ Len(log) >= files[1].bytes + files[2].expected
      <4>1. rom' = "app" /\ Len(log') >= files[1].bytes + files[2].expected
            /\ ~(Len(log) + 1 <= files[1].bytes + files[2].expected)
        BY <1>2, <1>3, <1>7, <1>8, <3>3
      <4> QED
        BY <3>3, <4>1
    <3> QED
      BY <1>9, <2>0, <2>3, <3>1, <3>2, <3>3 DEF RomInv
  <2>4. \/ Taking(First, 0) /\ Len(log) < files[1].expected
        \/ Len(log) >= files[1].expected
    BY <1>9, <2>0 DEF RomInv
  <2>5. Len(log) >= files[1].expected => Len(log') >= files'[1].expected
    BY <1>1, <1>2, <1>3, <1>8
  <2>6. Second /\ FirstFits =>
           opt.stage2 /\ opt.soc = "ast2700" /\ Len(log) >= files[1].expected
    BY <2>0 DEF RomInv
  <2>7. RomInv'
    <3>1. (FirstFits' <=> FirstFits) /\ opt' = opt /\ files' = files /\ Total' = Total
      BY <1>1, <1>4 DEF FirstFits
    <3>2. CASE Taking(First, 0) /\ Len(log) < files[1].expected
      <4>1. ~(Second /\ FirstFits)
        BY <1>3, <1>8, <2>6, <3>2
      <4> QED
        BY <1>9, <2>2, <3>1, <3>2, <4>1 DEF RomInv
    <3>3. CASE Len(log) >= files[1].expected
      BY <1>9, <2>3, <2>5, <2>6, <3>1, <3>3 DEF RomInv
    <3> QED
      BY <2>4, <3>2, <3>3
  <2>8. ASSUME NEW k \in 1..(Len(log) + 1)
        PROVE  /\ k <= files[1].bytes /\ k <= files[1].expected => log'[k].rom = First
               /\ FirstFits /\ files[1].bytes < k /\ k <= files[1].bytes + files[2].expected
                    => log'[k].rom = "stage2"
    <3>1. CASE k = Len(log) + 1
      <4>1. log'[k].rom = rom
        BY <1>2, <3>1
      <4>0. k = Len(log) + 1 /\ Len(log) \in Nat /\ Len(log) + 1 <= Total /\ Total \in Nat
            /\ files[1].expected \in Nat /\ files[1].bytes \in Nat
        BY <1>3, <1>4, <1>8, <3>1
      <4>2. k <= files[1].expected => rom = First
        <5>1. k <= files[1].expected => ~(Len(log) >= files[1].expected)
          BY <4>0
        <5> QED
          BY <2>4, <5>1 DEF Taking
      <4>3. ASSUME FirstFits, files[1].bytes < k, k <= files[1].bytes + files[2].expected
            PROVE  rom = "stage2"
        <5>1. Second
          BY <4>0, <4>3 DEF Second
        <5> QED
          BY <2>3, <2>6, <3>1, <4>3, <5>1
      <4> QED
        BY <4>1, <4>2, <4>3
    <3>2. CASE k # Len(log) + 1
      <4>1. k \in DOMAIN log /\ log'[k] = log[k]
        BY <1>2, <1>3, <3>2
      <4> QED
        BY <2>0, <4>1 DEF ArrivalInv
    <3> QED
      BY <3>1, <3>2
  <2>9. ArrivalInv'
    BY <1>1, <1>2, <1>3, <2>8 DEF ArrivalInv, First, FirstFits
  <2> QED
    BY <2>1, <2>7, <2>9
<1> QED
  BY <1>5, <1>6, <1>10

LEMMA LoadNext ==
  ASSUME LoadInv, [Next]_loadVars
  PROVE  LoadInv'
<1>1. Typed /\ Typed'
  BY TypedNext DEF LoadInv
<1>2. SUFFICES /\ BytesInv' /\ PlaceInv'
               /\ ~misled' => SeenInv' /\ RomInv' /\ ArrivalInv'
  BY <1>1 DEF LoadInv
<1>3. ~misled' => ~misled
  BY <1>1, MisledStays
<1>4. CASE Quiet
  BY <1>3, <1>4, QuietSteps
<1>5. CASE SendChunk("send", 1) \/ SendChunk("send2", 2)
  BY <1>5, SendSteps
<1>6. CASE RomPrompts
  BY <1>6, PromptSteps
<1>7. CASE Deliver
  BY <1>7, DeliverSteps
<1>8. CASE PowerCycle
  BY <1>8, PowerCycleSteps
<1> QED
  BY <1>4, <1>5, <1>6, <1>7, <1>8 DEF Next, Loads, Exits, SendFirst, SendSecond, Quiet

LEMMA LoadInvariant == Spec => []LoadInv
<1>1. LoadInv /\ [Next]_loadVars => LoadInv'
  BY LoadNext
<1> QED
  BY LoadInit, <1>1, PTL DEF Spec

-----------------------------------------------------------------------------
(* The loader keeps its counters, the line and the reader in their ranges:  *)
(* no transfer runs past its file, the line holds what it can, and a reader *)
(* runs only on the command lines that start one.                           *)
THEOREM LoaderTypeCorrect == Spec => []TypeOK
<1>1. LoadInv => TypeOK
  BY DEF LoadInv, Typed
<1> QED
  BY LoadInvariant, <1>1, PTL

\* All that was written, read off the line as a sequence.
LEMMA WrittenIsWhole ==
  ASSUME LoadInv, pc = "done"
  PROVE  Arrived \o wire = Bytes(1) \o (IF opt.stage2 THEN Bytes(2) ELSE <<>>)
<1> DEFINE T == {1, 2} \X Nat
           a == files[1].bytes
           b == IF opt.stage2 THEN files[2].bytes ELSE 0
           second == IF opt.stage2 THEN Bytes(2) ELSE <<>>
<1>1. /\ BytesInv /\ wire \in Seq(T) /\ log \in Seq([byte : T, rom : RomState])
      /\ Len(log) + Len(wire) = a + b
      /\ a \in Nat /\ b \in Nat /\ Len(log) \in Nat /\ Len(wire) \in Nat
  BY Lengths DEF LoadInv, Typed, PlaceInv, Total, All
<1>2. Arrived \in Seq(T) /\ Len(Arrived) = Len(log)
      /\ \A k \in 1..Len(log) : Arrived[k] = Stream(k)
  <2>1. \A k \in 1..Len(log) : log[k].byte \in T
    <3> DEFINE R == [byte : T, rom : RomState]
    <3>1. \A k \in 1..Len(log) : log[k] \in R
      <4> HIDE DEF R, T
      <4> QED
        BY <1>1, ElementOfSeq DEF R
    <3> QED
      BY <3>1
  <2>2. DOMAIN log = 1..Len(log)
    BY <1>1
  <2>3. Arrived = [k \in 1..Len(log) |-> log[k].byte]
    BY <2>2 DEF Arrived
  <2> HIDE DEF T
  <2>4. Arrived \in [1..Len(log) -> T]
    BY <2>1, <2>3
  <2>5. \A k \in 1..Len(log) : Arrived[k] = Stream(k)
    BY <1>1, <2>2, <2>3 DEF BytesInv
  <2> DEFINE n == Len(log)
  <2>6. n \in Nat /\ Arrived \in [1..n -> T]
    BY <1>1, <2>4
  <2> HIDE DEF n
  <2>7. Arrived \in Seq(T) /\ Len(Arrived) = n
    BY <2>6
  <2> QED
    BY <2>5, <2>7 DEF n
<1>3. ASSUME NEW file \in {1, 2}
      PROVE  /\ Bytes(file) \in Seq(T) /\ Len(Bytes(file)) = files[file].bytes
             /\ \A k \in 1..files[file].bytes : Bytes(file)[k] = <<file, k>>
  <2>1. files[file].bytes \in Nat
    BY Lengths DEF LoadInv
  <2>2. \A k \in 1..files[file].bytes : <<file, k>> \in T
    BY <2>1
  <2>3. Bytes(file) = [k \in 1..files[file].bytes |-> <<file, k>>]
    BY DEF Bytes
  <2> HIDE DEF T
  <2>4. Bytes(file) \in [1..files[file].bytes -> T]
    BY <2>2, <2>3
  <2> QED
    BY <2>1, <2>3, <2>4
<1>4. /\ second \in Seq(T) /\ Len(second) = b
      /\ \A k \in 1..b : second[k] = <<2, k>>
  <2>1. CASE opt.stage2
    <3>1. second = Bytes(2) /\ b = files[2].bytes
      BY <2>1
    <3> HIDE DEF second, b, T
    <3> QED
      BY <1>3, <3>1
  <2>2. CASE ~opt.stage2
    <3>1. second = <<>> /\ b = 0
      BY <2>2
    <3> HIDE DEF second, b, T
    <3> QED
      BY <3>1, EmptySeq
  <2> QED
    BY <2>1, <2>2
<1> DEFINE first == Bytes(1)
<1>5. /\ first \in Seq(T) /\ Len(first) = a
      /\ \A k \in 1..a : first[k] = <<1, k>>
  BY <1>3
<1> HIDE DEF first, second, a, b, T
<1>6. /\ Arrived \o wire \in Seq(T) /\ Len(Arrived \o wire) = a + b
      /\ \A k \in 1..(a + b) :
           (Arrived \o wire)[k] = IF k <= Len(log) THEN Arrived[k] ELSE wire[k - Len(log)]
  <2> DEFINE x == Arrived
  <2>1. x \in Seq(T) /\ wire \in Seq(T) /\ Len(x) = Len(log)
    BY <1>1, <1>2
  <2> HIDE DEF x
  <2>2. /\ x \o wire \in Seq(T) /\ Len(x \o wire) = Len(x) + Len(wire)
        /\ \A k \in 1..(Len(x) + Len(wire)) :
             (x \o wire)[k] = IF k <= Len(x) THEN x[k] ELSE wire[k - Len(x)]
    BY <2>1, ConcatProperties
  <2> QED
    BY <1>1, <2>1, <2>2 DEF x
<1>7. /\ first \o second \in Seq(T) /\ Len(first \o second) = a + b
      /\ \A k \in 1..(a + b) :
           (first \o second)[k] = IF k <= a THEN first[k] ELSE second[k - a]
  BY <1>1, <1>4, <1>5, ConcatProperties
<1>8. ASSUME NEW k \in 1..(a + b)
      PROVE  (Arrived \o wire)[k] = (first \o second)[k]
  <2>1. (Arrived \o wire)[k] = Stream(k)
    <3>1. CASE k <= Len(log)
      <4>1. k \in 1..Len(log)
        BY <1>1, <3>1
      <4> QED
        BY <1>2, <1>6, <3>1, <4>1
    <3>2. CASE ~(k <= Len(log))
      <4>1. k - Len(log) \in DOMAIN wire /\ Len(log) + (k - Len(log)) = k
        BY <1>1, <3>2
      <4>2. wire[k - Len(log)] = Stream(k)
        BY <1>1, <4>1 DEF BytesInv
      <4> QED
        BY <1>6, <3>2, <4>2
    <3> QED
      BY <3>1, <3>2
  <2>2. (first \o second)[k] = Stream(k)
    <3>1. CASE k <= a
      <4>1. k \in 1..a
        BY <1>1, <3>1
      <4> QED
        BY <1>5, <1>7, <3>1, <4>1 DEF Stream, a
    <3>2. CASE ~(k <= a)
      <4>1. k - a \in 1..b
        BY <1>1, <3>2
      <4> QED
        BY <1>4, <1>7, <3>2, <4>1 DEF Stream, a
    <3> QED
      BY <3>1, <3>2
  <2> QED
    BY <2>1, <2>2
<1>9. Arrived \o wire = first \o second
  BY <1>6, <1>7, <1>8, SeqEqual
<1> QED
  BY <1>9 DEF first, second

LEMMA InvImpliesWhole == LoadInv => ImagesArriveWhole
<1> SUFFICES ASSUME LoadInv PROVE ImagesArriveWhole
  OBVIOUS
<1>1. ASSUME ~misled, NEW k \in DOMAIN log
      PROVE  log[k].byte[2] <= files[log[k].byte[1]].expected =>
               IF log[k].byte[1] = 1 THEN log[k].rom = First
               ELSE FirstFits => log[k].rom = "stage2"
  <2>1. ArrivalInv /\ log[k].byte = Stream(k)
    BY <1>1 DEF LoadInv, BytesInv
  <2>2. /\ files[1].bytes \in Nat /\ files[2].expected \in Nat /\ k \in Nat
    BY Lengths DEF LoadInv, Typed
  <2>3. CASE k <= files[1].bytes
    <3>1. log[k].byte[1] = 1 /\ log[k].byte[2] = k
      BY <2>1, <2>3 DEF Stream
    <3> QED
      BY <2>1, <2>3, <3>1 DEF ArrivalInv
  <2>4. CASE ~(k <= files[1].bytes)
    <3>1. log[k].byte[1] = 2 /\ log[k].byte[2] = k - files[1].bytes
      BY <2>1, <2>4 DEF Stream
    <3>2. /\ files[1].bytes < k
          /\ k - files[1].bytes <= files[2].expected =>
               k <= files[1].bytes + files[2].expected
      BY <2>2, <2>4
    <3> QED
      BY <2>1, <3>1, <3>2 DEF ArrivalInv
  <2> QED
    BY <2>3, <2>4
<1> QED
  BY <1>1, WrittenIsWhole DEF ImagesArriveWhole

(* A loader that ends well has sent all bytes of its files once and in       *)
(* order, and while the ROM is where the loader takes it to be, what each    *)
(* header announces comes to the ROM that is taking that file: for every     *)
(* command line, files, chunk and line, any cuts that reads and writes make, *)
(* and any number of power cycles.                                           *)
THEOREM ImagesAreWhole == Spec => []ImagesArriveWhole
BY LoadInvariant, InvImpliesWhole, PTL
=============================================================================

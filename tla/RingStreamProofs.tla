-------------------------- MODULE RingStreamProofs --------------------------
(***************************************************************************)
(* The receive ring of RingStream keeps to its order for every number and  *)
(* size of blocks, however reads, DPCs and the engine overlap, and thereby *)
(* implements the FIFO of StreamFifo, block by block.                      *)
(***************************************************************************)
EXTENDS RingStream, Sequences, TLAPS

\* The engine's next block, or the first one while the engine is stopped.
Front == IF running THEN next ELSE 0

\* Where a block lies after the head.
Offset(i) == Distance(head, i)

\* EngineProcessRing is through with the results up to here.
Scanned == IF work = "scan" THEN scan ELSE tail

\* EngineRingCopyBytesToMemory has its indices.
Copying == reader \in {"copy", "clear", "store"}

\* The engine runs while the file is open, and a closed ring is empty.
ClosedIsEmpty ==
  /\ running = open
  /\ running \/ (head = 0 /\ tail = 0 /\ credits = 0 /\ reader = "idle")

\* From the head on come the reader, the tail it has seen, the tail, the scan
\* and the engine, in this order.
Order ==
  /\ Offset(tail) <= Offset(Scanned)
  /\ Offset(Scanned) <= Offset(Front)
  /\ reader \in {"wait", "poll"} => processed = 0
  /\ Copying => /\ Offset(at) <= Offset(limit)
                /\ Offset(limit) <= Offset(tail)
                /\ processed = Offset(at)

\* In poll mode only the reader runs EngineProcessRing.
PolledByReader ==
  mode = "poll" => /\ ~dpcQueued
                   /\ running \/ irq => ~intEnabled
                   /\ work # "idle" => reader = "poll"

\* The results with a status are those from the scan to the engine.
Statuses ==
  \A i \in Blocks :
    results[i].status # "none" <=> Offset(Scanned) <= Offset(i) /\ Offset(i) < Offset(Front)

\* The results with a length are those from the reader to the engine.
Lengths ==
  \A i \in Blocks :
    results[i].length # 0 <=> Offset(FirstUnread) <= Offset(i) /\ Offset(i) < Offset(Front)

\* What the ring's steps preserve.
Ordered == CreditsConserved /\ ClosedIsEmpty /\ Order /\ Statuses /\ Lengths

\* The inductive invariant.
IInv == TypeOK /\ PolledByReader /\ Ordered

-----------------------------------------------------------------------------
(* Distances around the ring *)

LEMMA DistanceBounds ==
  ASSUME NEW i \in Blocks, NEW j \in Blocks
  PROVE  Distance(i, j) \in 0..(NumBlocks - 1) /\ (Distance(i, j) = 0 <=> i = j)
BY RingAssumption DEF Distance, Blocks

\* Two blocks at the same distance are the same.
LEMMA DistanceUnique ==
  ASSUME NEW i \in Blocks, NEW j \in Blocks, NEW k \in Blocks, Distance(i, j) = Distance(i, k)
  PROVE  j = k
BY RingAssumption DEF Distance, Blocks

\* EngineRingAdvance goes one block on, unless that leads around the ring.
LEMMA AdvanceDistance ==
  ASSUME NEW i \in Blocks, NEW j \in Blocks
  PROVE  /\ Advance(j) \in Blocks
         /\ Distance(i, j) < NumBlocks - 1 => Distance(i, Advance(j)) = Distance(i, j) + 1
BY RingAssumption DEF Distance, Advance, Blocks

\* Distances from a block further on.
LEMMA DistanceFrom ==
  ASSUME NEW i \in Blocks, NEW j \in Blocks, NEW k \in Blocks
  PROVE  Distance(j, k) = IF Distance(i, j) <= Distance(i, k)
                          THEN Distance(i, k) - Distance(i, j)
                          ELSE Distance(i, k) - Distance(i, j) + NumBlocks
BY RingAssumption DEF Distance, Blocks

-----------------------------------------------------------------------------
(* Types *)

LEMMA EmptyRing ==
  /\ 0 \in Blocks
  /\ [i \in Blocks |-> NoResult]
       \in [Blocks -> [status : {"none", "data", "eop"}, length : 0..BlockSize]]
BY RingAssumption DEF Blocks, NoResult

LEMMA InitTyped == Init => TypeOK
<1> SUFFICES ASSUME Init PROVE TypeOK
  OBVIOUS
<1>1. place \in [Blocks -> 0..MaxBlocks]
  BY RingAssumption DEF Init
<1>2. results \in [Blocks -> [status : {"none", "data", "eop"}, length : 0..BlockSize]]
  BY EmptyRing DEF Init
<1>3. filled \in 0..MaxBlocks /\ last \in 0..MaxBlocks /\ remaining \in 0..MaxRead
      /\ opens \in 0..MaxOpens /\ credits \in Nat /\ processed \in Nat
  BY RingAssumption DEF Init
<1>4. ends \subseteq 1..MaxBlocks
  BY DEF Init
<1>5. QED
  BY <1>1, <1>2, <1>3, <1>4, EmptyRing DEF Init, TypeOK

LEMMA FilledTyped ==
  ASSUME NEW result \in Filled
  PROVE  /\ result \in [status : {"none", "data", "eop"}, length : 0..BlockSize]
         /\ result.status # "none" /\ result.length # 0
BY RingAssumption DEF Filled

LEMMA TypeStep == TypeOK /\ [Next]_vars => TypeOK'
<1> SUFFICES ASSUME TypeOK, [Next]_vars PROVE TypeOK'
  OBVIOUS
<1> USE RingAssumption
<1> DEFINE Result == [status : {"none", "data", "eop"}, length : 0..BlockSize]
<1>0. \A i \in Blocks : Advance(i) \in Blocks
  BY AdvanceDistance
<1>1. CASE FileCreate
  <2>1. credits' \in Nat
    BY <1>1 DEF FileCreate, TypeOK, InitialCredits
  <2>2. intEnabled' \in BOOLEAN /\ next' \in Blocks /\ head' \in Blocks /\ tail' \in Blocks
    BY <1>1, EmptyRing DEF FileCreate, TypeOK
  <2>3. opens' \in 0..MaxOpens
    BY <1>1 DEF FileCreate, TypeOK
  <2>4. QED
    BY <1>1, <2>1, <2>2, <2>3 DEF FileCreate, TypeOK, irqVars, workVars, readVars
<1>2. CASE FileCleanup
  BY <1>2, EmptyRing DEF FileCleanup, TypeOK, irqVars, workVars, readVars
<1>3. CASE HwFill
  <2>1. PICK result \in Filled :
          /\ results' = [results EXCEPT ![next] = result]
          /\ ends' = IF result.status = "eop" THEN ends \cup {filled + 1} ELSE ends
    BY <1>3 DEF HwFill
  <2>2. result \in Result
    BY FilledTyped
  <2>3. results' \in [Blocks -> Result]
    BY <2>1, <2>2 DEF TypeOK
  <2>4. filled + 1 \in 1..MaxBlocks /\ filled' = filled + 1 /\ place' \in [Blocks -> 0..MaxBlocks]
    BY <1>3 DEF HwFill, TypeOK
  <2>5. ends' \subseteq 1..MaxBlocks
    BY <2>1, <2>4 DEF TypeOK
  <2>6. next' \in Blocks /\ credits' \in Nat
    BY <1>3, <1>0 DEF HwFill, TypeOK
  <2>7. QED
    BY <1>3, <2>3, <2>4, <2>5, <2>6 DEF HwFill, TypeOK, ringVars, workVars, readVars, fileVars
<1>4. CASE Isr
  BY <1>4 DEF Isr, TypeOK, hwVars, ringVars, workVars, readVars, fileVars
<1>5. CASE DpcBegin
  BY <1>5 DEF DpcBegin, BeginProcessRing, TypeOK, hwVars, ringVars, readVars, fileVars
<1>6. CASE ScanResult
  <2>1. results' \in [Blocks -> Result]
    BY <1>6 DEF ScanResult, TypeOK
  <2>2. scan' \in Blocks
    BY <1>6, <1>0 DEF ScanResult, TypeOK
  <2>3. QED
    BY <1>6, <2>1, <2>2 DEF ScanResult, TypeOK, ringVars, irqVars, readVars, fileVars
<1>7. CASE StoreTail
  BY <1>7 DEF StoreTail, TypeOK, hwVars, irqVars, readVars, fileVars
<1>8. CASE SignalReader
  BY <1>8 DEF SignalReader, TypeOK, hwVars, irqVars, readVars, fileVars
<1>9. CASE DpcEnd
  BY <1>9 DEF DpcEnd, TypeOK, hwVars, ringVars, readVars, fileVars
<1>10. ASSUME NEW length \in 1..MaxRead, Read(length) PROVE TypeOK'
  BY <1>10 DEF Read, TypeOK, hwVars, ringVars, irqVars, workVars, fileVars
<1>11. CASE PollBegin
  BY <1>11 DEF PollBegin, BeginProcessRing, TypeOK, hwVars, ringVars, readVars, fileVars
<1>12. CASE PollEnd
  BY <1>12 DEF PollEnd, TypeOK, hwVars, ringVars, fileVars
<1>13. CASE PollTimesOut \/ WaitEnds
  <2>1. reader' = "copy" /\ at' = head /\ limit' = tail
    BY <1>13 DEF PollTimesOut, WaitEnds
  <2>2. /\ UNCHANGED <<hwVars, ringVars, irqVars, workVars>>
        /\ UNCHANGED <<remaining, processed, last, fileVars>>
    BY <1>13 DEF PollTimesOut, WaitEnds
  <2>3. QED
    BY <2>1, <2>2 DEF TypeOK, hwVars, ringVars, irqVars, workVars, fileVars
<1>14. CASE ReadTimesOut \/ CopyEnds \/ ClearSignal
  <2>1. /\ UNCHANGED <<hwVars, head, tail, irqVars, workVars, at, limit, remaining, processed>>
        /\ UNCHANGED <<last, fileVars>>
    BY <1>14 DEF ReadTimesOut, CopyEnds, ClearSignal, ringVars
  <2>2. reader' \in {"idle", "clear", "store"}
    BY <1>14 DEF ReadTimesOut, CopyEnds, ClearSignal
  <2>3. completionSignal' \in BOOLEAN
    BY <1>14 DEF ReadTimesOut, CopyEnds, ClearSignal, ringVars, TypeOK
  <2>4. QED
    BY <2>1, <2>2, <2>3 DEF TypeOK, hwVars, irqVars, workVars, fileVars
<1>15. CASE CopyBlock
  <2>1. results[at].length \in 0..BlockSize /\ remaining' \in 0..MaxRead /\ processed' \in Nat
    BY <1>15 DEF CopyBlock, TypeOK
  <2>2. results' \in [Blocks -> Result]
    BY <1>15 DEF CopyBlock, TypeOK
  <2>3. at' \in Blocks /\ last' \in 0..MaxBlocks
    BY <1>15, <1>0 DEF CopyBlock, TypeOK
  <2>4. QED
    BY <1>15, <2>1, <2>2, <2>3 DEF CopyBlock, TypeOK, ringVars, irqVars, workVars, fileVars
<1>16. CASE StoreHead
  BY <1>16 DEF StoreHead, TypeOK, irqVars, workVars, fileVars
<1>17. CASE UNCHANGED vars
  BY <1>17 DEF TypeOK, vars, hwVars, ringVars, irqVars, workVars, readVars, fileVars
<1>18. QED
  BY <1>1, <1>2, <1>3, <1>4, <1>5, <1>6, <1>7, <1>8, <1>9, <1>10, <1>11, <1>12, <1>13, <1>14,
     <1>15, <1>16, <1>17 DEF Next, ProcessRingStep, CopyStep, Finished

-----------------------------------------------------------------------------
(* Who runs EngineProcessRing in poll mode *)

LEMMA InitPolled == Init => PolledByReader
BY DEF Init, PolledByReader

LEMMA PolledStep == PolledByReader /\ [Next]_vars => PolledByReader'
<1> SUFFICES ASSUME PolledByReader, [Next]_vars, mode' = "poll" PROVE PolledByReader'
  BY DEF PolledByReader
<1> USE DEF PolledByReader, hwVars, ringVars, irqVars, workVars, readVars, fileVars
<1>1. CASE FileCreate \/ FileCleanup \/ HwFill
  BY <1>1 DEF FileCreate, FileCleanup, HwFill
<1>2. CASE Isr \/ DpcBegin \/ ScanResult \/ StoreTail \/ SignalReader \/ DpcEnd
  BY <1>2 DEF Isr, DpcBegin, BeginProcessRing, ScanResult, StoreTail, SignalReader, DpcEnd
<1>3. ASSUME NEW length \in 1..MaxRead, Read(length) PROVE PolledByReader'
  BY <1>3 DEF Read
<1>4. CASE PollBegin \/ PollEnd \/ PollTimesOut \/ ReadTimesOut
  BY <1>4 DEF PollBegin, BeginProcessRing, PollEnd, PollTimesOut, ReadTimesOut
<1>5. CASE WaitEnds \/ CopyBlock \/ CopyEnds \/ ClearSignal \/ StoreHead \/ UNCHANGED vars
  BY <1>5 DEF WaitEnds, CopyBlock, CopyEnds, ClearSignal, StoreHead, vars
<1>6. QED
  BY <1>1, <1>2, <1>3, <1>4, <1>5 DEF Next, ProcessRingStep, CopyStep, Finished

-----------------------------------------------------------------------------
(* The order of the indices *)

LEMMA InitOrdered == Init => Ordered
<1> SUFFICES ASSUME Init PROVE Ordered
  OBVIOUS
<1>1. CreditsConserved /\ ClosedIsEmpty
  BY DEF Init, CreditsConserved, ClosedIsEmpty
<1>2. Offset(0) = 0 /\ \A i \in Blocks : Offset(i) \in Nat
  BY EmptyRing, DistanceBounds DEF Init, Offset
<1>3. Order
  BY <1>2 DEF Init, Order, Scanned, Front, Copying
<1>4. Statuses /\ Lengths
  BY <1>2 DEF Init, Statuses, Lengths, Scanned, FirstUnread, Front, NoResult
<1>5. QED
  BY <1>1, <1>3, <1>4 DEF Ordered

\* The indices as numbers, counted from the head.
LEMMA OffsetBounds ==
  ASSUME TypeOK
  PROVE  /\ \A i \in Blocks : Offset(i) \in 0..(NumBlocks - 1)
         /\ Front \in Blocks /\ Scanned \in Blocks /\ FirstUnread \in Blocks
         /\ Offset(head) = 0
BY DistanceBounds, EmptyRing DEF TypeOK, Offset, Front, Scanned, FirstUnread

\* A step that moves neither the indices of the ring nor the results.
LEMMA CalmStep ==
  ASSUME IInv, UNCHANGED <<running, next, credits, open, results, head, tail>>,
         Scanned' = Scanned, FirstUnread' = FirstUnread,
         ~running => reader' = "idle",
         reader' \in {"wait", "poll"} => processed' = 0,
         Copying' => /\ Offset(at') <= Offset(limit')
                     /\ Offset(limit') <= Offset(tail)
                     /\ processed' = Offset(at')
  PROVE  Ordered'
<1>1. Front' = Front /\ \A i : Offset(i)' = Offset(i)
  BY DEF Front, Offset, Distance
<1>2. CreditsConserved' /\ ClosedIsEmpty'
  BY DEF IInv, Ordered, CreditsConserved, ClosedIsEmpty, Distance
<1>3. Offset(Scanned)' = Offset(Scanned) /\ Offset(tail)' = Offset(tail)
      /\ Offset(Front)' = Offset(Front) /\ Offset(FirstUnread)' = Offset(FirstUnread)
  BY <1>1 DEF Offset, Distance
<1>4. Offset(at)' = Offset(at') /\ Offset(limit)' = Offset(limit')
  BY DEF Offset, Distance
<1>5. Order'
  BY <1>3, <1>4 DEF IInv, Ordered, Order
<1>6. Statuses'
  BY <1>1, <1>3 DEF IInv, Ordered, Statuses
<1>7. Lengths'
  BY <1>1, <1>3 DEF IInv, Ordered, Lengths
<1>8. QED
  BY <1>2, <1>5, <1>6, <1>7 DEF Ordered

\* Signals, interrupts and the start and end of EngineProcessRing.
LEMMA SignalStep ==
  ASSUME IInv,
         Isr \/ DpcBegin \/ SignalReader \/ DpcEnd \/ PollBegin \/ UNCHANGED vars
  PROVE  Ordered'
<1>1. UNCHANGED <<hwVars, head, tail, readVars, fileVars>>
  BY DEF Isr, DpcBegin, SignalReader, DpcEnd, PollBegin, vars, ringVars
<1>2. Scanned' = Scanned
  BY DEF Isr, DpcBegin, SignalReader, DpcEnd, PollBegin, BeginProcessRing, vars, ringVars, workVars,
         Scanned
<1>3. UNCHANGED <<running, next, credits, open, results, head, tail, reader, at, limit, processed>>
  BY <1>1 DEF hwVars, readVars, fileVars
<1>4. FirstUnread' = FirstUnread
  BY <1>3 DEF FirstUnread
<1>5. QED
  BY <1>2, <1>3, <1>4, CalmStep DEF IInv, Ordered, ClosedIsEmpty, Order, Copying

\* The reader gets to the copy loop and out of it.
LEMMA ReaderStep ==
  ASSUME IInv,
         \/ \E length \in 1..MaxRead : Read(length)
         \/ PollEnd \/ PollTimesOut \/ ReadTimesOut \/ WaitEnds \/ CopyEnds \/ ClearSignal
  PROVE  Ordered'
<1>1. UNCHANGED <<running, next, credits, open, results, head, tail, scan>>
  BY DEF Read, PollEnd, PollTimesOut, ReadTimesOut, WaitEnds, CopyEnds, ClearSignal, hwVars,
         ringVars, workVars, fileVars
<1>2. Scanned' = Scanned
  BY <1>1 DEF Read, PollEnd, PollTimesOut, ReadTimesOut, WaitEnds, CopyEnds, ClearSignal, workVars,
         Scanned
<1>3. \/ /\ reader \in {"wait", "poll", "copy", "clear"} /\ UNCHANGED <<at, limit, processed>>
         /\ \/ reader' = "idle" /\ reader = "wait"
            \/ reader' = reader
            \/ reader' \in {"clear", "store"} /\ Copying
      \/ reader = "idle" /\ open /\ reader' \in {"wait", "poll"} /\ processed' = 0
      \/ /\ reader \in {"wait", "poll"} /\ reader' = "copy"
         /\ at' = head /\ limit' = tail /\ UNCHANGED processed
  BY DEF Read, PollEnd, PollTimesOut, ReadTimesOut, WaitEnds, CopyEnds, ClearSignal, Copying, IInv,
         PolledByReader
<1>4. FirstUnread' = FirstUnread
  BY <1>1, <1>3 DEF FirstUnread, Copying
<1>5. running
  BY <1>3 DEF IInv, Ordered, ClosedIsEmpty, Copying
<1>6. Offset(head) = 0 /\ Offset(tail) \in Nat
  BY OffsetBounds DEF IInv, TypeOK
<1>7. CASE reader \in {"wait", "poll"} /\ reader' = "copy"
  <2>1. processed' = 0 /\ at' = head /\ limit' = tail
    BY <1>3, <1>7 DEF IInv, Ordered, Order
  <2>2. QED
    BY <1>1, <1>2, <1>4, <1>5, <1>6, <1>7, <2>1, CalmStep DEF Copying
<1>8. CASE ~(reader \in {"wait", "poll"} /\ reader' = "copy")
  <2>1. reader' \in {"wait", "poll"} => processed' = 0
    BY <1>3, <1>8 DEF IInv, Ordered, Order, Copying
  <2>2. Copying' => Copying /\ UNCHANGED <<at, limit, processed>>
    BY <1>3, <1>8 DEF Copying
  <2>3. QED
    BY <1>1, <1>2, <1>4, <1>5, <2>1, <2>2, CalmStep DEF IInv, Ordered, Order
<1>9. QED
  BY <1>7, <1>8

\* The file is opened or closed: the indices are reset, and no result is left.
LEMMA FileStep ==
  ASSUME IInv, FileCreate \/ FileCleanup
  PROVE  Ordered'
<1>1. running' = open' /\ head' = 0 /\ tail' = 0 /\ reader' = reader /\ reader = "idle"
  BY DEF FileCreate, FileCleanup, IInv, Ordered, ClosedIsEmpty, readVars
<1>2. \A i \in Blocks : results'[i].status = "none" /\ results'[i].length = 0
  <2>1. CASE FileCleanup
    BY <2>1 DEF FileCleanup, NoResult
  <2>2. CASE FileCreate
    <3>1. ~running /\ head = 0 /\ tail = 0 /\ results' = results
      BY <2>2 DEF FileCreate, IInv, Ordered, ClosedIsEmpty
    <3>2. \A i \in Blocks : Offset(i) \in Nat /\ ~(Offset(i) < Offset(0))
      BY <3>1, EmptyRing, DistanceBounds DEF Offset
    <3>3. Front = 0 /\ FirstUnread = 0
      BY <1>1, <3>1 DEF Front, FirstUnread
    <3>4. \A i \in Blocks : results[i].status = "none" /\ results[i].length = 0
      BY <3>2, <3>3 DEF IInv, Ordered, Statuses, Lengths
    <3>5. QED
      BY <3>1, <3>4
  <2>3. QED
    BY <2>1, <2>2
<1>3. Front' = 0
  BY EmptyRing DEF FileCreate, FileCleanup, Front, IInv, Ordered, ClosedIsEmpty
<1>4. Scanned' = 0
  <2>1. CASE FileCleanup
    BY <1>1, <2>1 DEF FileCleanup, workVars, Scanned
  <2>2. CASE FileCreate
    <3>1. ~running /\ head = 0 /\ tail = 0 /\ work' = work /\ scan' = scan
      BY <2>2 DEF FileCreate, IInv, Ordered, ClosedIsEmpty, workVars
    <3>2. Front = 0 /\ Offset(0) = 0 /\ Offset(Scanned) <= Offset(Front)
      BY <3>1, EmptyRing, DistanceBounds DEF Front, Offset, IInv, Ordered, Order
    <3>3. Scanned \in Blocks
      BY OffsetBounds DEF IInv
    <3>4. Scanned = 0
      BY <3>1, <3>2, <3>3, EmptyRing, DistanceBounds, OffsetBounds DEF Offset, IInv
    <3>5. QED
      BY <1>1, <3>1, <3>4 DEF Scanned
  <2>3. QED
    BY <2>1, <2>2
<1>5. FirstUnread' = 0
  BY <1>1 DEF FirstUnread
<1>6. Distance(0, 0) = 0 /\ \A i \in Blocks : Distance(0, i) \in Nat
  BY EmptyRing, DistanceBounds
<1>7. Offset(tail)' = 0 /\ Offset(Scanned)' = 0 /\ Offset(Front)' = 0 /\ Offset(FirstUnread)' = 0
      /\ \A i \in Blocks : Offset(i)' = Distance(0, i)
  BY <1>1, <1>3, <1>4, <1>5, <1>6 DEF Offset, Distance
<1>8. CreditsConserved'
  <2>1. CASE FileCreate
    BY <1>1, <1>3, <1>6, <2>1, RingAssumption
    DEF FileCreate, CreditsConserved, Front, InitialCredits, IInv, Ordered, ClosedIsEmpty
  <2>2. CASE FileCleanup
    BY <2>2 DEF FileCleanup, CreditsConserved
  <2>3. QED
    BY <2>1, <2>2
<1>9. ClosedIsEmpty'
  BY <1>1 DEF FileCreate, FileCleanup, ClosedIsEmpty
<1>10. Order'
  BY <1>1, <1>7 DEF Order, Copying
<1>11. Statuses' /\ Lengths'
  BY <1>2, <1>6, <1>7 DEF Statuses, Lengths
<1>12. QED
  BY <1>8, <1>9, <1>10, <1>11 DEF Ordered

\* The engine fills the block that is free.
LEMMA FillStep ==
  ASSUME IInv, HwFill
  PROVE  Ordered'
<1>1. running /\ credits > 0 /\ next' = Advance(next) /\ credits' = credits - 1
      /\ UNCHANGED <<running, open, head, tail, work, scan, reader, at, limit, processed>>
  BY DEF HwFill, ringVars, workVars, readVars, fileVars
<1>2. PICK result \in Filled : results' = [results EXCEPT ![next] = result]
  BY DEF HwFill
<1>3. head \in Blocks /\ next \in Blocks /\ credits \in Nat /\ Front = next
      /\ results \in [Blocks -> [status : {"none", "data", "eop"}, length : 0..BlockSize]]
  BY <1>1 DEF IInv, TypeOK, Front
<1>4. Offset(next) = NumBlocks - 1 - credits /\ Offset(next) \in 0..(NumBlocks - 1)
  BY <1>1, <1>3, DistanceBounds, RingAssumption DEF Offset, IInv, Ordered, CreditsConserved
<1>5. Offset(Advance(next)) = Offset(next) + 1 /\ Front' = Advance(next)
  BY <1>1, <1>3, <1>4, AdvanceDistance, RingAssumption DEF Offset, Front
<1>6. Scanned' = Scanned /\ FirstUnread' = FirstUnread /\ (\A i : Offset(i)' = Offset(i))
  BY <1>1 DEF Scanned, FirstUnread, Offset, Distance
<1>7. /\ Offset(Front)' = Offset(next) + 1
      /\ Offset(Scanned)' = Offset(Scanned) /\ Offset(FirstUnread)' = Offset(FirstUnread)
      /\ Offset(tail)' = Offset(tail) /\ Offset(at)' = Offset(at) /\ Offset(limit)' = Offset(limit)
  BY <1>1, <1>5, <1>6 DEF Offset, Distance
<1>8. /\ \A i \in Blocks : Offset(i) \in Nat
      /\ Offset(Scanned) \in Nat /\ Offset(FirstUnread) \in Nat /\ Offset(tail) \in Nat
  BY <1>3, OffsetBounds DEF IInv, TypeOK
<1>9. Offset(FirstUnread) <= Offset(next) /\ Offset(Scanned) <= Offset(next)
  BY <1>3, <1>8, OffsetBounds DEF IInv, Ordered, Order, FirstUnread, Copying, TypeOK
<1>10. CreditsConserved'
  BY <1>1, <1>3, <1>4, <1>5, <1>6, RingAssumption DEF CreditsConserved, Offset
<1>11. ClosedIsEmpty'
  BY <1>1 DEF IInv, Ordered, ClosedIsEmpty
<1>12. Order'
  BY <1>1, <1>3, <1>4, <1>7, <1>8 DEF IInv, Ordered, Order, Copying
<1>13. result.status # "none" /\ result.length # 0
  BY FilledTyped
<1>14. \A i \in Blocks \ {next} : results'[i] = results[i] /\ Offset(i) # Offset(next)
  BY <1>2, <1>3, DistanceUnique DEF Offset
<1>15. results'[next] = result
  BY <1>2, <1>3
<1>16. Statuses'
  BY <1>3, <1>4, <1>6, <1>7, <1>8, <1>9, <1>13, <1>14, <1>15 DEF IInv, Ordered, Statuses
<1>17. Lengths'
  BY <1>3, <1>4, <1>6, <1>7, <1>8, <1>9, <1>13, <1>14, <1>15 DEF IInv, Ordered, Lengths
<1>18. QED
  BY <1>10, <1>11, <1>12, <1>16, <1>17 DEF Ordered

\* EngineProcessRing clears the status of a result and goes on.
LEMMA ScanStep ==
  ASSUME IInv, ScanResult
  PROVE  Ordered'
<1>1. /\ work = "scan" /\ results[scan].status # "none"
      /\ results' = [results EXCEPT ![scan].status = "none"]
      /\ scan' = Advance(scan) /\ UNCHANGED work
      /\ UNCHANGED <<running, next, credits, open, head, tail, reader, at, limit, processed>>
  BY DEF ScanResult, ringVars, readVars, fileVars
<1>2. head \in Blocks /\ scan \in Blocks /\ Scanned = scan /\ Scanned' = Advance(scan)
      /\ results \in [Blocks -> [status : {"none", "data", "eop"}, length : 0..BlockSize]]
  BY <1>1 DEF IInv, TypeOK, Scanned
<1>3. /\ \A i \in Blocks : Offset(i) \in 0..(NumBlocks - 1)
      /\ Offset(Front) \in 0..(NumBlocks - 1) /\ Offset(tail) \in 0..(NumBlocks - 1)
  BY OffsetBounds DEF IInv, TypeOK
<1>4. Offset(scan) < Offset(Front)
  BY <1>1, <1>2 DEF IInv, Ordered, Statuses
<1>5. Offset(Advance(scan)) = Offset(scan) + 1
  BY <1>2, <1>3, <1>4, AdvanceDistance, RingAssumption DEF Offset
<1>6. Front' = Front /\ FirstUnread' = FirstUnread /\ (\A i : Offset(i)' = Offset(i))
  BY <1>1 DEF Front, FirstUnread, Offset, Distance
<1>7. /\ Offset(Scanned)' = Offset(scan) + 1
      /\ Offset(Front)' = Offset(Front) /\ Offset(FirstUnread)' = Offset(FirstUnread)
      /\ Offset(tail)' = Offset(tail) /\ Offset(at)' = Offset(at) /\ Offset(limit)' = Offset(limit)
  BY <1>1, <1>2, <1>5, <1>6 DEF Offset, Distance
<1>8. \A i \in Blocks \ {scan} : results'[i] = results[i] /\ Offset(i) # Offset(scan)
  BY <1>1, <1>2, DistanceUnique DEF Offset
<1>9. results'[scan].status = "none" /\ results'[scan].length = results[scan].length
  BY <1>1, <1>2
<1>10. CreditsConserved' /\ ClosedIsEmpty'
  BY <1>1 DEF IInv, Ordered, CreditsConserved, ClosedIsEmpty, Distance
<1>11. Order'
  BY <1>1, <1>2, <1>3, <1>4, <1>7 DEF IInv, Ordered, Order, Copying
<1>12. Statuses'
  BY <1>2, <1>3, <1>6, <1>7, <1>8, <1>9 DEF IInv, Ordered, Statuses
<1>13. Lengths'
  BY <1>2, <1>6, <1>7, <1>8, <1>9 DEF IInv, Ordered, Lengths
<1>14. QED
  BY <1>10, <1>11, <1>12, <1>13 DEF Ordered

\* EngineProcessRing has come to the engine and stores the tail.
LEMMA TailStep ==
  ASSUME IInv, StoreTail
  PROVE  Ordered'
<1>1. /\ work = "scan" /\ work' = "signal" /\ tail' = scan
      /\ UNCHANGED <<running, next, credits, open, results, head, reader, at, limit, processed>>
  BY DEF StoreTail, hwVars, readVars, fileVars
<1>2. Scanned = scan /\ Scanned' = scan /\ Front' = Front /\ FirstUnread' = FirstUnread
      /\ (\A i : Offset(i)' = Offset(i))
  BY <1>1 DEF Scanned, Front, FirstUnread, Offset, Distance
<1>3. /\ Offset(Scanned)' = Offset(scan) /\ Offset(tail)' = Offset(scan)
      /\ Offset(Front)' = Offset(Front) /\ Offset(FirstUnread)' = Offset(FirstUnread)
      /\ Offset(at)' = Offset(at) /\ Offset(limit)' = Offset(limit)
  BY <1>1, <1>2 DEF Offset, Distance
<1>4. /\ Offset(scan) \in Nat /\ Offset(tail) \in Nat /\ Offset(limit) \in Nat
  BY OffsetBounds DEF IInv, TypeOK
<1>5. CreditsConserved'
  BY <1>1, <1>2 DEF IInv, Ordered, CreditsConserved, Distance
<1>6. ClosedIsEmpty'
  <2>1. running \/ scan = 0
    <3>1. CASE ~running
      <4>1. head = 0 /\ Front = 0 /\ Offset(scan) <= Offset(0)
        BY <1>2, <3>1 DEF IInv, Ordered, ClosedIsEmpty, Order, Front
      <4>2. Distance(0, 0) = 0 /\ Distance(0, scan) \in Nat /\ (Distance(0, scan) = 0 => scan = 0)
        BY EmptyRing, DistanceBounds DEF IInv, TypeOK
      <4>3. QED
        BY <4>1, <4>2 DEF Offset
    <3>2. QED
      BY <3>1
  <2>2. QED
    BY <1>1, <2>1 DEF IInv, Ordered, ClosedIsEmpty
<1>7. Order'
  BY <1>1, <1>2, <1>3, <1>4 DEF IInv, Ordered, Order, Copying
<1>8. Statuses' /\ Lengths'
  BY <1>1, <1>2, <1>3 DEF IInv, Ordered, Statuses, Lengths
<1>9. QED
  BY <1>5, <1>6, <1>7, <1>8 DEF Ordered

\* The reader has copied a block.
LEMMA BlockStep ==
  ASSUME IInv, CopyBlock
  PROVE  Ordered'
<1>1. /\ reader = "copy" /\ at # limit /\ processed' = processed + 1 /\ at' = Advance(at)
      /\ results' = [results EXCEPT ![at].length = 0]
      /\ UNCHANGED <<running, next, credits, open, head, tail, work, scan, reader, limit>>
  BY DEF CopyBlock, ringVars, workVars, fileVars
<1>2. head \in Blocks /\ at \in Blocks /\ limit \in Blocks /\ tail \in Blocks /\ processed \in Nat
      /\ results \in [Blocks -> [status : {"none", "data", "eop"}, length : 0..BlockSize]]
  BY DEF IInv, TypeOK
<1>3. FirstUnread = at /\ FirstUnread' = Advance(at)
  BY <1>1 DEF FirstUnread
<1>4. \A i \in Blocks : Offset(i) \in 0..(NumBlocks - 1)
  BY OffsetBounds DEF IInv
<1>5. Offset(at) < Offset(limit)
  BY <1>1, <1>2, <1>4, DistanceUnique DEF IInv, Ordered, Order, Copying, Offset
<1>6. Offset(Advance(at)) = Offset(at) + 1
  BY <1>2, <1>4, <1>5, AdvanceDistance, RingAssumption DEF Offset
<1>7. Front' = Front /\ Scanned' = Scanned /\ (\A i : Offset(i)' = Offset(i))
  BY <1>1 DEF Front, Scanned, Offset, Distance
<1>8. /\ Offset(FirstUnread)' = Offset(at) + 1 /\ Offset(at)' = Offset(at) + 1
      /\ Offset(Front)' = Offset(Front) /\ Offset(Scanned)' = Offset(Scanned)
      /\ Offset(tail)' = Offset(tail) /\ Offset(limit)' = Offset(limit)
  BY <1>1, <1>3, <1>6, <1>7 DEF Offset, Distance
<1>9. \A i \in Blocks \ {at} : results'[i] = results[i] /\ Offset(i) # Offset(at)
  BY <1>1, <1>2, DistanceUnique DEF Offset
<1>10. results'[at].length = 0 /\ results'[at].status = results[at].status
  BY <1>1, <1>2
<1>11. CreditsConserved' /\ ClosedIsEmpty'
  BY <1>1 DEF IInv, Ordered, CreditsConserved, ClosedIsEmpty, Distance
<1>12. Order'
  BY <1>1, <1>2, <1>4, <1>5, <1>8 DEF IInv, Ordered, Order, Copying
<1>13. Statuses'
  BY <1>2, <1>7, <1>8, <1>9, <1>10 DEF IInv, Ordered, Statuses
<1>14. Lengths'
  BY <1>2, <1>3, <1>4, <1>7, <1>8, <1>9, <1>10 DEF IInv, Ordered, Lengths
<1>15. QED
  BY <1>11, <1>12, <1>13, <1>14 DEF Ordered

\* The head moves to the reader's place and the blocks' credits are given back.
LEMMA HeadStep ==
  ASSUME IInv, StoreHead
  PROVE  Ordered'
<1>1. /\ reader = "store" /\ reader' = "idle" /\ head' = at /\ credits' = credits + processed
      /\ UNCHANGED <<running, next, open, results, tail, work, scan>>
  BY DEF StoreHead, workVars, fileVars
<1>2. head \in Blocks /\ at \in Blocks /\ tail \in Blocks /\ limit \in Blocks /\ next \in Blocks
      /\ credits \in Nat
  BY DEF IInv, TypeOK
<1>3. /\ \A i \in Blocks : Offset(i) \in 0..(NumBlocks - 1)
      /\ Front \in Blocks /\ Scanned \in Blocks
  BY OffsetBounds DEF IInv
<1>4. /\ processed = Offset(at) /\ Offset(at) <= Offset(tail) /\ Offset(at) <= Offset(Scanned)
      /\ Offset(at) <= Offset(Front)
  BY <1>1, <1>2, <1>3 DEF IInv, Ordered, Order, Copying
<1>5. Front' = Front /\ Scanned' = Scanned /\ FirstUnread = at /\ FirstUnread' = at
      /\ running /\ Front = next
  BY <1>1 DEF Front, Scanned, FirstUnread, IInv, Ordered, ClosedIsEmpty
<1>6. \A i \in Blocks : Distance(at, i) = IF Offset(at) <= Offset(i) THEN Offset(i) - Offset(at)
                                        ELSE Offset(i) - Offset(at) + NumBlocks
  BY <1>2, DistanceFrom DEF Offset
<1>7. \A i \in Blocks : Offset(i)' = Distance(at, i)
  BY <1>1 DEF Offset, Distance
<1>8. /\ Offset(tail)' = Offset(tail) - Offset(at) /\ Offset(Front)' = Offset(Front) - Offset(at)
      /\ Offset(Scanned)' = Offset(Scanned) - Offset(at) /\ Offset(FirstUnread)' = 0
  <2>1. /\ Offset(tail)' = Distance(at, tail) /\ Offset(Front)' = Distance(at, Front)
        /\ Offset(Scanned)' = Distance(at, Scanned) /\ Offset(FirstUnread)' = Distance(at, at)
    BY <1>1, <1>5 DEF Offset, Distance
  <2>2. QED
    BY <1>2, <1>3, <1>4, <1>6, <2>1
<1>9. CreditsConserved'
  <2>1. Distance(head', next') = Offset(next) - Offset(at)
    BY <1>1, <1>2, <1>4, <1>5, <1>6 DEF Distance
  <2>2. credits + Offset(next) = NumBlocks - 1
    BY <1>5 DEF IInv, Ordered, CreditsConserved, Offset
  <2>3. QED
    BY <1>1, <1>2, <1>3, <1>4, <2>1, <2>2, RingAssumption DEF CreditsConserved, Distance
<1>10. ClosedIsEmpty'
  BY <1>1, <1>5 DEF IInv, Ordered, ClosedIsEmpty
<1>11. Order'
  BY <1>1, <1>2, <1>3, <1>4, <1>8 DEF IInv, Ordered, Order, Copying
<1>12. Statuses'
  BY <1>1, <1>2, <1>3, <1>4, <1>6, <1>7, <1>8, RingAssumption DEF IInv, Ordered, Statuses
<1>13. Lengths'
  BY <1>1, <1>2, <1>3, <1>4, <1>5, <1>6, <1>7, <1>8, RingAssumption DEF IInv, Ordered, Lengths
<1>14. QED
  BY <1>9, <1>10, <1>11, <1>12, <1>13 DEF Ordered

LEMMA RingStep == IInv /\ [Next]_vars => IInv'
<1> SUFFICES ASSUME IInv, [Next]_vars PROVE IInv'
  OBVIOUS
<1>1. TypeOK' /\ PolledByReader'
  BY TypeStep, PolledStep DEF IInv
<1>2. Ordered'
  BY SignalStep, ReaderStep, FileStep, FillStep, ScanStep, TailStep, BlockStep, HeadStep
  DEF Next, ProcessRingStep, CopyStep, Finished
<1>3. QED
  BY <1>1, <1>2 DEF IInv

-----------------------------------------------------------------------------

\* Between them the reader, EngineProcessRing and the engine keep the ring in
\* order: who is where, and which results are set (EngineProcessRing,
\* EngineRingCopyBytesToMemory).
THEOREM RingInvariant == Spec => []IInv
<1>1. Init => IInv
  BY InitTyped, InitPolled, InitOrdered DEF IInv
<1>2. QED
  BY <1>1, RingStep, PTL DEF Spec

\* Every variable of the ring keeps its type, every index stays in the ring.
THEOREM TypeCorrect == Spec => []TypeOK
BY RingInvariant, PTL DEF IInv

\* The credits of the engine and the blocks it is ahead of the head always add
\* up to one less than the ring.
THEOREM CreditsAlwaysConserved == Spec => []CreditsConserved
BY RingInvariant, PTL DEF IInv, Ordered

\* The loop of EngineProcessRing always has a block without status to stop at.
THEOREM ScanAlwaysStops == Spec => []ScanStops
<1>1. IInv => ScanStops
  <2> SUFFICES ASSUME IInv PROVE ScanStops
    OBVIOUS
  <2>1. Front \in Blocks
    BY OffsetBounds DEF IInv
  <2>2. results[Front].status = "none"
    BY <2>1, OffsetBounds DEF IInv, Ordered, Statuses
  <2>3. QED
    BY <2>1, <2>2 DEF ScanStops
<1>2. QED
  BY <1>1, RingInvariant, PTL

\* The reader never comes to a block without data before the tail it has read.
THEOREM NeverEmptyBlock == Spec => []NoEmptyBlock
<1>1. IInv => NoEmptyBlock
  <2> SUFFICES ASSUME IInv, reader = "copy", at # limit PROVE results[at].length # 0
    BY DEF NoEmptyBlock
  <2>1. head \in Blocks /\ at \in Blocks /\ limit \in Blocks /\ tail \in Blocks
    BY DEF IInv, TypeOK
  <2>2. /\ Offset(at) <= Offset(limit) /\ Offset(limit) <= Offset(tail)
        /\ Offset(tail) <= Offset(Scanned) /\ Offset(Scanned) <= Offset(Front)
    BY DEF IInv, Ordered, Order, Copying
  <2>3. Offset(at) # Offset(limit)
    BY <2>1, DistanceUnique DEF Offset
  <2>4. Offset(at) < Offset(Front) /\ FirstUnread = at /\ Offset(at) \in Nat
    BY <2>1, <2>2, <2>3, OffsetBounds DEF IInv, FirstUnread
  <2>5. QED
    BY <2>1, <2>4 DEF IInv, Ordered, Lengths
<1>2. QED
  BY <1>1, RingInvariant, PTL

-----------------------------------------------------------------------------
(* The FIFO *)

\* The k-th block the reader has not copied.
Block(k) == (FirstUnread + k - 1) % NumBlocks

\* How many there are.
Backlog == Distance(FirstUnread, next)

-----------------------------------------------------------------------------

LEMMA BlockPlace ==
  ASSUME NEW b \in Blocks, NEW k \in 1..NumBlocks
  PROVE  /\ (b + k - 1) % NumBlocks \in Blocks
         /\ Distance(b, (b + k - 1) % NumBlocks) = k - 1
<1> DEFINE x == b + k - 1
<1>0. NumBlocks \in Nat \ {0} /\ x \in 0..(2 * NumBlocks - 2)
  BY RingAssumption DEF Blocks
<1>1. x % NumBlocks = IF x < NumBlocks THEN x ELSE x - NumBlocks
  <2> HIDE DEF x
  <2>1. QED
    BY <1>0
<1>2. QED
  BY <1>0, <1>1 DEF Blocks, Distance

LEMMA UnreadBlocks ==
  ASSUME IInv
  PROVE  /\ FirstUnread \in Blocks /\ next \in Blocks
         /\ Backlog \in 0..(NumBlocks - 1)
         /\ \A k \in 1..NumBlocks :
              Block(k) \in Blocks /\ Distance(FirstUnread, Block(k)) = k - 1
BY BlockPlace, DistanceBounds, OffsetBounds DEF IInv, TypeOK, Block, Backlog

LEMMA UnreadSeq ==
  ASSUME IInv, running
  PROVE  /\ Unread = [k \in 1..Backlog |-> place[Block(k)]]
         /\ Unread \in Seq(0..MaxBlocks) /\ Len(Unread) = Backlog
<1>1. Unread = [k \in 1..Backlog |-> place[Block(k)]]
  BY DEF Unread, Backlog, Block
<1>2. Backlog \in Nat /\ \A k \in 1..Backlog : place[Block(k)] \in 0..MaxBlocks
  <2>1. Backlog \in 0..(NumBlocks - 1) /\ \A k \in 1..NumBlocks : Block(k) \in Blocks
    BY UnreadBlocks
  <2>2. place \in [Blocks -> 0..MaxBlocks]
    BY DEF IInv, TypeOK
  <2>3. QED
    BY <2>1, <2>2, RingAssumption
<1>3. QED
  BY <1>1, <1>2

\* The reader is behind the engine by less than the ring: what is not read is
\* what the engine has no credit for, less what the reader has copied.
LEMMA BacklogBounds ==
  ASSUME IInv, running
  PROVE  credits > 0 => Backlog < NumBlocks - 1
<1>1. head \in Blocks /\ next \in Blocks /\ at \in Blocks /\ credits \in Nat
  BY DEF IInv, TypeOK
<1>2. credits + Offset(next) = NumBlocks - 1 /\ Front = next
  BY DEF IInv, Ordered, CreditsConserved, Offset, Front
<1>3. CASE Copying
  <2>1. FirstUnread = at /\ Offset(at) <= Offset(next)
    BY <1>1, <1>2, <1>3, OffsetBounds DEF IInv, TypeOK, Ordered, Order, Copying, FirstUnread
  <2>2. Backlog = Offset(next) - Offset(at)
    BY <1>1, <2>1, DistanceFrom DEF Backlog, Offset
  <2>3. QED
    BY <1>1, <1>2, <2>2, OffsetBounds, RingAssumption DEF IInv
<1>4. CASE ~Copying
  BY <1>1, <1>2, <1>4, OffsetBounds, RingAssumption DEF IInv, Copying, FirstUnread, Backlog, Offset
<1>5. QED
  BY <1>3, <1>4

\* The engine puts a block at the end.
LEMMA FillPuts == IInv /\ HwFill => Fifo!Put
<1> SUFFICES ASSUME IInv, HwFill PROVE Fifo!Put
  OBVIOUS
<1> DEFINE d == Backlog
<1>1. /\ running /\ credits > 0 /\ next' = Advance(next) /\ filled' = filled + 1
      /\ place' = [place EXCEPT ![next] = filled + 1]
      /\ UNCHANGED <<running, open, head, reader, at, last>>
  BY DEF HwFill, ringVars, readVars, fileVars
<1>2. open /\ d < NumBlocks - 1
  BY <1>1, BacklogBounds DEF IInv, Ordered, ClosedIsEmpty
<1>3. /\ Unread = [k \in 1..d |-> place[Block(k)]]
      /\ Unread \in Seq(0..MaxBlocks) /\ Len(Unread) = d
  BY <1>1, UnreadSeq
<1>4. /\ FirstUnread \in Blocks /\ next \in Blocks /\ d \in Nat
      /\ \A k \in 1..(d + 1) : Block(k) \in Blocks /\ Distance(FirstUnread, Block(k)) = k - 1
  BY <1>2, UnreadBlocks, RingAssumption
<1>5. FirstUnread' = FirstUnread /\ \A k : Block(k)' = Block(k)
  BY <1>1 DEF FirstUnread, Block
<1>6. Backlog' = d + 1
  BY <1>1, <1>2, <1>4, <1>5, AdvanceDistance DEF Backlog
<1>7. place \in [Blocks -> 0..MaxBlocks]
  BY DEF IInv, TypeOK
<1>8. \A k \in 1..d : place'[Block(k)] = place[Block(k)]
  <2> SUFFICES ASSUME NEW k \in 1..d PROVE Block(k) # next
    BY <1>1, <1>4, <1>7
  <2>1. Distance(FirstUnread, Block(k)) = k - 1 /\ Distance(FirstUnread, next) = d
    BY <1>4 DEF Backlog
  <2>2. QED
    BY <1>4, <2>1
<1>9. place'[Block(d + 1)] = filled + 1
  <2>1. Block(d + 1) = next
    BY <1>4, DistanceUnique DEF Backlog
  <2>2. QED
    BY <1>1, <1>4, <1>7, <2>1
<1>10. Unread' = [k \in 1..(d + 1) |-> place'[Block(k)]]
  BY <1>1, <1>5, <1>6 DEF Unread, Backlog, Block
<1>11. Unread' = Append(Unread, filled + 1)
  <2>1. \A k \in 1..(d + 1) : place'[Block(k)] = IF k = d + 1 THEN filled + 1 ELSE Unread[k]
    BY <1>3, <1>4, <1>8, <1>9
  <2>2. Append(Unread, filled + 1)
          = [k \in 1..(d + 1) |-> IF k = d + 1 THEN filled + 1 ELSE Unread[k]]
    BY <1>3, <1>4
  <2> HIDE DEF d
  <2>3. QED
    BY <1>10, <2>1, <2>2
<1>12. QED
  BY <1>1, <1>2, <1>3, <1>11 DEF Fifo!Put

\* The reader takes a block from the front.
LEMMA CopyTakes == IInv /\ CopyBlock => Fifo!Take
<1> SUFFICES ASSUME IInv, CopyBlock PROVE Fifo!Take
  OBVIOUS
<1> DEFINE d == Backlog
<1>1. /\ reader = "copy" /\ at # limit /\ at' = Advance(at) /\ last' = place[at]
      /\ UNCHANGED <<running, open, next, head, reader, place, filled>>
  BY DEF CopyBlock, ringVars, fileVars
<1>2. running /\ open
  BY <1>1 DEF IInv, Ordered, ClosedIsEmpty
<1>3. /\ Unread = [k \in 1..d |-> place[Block(k)]]
      /\ Unread \in Seq(0..MaxBlocks) /\ Len(Unread) = d
  BY <1>2, UnreadSeq
<1>4. /\ at \in Blocks /\ next \in Blocks /\ d \in 0..(NumBlocks - 1) /\ d = Distance(at, next)
      /\ FirstUnread = at /\ FirstUnread' = Advance(at) /\ Advance(at) \in Blocks
      /\ \A k \in 1..NumBlocks : Block(k) \in Blocks /\ Distance(at, Block(k)) = k - 1
  BY <1>1, UnreadBlocks, AdvanceDistance DEF Backlog, FirstUnread
<1>5. at # next
  <2>1. head \in Blocks /\ limit \in Blocks /\ Front = next
    BY <1>2 DEF IInv, TypeOK, Front
  <2>2. Offset(at) <= Offset(limit) /\ Offset(limit) <= Offset(tail)
        /\ Offset(tail) <= Offset(Scanned) /\ Offset(Scanned) <= Offset(next)
    BY <1>1, <2>1 DEF IInv, Ordered, Order, Copying
  <2>3. Offset(at) # Offset(limit)
    BY <1>1, <1>4, <2>1, DistanceUnique DEF Offset
  <2>4. Offset(at) < Offset(next)
    <3>1. tail \in Blocks /\ Scanned \in Blocks /\ \A i \in Blocks : Offset(i) \in Int
      BY OffsetBounds DEF IInv, TypeOK
    <3>2. QED
      BY <1>4, <2>1, <2>2, <2>3, <3>1
  <2>5. QED
    BY <1>4, <2>4, OffsetBounds DEF IInv
<1>6. d >= 1 /\ Distance(Advance(at), next) = d - 1
  <2>1. d >= 1
    BY <1>4, <1>5, DistanceBounds
  <2>2. Distance(at, Advance(at)) = 1
    BY <1>4, AdvanceDistance, DistanceBounds, RingAssumption
  <2>3. QED
    BY <1>4, <2>1, <2>2, DistanceFrom
<1>7. Block(1) = at
  BY <1>4, DistanceBounds, DistanceUnique, RingAssumption
<1>8. \A k \in 1..(d - 1) : Block(k)' = Block(k + 1)
  <2> SUFFICES ASSUME NEW k \in 1..(d - 1) PROVE Block(k)' = Block(k + 1)
    OBVIOUS
  <2>0. k \in 1..NumBlocks /\ k + 1 \in 1..NumBlocks
    BY <1>4, RingAssumption
  <2>1. Block(k)' = (Advance(at) + k - 1) % NumBlocks
    BY <1>4 DEF Block
  <2>2. (Advance(at) + k - 1) % NumBlocks \in Blocks
        /\ Distance(Advance(at), (Advance(at) + k - 1) % NumBlocks) = k - 1
    BY <1>4, <2>0, BlockPlace
  <2>3. Block(k + 1) \in Blocks /\ Distance(at, Block(k + 1)) = k
    BY <1>4, <2>0
  <2>4. Distance(at, Advance(at)) = 1
    BY SMTT(30), <1>4, <1>6, AdvanceDistance, DistanceBounds, RingAssumption
  <2>5. Distance(Advance(at), Block(k + 1)) = k - 1
    BY <1>4, <2>3, <2>4, DistanceFrom
  <2>6. QED
    BY <1>4, <2>1, <2>2, <2>3, <2>5, DistanceUnique
<1>9. Unread' = [k \in 1..(d - 1) |-> place[Block(k + 1)]]
  <2>1. Backlog' = d - 1
    BY <1>1, <1>4, <1>6 DEF Backlog, Distance
  <2>2. Unread' = [k \in 1..(d - 1) |-> place[Block(k)']]
    BY <1>1, <1>2, <2>1 DEF Unread, Backlog, Block
  <2> HIDE DEF d
  <2>3. QED
    BY <1>8, <2>2
<1>10. Unread # <<>> /\ Head(Unread) = place[at]
  BY <1>3, <1>4, <1>6, <1>7
<1>11. Unread' = Tail(Unread)
  <2>1. Tail(Unread) = [k \in 1..(d - 1) |-> Unread[k + 1]]
    BY <1>3, <1>4, <1>6
  <2>2. \A k \in 1..(d - 1) : Unread[k + 1] = place[Block(k + 1)]
    BY <1>3, <1>4
  <2> HIDE DEF d
  <2>3. QED
    BY <1>9, <2>1, <2>2
<1>12. QED
  BY <1>1, <1>2, <1>10, <1>11 DEF Fifo!Take

\* The file is opened: the FIFO is empty.
LEMMA CreateOpens == IInv /\ FileCreate => Fifo!Open
<1> SUFFICES ASSUME IInv, FileCreate PROVE Fifo!Open
  OBVIOUS
<1>1. ~running /\ running' /\ next' = 0 /\ head' = 0 /\ reader' = "idle"
  BY DEF FileCreate, IInv, Ordered, ClosedIsEmpty, readVars
<1>2. Unread = <<>>
  BY <1>1 DEF Unread
<1>3. Backlog' = 0 /\ FirstUnread' = 0
  BY <1>1, EmptyRing, DistanceBounds DEF Backlog, FirstUnread, Distance
<1>4. Unread' = <<>>
  BY <1>1, <1>3 DEF Unread, Backlog
<1>5. QED
  BY <1>2, <1>4 DEF Fifo!Open, FileCreate, readVars

LEMMA CleanupCloses == IInv /\ FileCleanup => Fifo!Close
BY DEF IInv, Ordered, ClosedIsEmpty, FileCleanup, readVars, Unread, Fifo!Close

\* Any other step leaves the FIFO alone.
LEMMA OtherStutters ==
  ASSUME IInv, [Next]_vars, ~FileCreate, ~FileCleanup, ~HwFill, ~CopyBlock
  PROVE  UNCHANGED Fifo!vars
<1>1. UNCHANGED <<running, next, place, filled, last, open>>
  BY DEF Next, ProcessRingStep, CopyStep, Finished, Isr, DpcBegin, ScanResult, StoreTail,
     SignalReader, DpcEnd, Read, PollBegin, PollEnd, PollTimesOut, ReadTimesOut, WaitEnds,
     CopyEnds, ClearSignal, StoreHead, vars, hwVars, readVars, fileVars
<1>2. FirstUnread' = FirstUnread
  <2>1. CASE StoreHead
    BY <2>1 DEF StoreHead, FirstUnread
  <2>2. CASE Isr \/ DpcBegin \/ ScanResult \/ StoreTail \/ SignalReader \/ DpcEnd \/ PollBegin
             \/ UNCHANGED vars
    BY <2>2 DEF Isr, DpcBegin, ScanResult, StoreTail, SignalReader, DpcEnd, PollBegin, vars,
       ringVars, readVars, FirstUnread
  <2>3. CASE \/ \E length \in 1..MaxRead : Read(length)
             \/ PollEnd \/ PollTimesOut \/ ReadTimesOut \/ WaitEnds \/ CopyEnds \/ ClearSignal
    BY <2>3 DEF Read, PollEnd, PollTimesOut, ReadTimesOut, WaitEnds, CopyEnds, ClearSignal,
       ringVars, FirstUnread, IInv, PolledByReader
  <2>4. QED
    BY <2>1, <2>2, <2>3 DEF Next, ProcessRingStep, CopyStep, Finished
<1>3. Unread' = Unread
  BY <1>1, <1>2 DEF Unread, Distance
<1>4. QED
  BY <1>1, <1>3 DEF Fifo!vars

-----------------------------------------------------------------------------

\* EngineProcessRing, EngineRingCopyBytesToMemory and the engine together are a
\* FIFO of NumBlocks - 1 blocks: each block that arrives while the file is open is
\* copied at most once, in order, and none is overwritten before.
THEOREM RingImplementsFifo == Spec => ImplementsFifo
<1>1. Init => Fifo!Init
  BY DEF Init, Unread, Fifo!Init
<1>2. IInv /\ [Next]_vars => [Fifo!Next]_(Fifo!vars)
  BY FillPuts, CopyTakes, CreateOpens, CleanupCloses, OtherStutters DEF Fifo!Next
<1>3. QED
  BY <1>1, <1>2, RingInvariant, PTL DEF Spec, ImplementsFifo, Fifo!Spec

=============================================================================

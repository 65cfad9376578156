----------------------------- MODULE RingStream -----------------------------
(***************************************************************************)
(* The receive ring of a streaming (AXI-ST) C2H engine.  The engine fills  *)
(* the ring's blocks in order, one descriptor credit per block, and writes *)
(* a result (status and length) for each.  EngineProcessRing, run by the   *)
(* DPC or, in poll mode, by the reader, moves the tail over the results    *)
(* and signals the reader when a packet has ended.  The reader             *)
(* (EngineRingCopyBytesToMemory) copies blocks from the head and gives     *)
(* their credits back.                                                     *)
(*                                                                         *)
(* The interrupt comes back after a DPC in mode "line" (EvtInterruptDpc)   *)
(* and stays off in mode "msix" (EvtChannelInterruptDpc does not enable    *)
(* it, nor does EngineProcessRing).                                        *)
(*                                                                         *)
(* Lengths count units of a block.  Clients close the one handle they have *)
(* on the engine when no read of theirs is under way.                      *)
(***************************************************************************)
EXTENDS Integers

CONSTANTS
  NumBlocks,  \* XDMA_RING_NUM_BLOCKS
  BlockSize,  \* XDMA_RING_BLOCK_SIZE
  MaxRead,    \* bound: the longest read of a client
  MaxBlocks,  \* bound: the blocks the card sends
  MaxOpens,   \* bound: how often the device file is opened
  Modes       \* how completions are noticed: some of "line", "msix", "poll"

ASSUME RingAssumption ==
  /\ NumBlocks \in Nat /\ NumBlocks > 1
  /\ BlockSize \in Nat \ {0}
  /\ MaxRead \in Nat /\ MaxBlocks \in Nat /\ MaxOpens \in Nat
  /\ Modes \subseteq {"line", "msix", "poll"}

VARIABLES
  mode,              \* the interrupt type of the device, or poll mode
  results,           \* ring.results: status and length written for each block
  place,             \* history: the place in the stream of each block's data
  running,           \* the run bit of the engine
  next,              \* the block the engine fills next
  credits,           \* the engine's descriptor credits
  filled,            \* how many blocks the card has sent
  ends,              \* history: the places of the blocks that end a packet
  head, tail,        \* ring.head and ring.tail
  completionSignal,  \* ring.completionSignal, a notification event
  irq,               \* the engine's interrupt request: its status bits are set
  intEnabled,        \* the engine's interrupt is enabled
  dpcQueued,         \* the interrupt's DPC is queued
  wb,                \* poll mode: the write-back count is not zero
  work,              \* where EngineProcessRing is
  scan, eops,        \* its local variables tail and eopCount (as "not zero")
  reader,            \* where the reader is
  at, limit,         \* its local variables head and tail
  remaining,         \* its local variable numBytesRemaining
  processed,         \* its local variable numDescProcessed
  last,              \* history: the place of the block copied last
  opens, open        \* handles opened so far; a handle is open

hwVars    == <<results, place, running, next, credits, filled, ends>>
ringVars  == <<head, tail, completionSignal>>
irqVars   == <<irq, intEnabled, dpcQueued, wb>>
workVars  == <<work, scan, eops>>
readVars  == <<reader, at, limit, remaining, processed, last>>
fileVars  == <<mode, opens, open>>
vars == <<hwVars, ringVars, irqVars, workVars, readVars, fileVars>>

Blocks   == 0..(NumBlocks - 1)
NoResult == [status |-> "none", length |-> 0]
Filled   == [status : {"data"}, length : {BlockSize}]
              \cup [status : {"eop"}, length : 1..BlockSize]

-----------------------------------------------------------------------------
(* Slips of the code: variants of the definitions below, each with one fault  *)
(* that some property must notice.                                            *)

\* The index wraps one block late.
AdvanceLate(i) == IF i = NumBlocks THEN 0 ELSE i + 1

\* As many credits as blocks.
AllBlocks == NumBlocks

\* The tail goes past the first block that is not done.
StoreTailPast ==
  /\ work = "scan" /\ results[scan].status = "none"
  /\ tail' = IF scan = NumBlocks - 1 THEN 0 ELSE scan + 1
  /\ work' = "signal"
  /\ UNCHANGED <<hwVars, head, completionSignal, irqVars, scan, eops, readVars, fileVars>>

\* The head moves to the tail although a short read left blocks behind.
StoreHeadAtTail ==
  /\ reader = "store"
  /\ head' = limit
  /\ credits' = credits + processed
  /\ reader' = "idle"
  /\ UNCHANGED <<results, place, running, next, filled, ends, tail, completionSignal,
                 irqVars, workVars, at, limit, remaining, processed, last, fileVars>>

-----------------------------------------------------------------------------

\* The credits EngineRingProgramDma gives the engine: one block stays free.
InitialCredits == NumBlocks - 1

\* EngineRingAdvance.
Advance(i) == IF i = NumBlocks - 1 THEN 0 ELSE i + 1

Init ==
  /\ mode \in Modes
  /\ results = [i \in Blocks |-> NoResult]
  /\ place = [i \in Blocks |-> 0]
  /\ running = FALSE /\ next = 0 /\ credits = 0 /\ filled = 0 /\ ends = {}
  /\ head = 0 /\ tail = 0 /\ completionSignal = FALSE
  /\ irq = FALSE /\ intEnabled = TRUE /\ dpcQueued = FALSE /\ wb = FALSE
  /\ work = "idle" /\ scan = 0 /\ eops = FALSE
  /\ reader = "idle" /\ at = 0 /\ limit = 0 /\ remaining = 0 /\ processed = 0
  /\ last = 0
  /\ opens = 0 /\ open = FALSE

-----------------------------------------------------------------------------
(* The device file *)

\* EvtDeviceFileCreate: EngineRingSetup, then the interrupt as the mode wants it.
\* The engine starts at the first descriptor.
FileCreate ==
  /\ ~open /\ opens < MaxOpens
  /\ opens' = opens + 1 /\ open' = TRUE
  /\ head' = 0 /\ tail' = 0 /\ completionSignal' = FALSE
  /\ credits' = credits + InitialCredits
  /\ running' = TRUE
  /\ next' = IF running THEN next ELSE 0
  /\ intEnabled' = (mode # "poll")
  /\ UNCHANGED <<mode, results, place, filled, ends, irq, dpcQueued, wb, workVars, readVars>>

\* EvtFileCleanup: EngineRingTeardown.  Stopping the engine drops its credits.
FileCleanup ==
  /\ open /\ reader = "idle" /\ work = "idle" /\ ~dpcQueued
  /\ open' = FALSE
  /\ running' = FALSE /\ credits' = 0
  /\ results' = [i \in Blocks |-> NoResult]
  /\ head' = 0 /\ tail' = 0
  /\ UNCHANGED <<mode, opens, place, next, filled, ends, completionSignal, irqVars, workVars,
                 readVars>>

-----------------------------------------------------------------------------
(* The hardware and the interrupt *)

\* The engine fills a block: with BlockSize units of a packet that goes on, or
\* with the last units of one.
HwFill ==
  /\ running /\ credits > 0
  /\ filled < MaxBlocks
  /\ \E result \in Filled :
       /\ results' = [results EXCEPT ![next] = result]
       /\ ends' = IF result.status = "eop" THEN ends \cup {filled + 1} ELSE ends
  /\ filled' = filled + 1
  /\ place' = [place EXCEPT ![next] = filled + 1]
  /\ next' = Advance(next)
  /\ credits' = credits - 1
  /\ irq' = TRUE
  /\ wb' = (mode = "poll")
  /\ UNCHANGED <<running, ringVars, intEnabled, dpcQueued, workVars, readVars, fileVars>>

\* EvtInterruptIsr or EvtChannelInterruptIsr.
Isr ==
  /\ irq /\ intEnabled
  /\ intEnabled' = FALSE
  /\ dpcQueued' = TRUE
  /\ UNCHANGED <<hwVars, ringVars, irq, wb, workVars, readVars, fileVars>>

-----------------------------------------------------------------------------
(* EngineProcessRing *)

\* The engine status is read and cleared, the tail is read under ring.lock.
BeginProcessRing ==
  /\ irq' = FALSE
  /\ work' = "scan" /\ scan' = tail /\ eops' = FALSE

DpcBegin ==
  /\ dpcQueued /\ work = "idle"
  /\ dpcQueued' = FALSE
  /\ BeginProcessRing
  /\ UNCHANGED <<hwVars, ringVars, intEnabled, wb, readVars, fileVars>>

ScanResult ==
  /\ work = "scan" /\ results[scan].status # "none"
  /\ eops' = (eops \/ results[scan].status = "eop")
  /\ results' = [results EXCEPT ![scan].status = "none"]
  /\ scan' = Advance(scan)
  /\ UNCHANGED <<place, running, next, credits, filled, ends, ringVars, irqVars, work, readVars,
                 fileVars>>

\* The new tail is stored under ring.lock.
StoreTail ==
  /\ work = "scan" /\ results[scan].status = "none"
  /\ tail' = scan
  /\ work' = "signal"
  /\ UNCHANGED <<hwVars, head, completionSignal, irqVars, scan, eops, readVars, fileVars>>

\* The reader is woken when a packet has ended, and only then.
SignalReader ==
  /\ work = "signal"
  /\ completionSignal' = (completionSignal \/ eops)
  /\ work' = "end"
  /\ UNCHANGED <<hwVars, head, tail, irqVars, scan, eops, readVars, fileVars>>

\* The DPC returns; the line-interrupt handler enables the interrupt again.
DpcEnd ==
  /\ work = "end" /\ mode # "poll"
  /\ work' = "idle"
  /\ intEnabled' = (intEnabled \/ mode = "line")
  /\ UNCHANGED <<hwVars, ringVars, irq, dpcQueued, wb, scan, eops, readVars, fileVars>>

-----------------------------------------------------------------------------
(* EvtIoReadEngineRing, EngineRingCopyBytesToMemory and EnginePollRing *)

Read(length) ==
  /\ open /\ reader = "idle"
  /\ reader' = IF mode = "poll" THEN "poll" ELSE "wait"
  /\ remaining' = length
  /\ processed' = 0
  /\ UNCHANGED <<hwVars, ringVars, irqVars, workVars, at, limit, last, fileVars>>

\* EnginePollRing: blocks were written back, so it runs EngineProcessRing.
PollBegin ==
  /\ reader = "poll" /\ work = "idle" /\ wb
  /\ BeginProcessRing
  /\ UNCHANGED <<hwVars, ringVars, intEnabled, dpcQueued, wb, readVars, fileVars>>

\* EngineProcessRing clears the write-back and returns eopCount: the poll ends, in
\* time or not, if a packet has.
PollEnd ==
  /\ work = "end" /\ mode = "poll"
  /\ wb' = FALSE
  /\ work' = "idle"
  /\ \/ ~eops /\ UNCHANGED <<reader, at, limit>>
     \/ eops /\ reader' = "copy" /\ at' = head /\ limit' = tail
  /\ UNCHANGED <<hwVars, ringVars, irq, intEnabled, dpcQueued, scan, eops, remaining,
                 processed, last, fileVars>>

\* The wait ends after 10 s: the read returns nothing.
ReadTimesOut ==
  /\ reader = "wait" /\ ~completionSignal
  /\ reader' = "idle"
  /\ UNCHANGED <<hwVars, ringVars, irqVars, workVars, at, limit, remaining, processed, last,
                 fileVars>>

\* The poll ends after 10 s.  NT_SUCCESS holds of STATUS_TIMEOUT, so the read
\* goes on with what an earlier one may have left behind.
PollTimesOut ==
  /\ reader = "poll" /\ work = "idle"
  /\ reader' = "copy"
  /\ at' = head /\ limit' = tail
  /\ UNCHANGED <<hwVars, ringVars, irqVars, workVars, remaining, processed, last, fileVars>>

\* The wait ends and head and tail are read under ring.lock.  Only the reader
\* clears the event, so nothing undoes the wait in between.
WaitEnds ==
  /\ reader = "wait" /\ completionSignal
  /\ reader' = "copy"
  /\ at' = head /\ limit' = tail
  /\ UNCHANGED <<hwVars, ringVars, irqVars, workVars, remaining, processed, last, fileVars>>

\* One round of the copy loop: what does not fit the read is lost.
CopyBlock ==
  /\ reader = "copy" /\ at # limit /\ remaining > 0
  /\ results[at].length # 0
  /\ remaining' = IF results[at].length > remaining THEN 0
                  ELSE remaining - results[at].length
  /\ processed' = processed + 1
  /\ results' = [results EXCEPT ![at].length = 0]
  /\ at' = Advance(at)
  /\ last' = place[at]
  /\ UNCHANGED <<place, running, next, credits, filled, ends, ringVars, irqVars, workVars, reader,
                 limit, fileVars>>

\* The loop ends; the next block is tested for data.
CopyEnds ==
  /\ reader = "copy"
  /\ at = limit \/ remaining = 0 \/ results[at].length = 0
  /\ reader' = IF results[at].length = 0 THEN "clear" ELSE "store"
  /\ UNCHANGED <<hwVars, ringVars, irqVars, workVars, at, limit, remaining, processed, last,
                 fileVars>>

ClearSignal ==
  /\ reader = "clear"
  /\ completionSignal' = FALSE
  /\ reader' = "store"
  /\ UNCHANGED <<hwVars, head, tail, irqVars, workVars, at, limit, remaining, processed, last,
                 fileVars>>

\* Head and credits are written under ring.lock; writing credits adds them.
StoreHead ==
  /\ reader = "store"
  /\ head' = at
  /\ credits' = credits + processed
  /\ reader' = "idle"
  /\ UNCHANGED <<results, place, running, next, filled, ends, tail, completionSignal, irqVars,
                 workVars, at, limit, remaining, processed, last, fileVars>>

\* The card has nothing more to send and no handle is left to open.
Finished ==
  /\ ~open /\ opens = MaxOpens
  /\ UNCHANGED vars

-----------------------------------------------------------------------------

ProcessRingStep == ScanResult \/ StoreTail \/ SignalReader

CopyStep == WaitEnds \/ CopyBlock \/ CopyEnds \/ ClearSignal \/ StoreHead

Next ==
  \/ FileCreate \/ FileCleanup
  \/ HwFill \/ Isr
  \/ DpcBegin \/ ProcessRingStep \/ DpcEnd
  \/ \E length \in 1..MaxRead : Read(length)
  \/ PollBegin \/ PollEnd \/ PollTimesOut \/ ReadTimesOut \/ CopyStep
  \/ Finished

Spec == Init /\ [][Next]_vars

-----------------------------------------------------------------------------
(* Properties *)

\* Every variable stays within its type; every index within the ring.
TypeOK ==
  /\ mode \in Modes
  /\ results \in [Blocks -> [status : {"none", "data", "eop"}, length : 0..BlockSize]]
  /\ place \in [Blocks -> 0..MaxBlocks]
  /\ running \in BOOLEAN /\ next \in Blocks /\ credits \in Nat
  /\ filled \in 0..MaxBlocks /\ ends \subseteq 1..MaxBlocks
  /\ head \in Blocks /\ tail \in Blocks /\ completionSignal \in BOOLEAN
  /\ irq \in BOOLEAN /\ intEnabled \in BOOLEAN /\ dpcQueued \in BOOLEAN
  /\ wb \in BOOLEAN
  /\ work \in {"idle", "scan", "signal", "end"} /\ scan \in Blocks /\ eops \in BOOLEAN
  /\ reader \in {"idle", "wait", "poll", "copy", "clear", "store"}
  /\ at \in Blocks /\ limit \in Blocks
  /\ remaining \in 0..MaxRead /\ processed \in Nat
  /\ last \in 0..MaxBlocks
  /\ opens \in 0..MaxOpens /\ open \in BOOLEAN

\* How many blocks lie from i up to j.
Distance(i, j) == IF i <= j THEN j - i ELSE j - i + NumBlocks

\* The engine and the reader share out the ring: a block is covered by a credit
\* or lies between the head and the engine, and one block stays free.
CreditsConserved ==
  running => credits + Distance(head, next) = NumBlocks - 1

\* The loop of EngineProcessRing over results with a status always finds one
\* without: it would otherwise run around a full ring.
ScanStops == \E i \in Blocks : results[i].status = "none"

\* Every block the reader copies was filled: a result of length 0 before the
\* tail would end every later read at that block.
NoEmptyBlock == reader = "copy" /\ at # limit => results[at].length # 0

\* Where the reader is.
FirstUnread == IF reader \in {"copy", "clear", "store"} THEN at ELSE head

\* The places of the blocks the reader has not copied.
Unread ==
  IF running
  THEN [k \in 1..Distance(FirstUnread, next) |-> place[(FirstUnread + k - 1) % NumBlocks]]
  ELSE <<>>

\* The ring is a FIFO of at most NumBlocks - 1 blocks: none is overwritten before
\* it is read, skipped, read twice or read out of order.
Fifo == INSTANCE StreamFifo WITH
  Capacity <- NumBlocks - 1, fifo <- Unread, next <- filled + 1
ImplementsFifo == Fifo!Spec

\* Nothing is left to do for the interrupts that have occurred.
InterruptsServed == ~(irq /\ intEnabled) /\ ~dpcQueued /\ work = "idle"

\* A reader is not left waiting on a whole packet ("The reading thread should now
\* unblock and receive data from the card").
WokenForPacket ==
  reader = "wait" /\ InterruptsServed /\ (\E k \in DOMAIN Unread : Unread[k] \in ends)
    => completionSignal

\* A reader is not left waiting on a full ring ("also start the queue on an
\* overflow since we need to tell the client that an overflow happened").
WokenOnOverflow ==
  reader = "wait" /\ InterruptsServed /\ running /\ credits = 0 => completionSignal
=============================================================================

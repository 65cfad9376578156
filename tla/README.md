# Formal model of the XDMA Windows driver

TLA+ modules, TLC configurations and TLAPS proofs about the driver under
`src/libxdma` and `src/sys`. Line numbers below refer to that code; the exact
lines behind every definition are in `PROJECT.json` under `map`.

## 1. The system

The driver serves an FPGA card with the Xilinx DMA core. Clients open device
nodes (`h2c_0`, `c2h_0`, `user`, `control`, `event_0`, ...) and read, write or
send control codes. Parts, their state and how they meet:

| part | state | operations | meets |
|---|---|---|---|
| I/O dispatch (`sys/file_io.c`) | `FILE_CONTEXT`: node type, engine, queue, MDL | `EvtDeviceFileCreate`, `EvtFileCleanup`, `EvtIoRead/Write`, IOCTLs | forwards to an engine's sequential queue; opens and closes the ring |
| engine queue (`sys/driver.c` 338-381, `file_io.c` 816-913) | one request in the driver | `EvtIoWriteDma`, `EvtIoReadDma`, `EvtIoReadEngineRing` | executes the engine's `dmaTransaction`; or reads the ring |
| AXI-MM engine (`dma_engine.c` 184-287, 621-757) | `isReqPending`, descriptor buffer, transaction | `XDMA_EngineProgramDma`, `EngineProcessTransfer` | hardware registers; completion thread; DPC |
| completion thread (`dma_engine.c` 390-485, 1222-1250) | `semaphore`, `completionWaitSignal`, `terminate` | wait 10 s, abort, exit | watches the engine's request |
| AXI-ST receive ring (`dma_engine.c` 881-1196) | `head`, `tail`, results, credits, `completionSignal` | setup, process, copy, teardown | hardware writes results; DPC signals the reader |
| poll mode (`dma_engine.c` 1200-1330) | write-back buffer, `numDescriptors` | `EnginePollTransfer`, `EnginePollRing` | replaces interrupt and thread |
| interrupts (`interrupt.c`) | `channelIrqPending`, `userIrqPending`, enable registers | line/MSI handler, per-channel and per-event MSI-X handlers | call `engine->work` |
| user events | a `KEVENT` per event | `HandleUserEvent`, `EvtReadUserEvent` | interrupt to reader |
| setup (`device.c`, `interrupt.c` 537-661, `dma_engine.c` 758-842) | BARs, vectors, engines | `XDMA_DeviceOpen/Close`, `SetupInterrupts`, `ProbeEngines` | runs before and after everything else |

What is hard: the request of an engine may be finished by a DPC (on any CPU,
two of them overlapping), by the completion thread after a time-out, or by the
queue's error exit; the parts of a split request are programmed from the DPC;
the only arbiter is `isReqPending` under `engineLock`, while starting the
engine, waking the thread and completing the request happen outside it. The
ring is written by hardware, DPC and reader at once, with a lock that covers
only its two indices. `PROJECT.json` lists the hazards at their lines.

In poll mode the same queue callback programs, starts, spins and completes, one
frame of its stack per part, while an engine that nobody stops after an error
runs on through buffers that the next request is written into. One interrupt
object may serve every engine and event; its DPC may overlap with itself and
with the ISR, and enables more than it has served. A start may fail at any
step, and the device context keeps what it does not reset. The dispatch runs
the handlers of two requests side by side.

Correctness, part by part: each request is completed exactly once and, if with
success, moved whole; the hardware does not touch a completed request; a
time-out hits the request that timed out; the interrupt always comes back; the
thread ends. The ring neither loses, repeats nor reorders blocks, uses no
unfilled block, and does not leave its reader asleep over data. Reads of
descriptors keep to the request size, the page and the list. An interrupt that
was disabled has somebody to enable it, one that is requested is seen, and each
reaches the engine it belongs to. A failed start leaves nothing mapped or
running; a handle stands for what is mapped now; the driver and the engine
agree on the address mode.

## 2. Modules

| module | what it is |
|---|---|
| `TransferService` | abstract: what an engine promises its clients |
| `MmEngine` | one engine in interrupt mode with MSI-X: queue, DPCs, thread, hardware |
| `Descriptors` | the chain of one part and its block fetches (`OptimizeDescriptors`), as functions |
| `PollEngine` | one engine in poll mode: the callback, the descriptor buffer, hardware that runs on |
| `StreamFifo` | abstract: a bounded FIFO of blocks between open and close |
| `RingStream` | the receive ring: hardware, interrupt, `EngineProcessRing`, reader |
| `Interrupts` | several engines and user events behind one interrupt or one each: ISRs, DPCs, readers of events |
| `DeviceSetup` | start and stop of the device: BARs, interrupts and vectors, engines, queues |
| `FileNodes` | extends `DeviceSetup`: handles, every path of a request through the dispatch, BAR mappings, address mode |
| `MC...` | TLC instances of `MmEngine`, `PollEngine`, `Interrupts`, `FileNodes` |
| `...Proofs` | TLAPS theorems, section 4 |
| `Induction` | the induction rule the liveness proofs use, least numbers |

`MmEngine` and `PollEngine` implement the same `TransferService` and share nothing
but the code they model: which of the two an engine is, is `SetPollMode` of
`DeviceSetup`. `PollEngine` extends `Descriptors`; `FileNodes` composes start, stop
and restart with the requests of clients. `Interrupts` reduces an engine to a
pending request and a status bit, which is the interface `MmEngine` and
`RingStream` have to it.

### MmEngine

Variables keep the names of `XDMA_ENGINE`'s fields. `queue`, `dpc[c]` and
`thread` are program counters; `request` and `status` are the DPC's locals.
One action is one stretch of code between two points where another actor can
get in:

* `Dispatch`/`DispatchFails`: `EvtIoWriteDma`/`EvtIoReadDma`. The framework runs
  `XDMA_EngineProgramDma` inside `WdfDmaTransactionExecute`: `QueueProgram` (to
  `markReqPending`, 720), `QueueStart` (722), `WakeThread` (744).
* `Isr`, `DpcBegin`, then `SpuriousInterrupt` or `ProcessTransfer` (the section
  under `engineLock`, 200-240), then `DmaCompleted` or `DmaCompletedFinal`, and
  either `DpcProgram`, `DpcStart` for the next part, or `SignalThread`,
  `CompleteRequest`.
* `ThreadWakes`, `ThreadChecksPending`, then `WaitSatisfied` or `WaitTimesOut`,
  `AlreadyProcessed` or `ReallyTimedOut`, `AbortRequest`, `ClearSignal`.
* `HwFinish`, `HwError`, `HwHang`: the engine; `FileCreate`: one more handle;
  `DeviceClose`: `terminateThread`.

Assumptions on what is not in `src/`, all visible as guards or comments:

* The queue is sequential with queue synchronisation: a request is presented
  after the previous one was completed and its callback has returned.
* A DPC may be queued again, and run on another CPU, while it still runs.
* An interrupt message is sent when an asserted request becomes enabled; setting
  the run bit has an effect only when it is clear; stopping takes effect at
  once; the completion bits are raised together.
* The framework drains requests and DPCs before `EvtDeviceReleaseHardware`.
* A part always fits the descriptor buffer (8 MB: at most 2049 pages for 2050
  descriptors), so the `ErrExit` of `XDMA_EngineProgramDma` is not reached in
  interrupt mode.
* Descriptors are abstracted to "part i of request r is described"; the status
  register to one error class at a time; alignment and fetch-stop bits count as
  the `descriptor` class.
* `WdfDmaTransactionRelease` and `WdfRequestComplete` are one step: whoever runs
  them is the only holder of the request, which is what the proofs show.

`Patient = TRUE` says that the 10 s wait is longer than any answer of the
hardware and of a DPC, so that it expires only on a hung engine. Runs that show
what a client may rely on take it; runs and proofs about races do not.

### RingStream

`head`, `tail`, `results`, `credits` and `completionSignal` are the code's;
`next` is the hardware's position, `place` and `ends` are history. The DPC (or
the poller) runs `BeginProcessRing`, `ScanResult` once per block, `StoreTail`,
`SignalReader`, `DpcEnd`/`PollEnd`; the reader `Read`, `WaitEnds`, `CopyBlock`
once per block, `CopyEnds`, `ClearSignal`, `StoreHead`. `mode` chooses line
interrupt, MSI-X or polling. `EnginePollRing` returns `STATUS_TIMEOUT`, for
which `NT_SUCCESS` holds, so `PollTimesOut` goes on to copy.

Assumptions: the engine spends one credit per block and drops its credits when
stopped; writing `descCredits` adds; results have a length of at least one unit;
one handle at a time is open, closed when no read and no DPC is under way; the
write-back reports no error.

### Descriptors and PollEngine

`Descriptors` has the loop of `OptimizeDescriptors` (342-381) as the function
`NextAdjMax` and the operators around it; addresses are counted in descriptors of
32 bytes from the place of the buffer in its page, and the wrap of `adjTo4k` for
the last descriptor (whose next address is zero) is kept. `Descriptor(p, n, first,
i)` is what `XDMA_EngineProgramDma` (657-707) writes: which data, `nextAdj`, and
the stop bit on the last. `WithinLimits` and `AsLongAsAllowed` say what the comment
of `OptimizeDescriptors` asks of a read, without the running maximum.

In `PollEngine` `pc` is the innermost frame of the callback's stack: `Dispatch`,
then `Program` (to `markReqPending`), `Start`, `PollError`/`PollTimesOut`/`PollDone`
(`EnginePollTransfer`), `ProcessTransfer` (which zeroes both buffers), `DmaCompleted`
(which programs the next part from within), `Complete`; `ErrExit` completes the
request inside the framework's call. The hardware reads blocks (`HwFetch`): it
heeds the adjacent descriptors up to the first stop bit, fails on a zeroed one,
and writes the count back at the stop bit. It runs on after an error or a
time-out, since only `EngineProcessTransfer` stops it.

What holds *until a request has failed* is stated with `Failed`: after that the
late count of one request may satisfy the loop of the next one (a finding).

Assumptions: writing one chain is one step between two reads of the engine; a
chain fits the buffer (the DMA enabler's limit); the count is read and compared
as one value; `EngineStart` has an effect only when the run bit was clear.

### Interrupts

`enabled` is the two enable registers, `source` what the engines and the user
logic assert; `Requested` is their intersection, as in the request registers.
`mode` is what `SetupInterrupts` found. In modes `line` and `msi` the actions are
`IsrChannel` and `IsrUser` (the halves of `EvtInterruptIsr`, 399-440: other
processors' DPCs get in between), `DpcBegin`, `DpcVisit` once per bit in `Order`,
and `DpcEnd` under the interrupt lock; in mode `vectors` `VectorIsr`, `DpcBegin`,
`DpcVisit` and `DpcEnd` serve one bit. `Work` is `engine->work` or the event's: of
`EngineProcessTransfer` and `EngineProcessRing` what the bit sees of them,
`HandleUserEvent` as the pulse that releases only those who wait.
`ReadUserEvent`, `ReadTimesOut` and `ClientServes` are `EvtReadUserEvent` and the
loop of `exe/user_event`. `TimesOut` is `EngineWaitForCompletion` (1235-1245): at any
moment of a request in progress, answered or not, it takes the request, clears the
status and stops the engine. The history variable `overtaken` names the engines whose
own message was on its way, or whose vector had been disabled and not yet served, at
that moment (`Underway`): their DPC finds no request, returns early (202-207) and
leaves the interrupt off, a finding. `LeftOff` exempts them, and streaming engines with
a vector of their own, from the properties; the shared DPC enables what it has recorded
whatever its engines do, so nothing is exempt there.

Assumptions: a message is sent for each bit that becomes requested; a line stays
asserted while a bit is requested; a DPC object is queued once and may run again on
another CPU; the 3 s wait does not run out while its event is asserted; interrupts
are taken before a 10 s wait is over in the liveness properties (`PromptIsr`), not
in the safety ones. Power transitions are left out: `Init` is the state after
`EvtInterruptEnable`.

### DeviceSetup and FileNodes

`stage` follows `EvtDevicePrepareHardware` (driver.c 264-320) through
`XDMA_DeviceOpen`; every step has its failing branch, after which the framework
calls `EvtDeviceReleaseHardware` (`Release`). What is not reset at a stop is kept:
`thread`, `channelInterrupts`, `maxima`, the engines' registers. `mapped` is what
is mapped in fact, beside what `bar` and `numBars` say; a pointer into a BAR is the
pair of the start that mapped it and its index. `channelVector`, `channelInterrupts`,
`irqEngine` and `irqBit` are the four places that number interrupts.

`FileNodes` takes each request from `EvtDeviceIoInCallerContext` through the parallel
queue to the handler of its operation and node. A handler is two steps, as in the code:
the helper completes the request and returns a success, or returns an error and leaves
the request alone (`Succeed`, `Fail`); its caller completes what has failed (`Finish`, in
`EvtIoRead`, `EvtIoWrite`, `EvtIoDeviceControl` and, for `IoctlMapBar`,
`EvtDeviceIoInCallerContext`). `status` is what the helper has returned, `answers` counts
the completions. A transfer goes to the engine's queue (`Forward`, `EngineServes`).
`IoctlMapBar`, which runs in the caller's context under no lock, is one step for each
point where another call or a cleanup may get in: `CreateMdl` (565), `MapPages` or
`MapPagesFails` (576), `StoreAddress` (591). A mapping is named by the call that made it;
`FileCleanup` undoes the one that `file->virtAddress` names, if `file->mdl` is set.
`SetAddrModeRegister` and `SetAddrModeField` are the two halves of `IoctlSetAddrMode`
that another request may separate.

Assumptions: the framework holds the default queue while the device is not
started and waits for requests in a handler before a stop; handles are created
on a started device; a handle may be cleaned up while a request of it is under
way, at any step of it, but `EvtFileCleanup` itself (241-244) is one step;
`IoctlMapBar` that finds the MDL freed by a cleanup has no further step (the system
goes down); `WdfInterruptCreate` does not fail (the code would use a null handle); the
channels of a core have no gaps. What a register or a BAR contains, and sizes, are
left out, and so is the engine's part of open and cleanup (`FileCreate` of
`MmEngine`, `FileCreate` and `FileCleanup` of `RingStream`).

## 3. What is checked

| run | question | expected |
|---|---|---|
| `mm_race` | can races of DPCs, thread, queue and handles drop a request, finish it twice, or break the inductive invariant? | holds |
| `mm_patient` | does the engine implement `TransferService`, does nobody wait for what no one will do, and do requests and the thread end? | holds |
| `mm_unwatched` | is a request that hangs always completed, in a later part too? | violated |
| `mm_premature` | does a time-out hit the request whose wait ran out? | violated |
| `mm_write_error` | does success mean moved, with write errors? | violated |
| `ring_safe` | is the ring a FIFO, with its credits and indices in step? | holds |
| `ring_lost_wake` | is a reader woken for a whole packet (line interrupt)? | violated |
| `ring_msix` | the same with MSI-X | violated |
| `ring_overflow` | is a reader woken when the ring is full? | violated |
| `poll_engine` | is the callback never stuck, every request answered once and before the callback returns, does the engine implement `TransferService` until one fails, and do its reads of descriptors keep to the limits? | holds |
| `interrupts` | is a disabled interrupt recorded, a requested one seen, an asserted one never without a server that can move, an engine that asks served and a reader told, in all three modes? | holds |
| `device_nodes` | are failed starts undone, interrupts routed, requests completed once by helper or caller, handles fresh, mappings undone whatever calls overlap, and address modes agreed, over restarts? | holds |

**Bounds.** `MmEngine`: two requests, one of two parts (a request after another, and
a program from the DPC, are the cases that matter), two CPUs (two DPCs overlapping;
a third adds nothing since the DPC object is queued once), one more handle, and
errors of two classes. Nothing else is bounded: a request is sent once, which bounds
the semaphore. `RingStream`: three blocks (so two credits, wrap-around and a full
ring occur), blocks of two units with reads of one to three (a read shorter than,
equal to and longer than a block), four blocks sent (five in the violation runs),
two openings. `PollEngine`: three requests, so that one follows a failed one; chains
of 1, 10 and 11 descriptors in a buffer of 11 (the last index is used), a second
part shorter than the first (stale descriptors would show), pages of eight
descriptors with the buffer at three places in a page and requests of four, so that
every limit ends some read and pages are crossed. `Interrupts`: an engine of each
kind and one event (each `Work`), two CPUs (a DPC beside itself), one reader.
`DeviceSetup`/`FileNodes`: four cores, one per way to deliver interrupts and to
arrange BARs, asked for one channel with MSI-X, for all with MSI, for either with a
single message (that core has fewer and is rejected when asked for all; `Pairs`,
the theorems are about every pair); none or five messages granted (enough for each,
none is a restart's case too); two starts, a failure at any step; one handle, two
requests (they interleave) of every operation on every kind of node. CPUs are
symmetric in the safety runs of `MmEngine`, requests in `device_nodes`; runs with
liveness use no symmetry.

**Deadlock** is checked for the ring and the interrupts. It is off for `MmEngine`: an
engine that hangs with no thread watching it leaves nothing to do (this is what
`mm_unwatched` shows), and a client need not send its next request. It is off for
`PollEngine` and `FileNodes` too, where requests, starts and handles come to an end.

**Fairness** (`FairSpec`): the queue's callback, the thread, an ISR and a DPC that
can run are run in the end, since the kernel schedules them; an engine that has
not hung answers. Of the DPCs of `MmEngine` only one at a time needs to be (where one
handle is open no two are on their way together, `OneDpc`), so their fairness is
that of all CPUs together. Clients, handles and device removal get none. Liveness is
stated so that a hung engine is excluded (`CompletesUnlessHung`); with
`WaitTimesOut` enabled only then, the thread plays no part in it.

`HandlersGoOn` of `MmEngine` and `Interrupts` and `NeverStuck` of `PollEngine` are what
makes fairness worth having: whoever is in the middle of something has a step to take.
They are stated with `ENABLED` of the very actions that `Fairness` names, so they also say
that the guards, which leave out what cannot happen, leave out nothing that does:
`EngineProcessTransfer` without a pending request in poll mode, for instance, is not
modelled because it never finds that. For the two others this alone would hold by the
shape of the actions. Their `NeverStuck` adds that nobody waits for nobody:

* `MmEngine`: a request the driver owns is with a handler, with a message or a DPC on
  its way, or with a busy engine (`InHand`) - never pending before an engine at rest
  whose interrupt is lost; and the thread that waits without a signal (10 s, or as long
  as `terminateThread` waits for it) waits for a request whose finisher has still to
  signal it. An interrupt that is left off, an engine that is not stopped or a signal
  that is set for successes only breaks it.
* `Interrupts`: whoever asserts a bit, enabled or not, has an ISR that is due or a DPC,
  queued or under way, that serves the bit and can take a step (`ServerCanMove`), unless
  `LeftOff` names it. An ISR that disables and does not queue the DPC breaks it.

In `PollEngine` only the callback is fair: its loop ends after ten seconds whatever
the engine does, so `AlwaysAnswered` holds with engines that hang.

In `Interrupts` the shared ISR, the ISR of each vector and the DPC on each CPU go on
(weak fairness: `SharedTaken`, `VectorTaken`, `DpcGoesOn`), and each queued DPC
gets its turn although the CPUs may be busy in between (strong fairness, `HasTurn`: a
processor's DPC queue is first in, first out). Engines, user logic and applications
get none: a reader need never read. That is not enough: an ISR
that always comes after the shared DPC has passed its engine, and before that DPC
enables everything recorded, makes the DPC forget the engine for ever, and TLC
finds that behaviour. Interrupts preempt DPCs, so the liveness properties assume
that from some time on no DPC step is taken, and no wait of 10 s is over, while an
interrupt could be taken (`PromptInTheEnd`); up to then any interleaving is allowed.

`mm_patient` keeps one handle because a second one opened during a transfer
turns the engine's interrupt on between the ISR and the DPC: the duplicate
message makes a DPC read a clean status after line 720 and before 722, and then
`SuccessMeansMoved`, `NoDmaAfterCompletion`, `TimesOutItsOwn` and
`InterruptComesBack` all fail. With an impatient wait they fail as well
(an `EngineStart` that comes after the thread's `EngineStop`). To see it set
`MaxOpens = 1` or `Patient = FALSE` in `MmPatient.cfg`.

**Exceptions in the properties**, each a finding or a choice of the client's:
`CleanStart`, `FetchesWithinLimits` and `ServiceUntilFailure` hold until a request
fails; `LeftOff` exempts, with vectors, a streaming engine (the finding of
`ring_msix`) and an engine whose interrupt a time-out has overtaken (a finding);
`Routed` supposes enough messages granted; `AnsweredOnce` exempts a request to map a
BAR of a node that has none and says of one that cannot be enqueued that it is never
completed (`"dropped"`); `FreshHandles` is about handles of this start on cores
whose control BAR is 0 or 1; `UnmappedByCleanup` about cleanups under which no call
to map is under way: of several calls one mapping is undone, the others stay;
`AddressModeAgrees` about engines whose mode no two requests set at once;
`StaleOnlyAfterFailure` says which restarts use objects that are gone.

### What the violated runs show

1. **Unwatched part** (`mm_unwatched`). Only the first part of a request wakes the
   thread (744). It tests `isReqPending` (417) in the moment between two parts, finds
   nothing pending and goes back to its semaphore; the second part hangs and nobody
   times it out.
2. **Wrong request aborted** (`mm_premature`). After the wait expires the thread
   asks whether *a* request is pending (1228), not whether its own is.
3. **Write errors** (`mm_write_error`). `XDMA_STAT_EXPECTED_ZERO` (reg.h 124-126)
   has no bits for them, so they pass for success.
4. **Lost wake-up** (`ring_lost_wake`). The reader tests the next block (1179) and
   clears the event (1180) in two steps that a fill, scan and signal fit between.
5. **MSI-X ring** (`ring_msix`). `EvtChannelInterruptIsr` disables the interrupt;
   for a streaming engine nobody enables it until the node is opened again.
6. **Full ring** (`ring_overflow`). Only an end of packet signals the reader (1007),
   although the comment above it promises a signal on overflow.

### Findings without a run

Met while modelling, at the lines `PROJECT.json` gives:

7. **Leftover signal** (dma_engine.c 417). The DPC sets `completionWaitSignal` when it
   finishes a request; only a thread that waited clears it. A thread that found no
   request pending leaves it set, its next wait ends at once, and a request that hangs
   is then never aborted: the other way to an unwatched request, which TLC gives for
   `mm_unwatched` when every request is of one part.
8. **Interrupt left off by a time-out** (dma_engine.c 1240). With a vector of its own, an
   engine whose request times out between the ISR (or its message) and the DPC has its
   interrupt off until the node is opened again: `overtaken` of `Interrupts`.
9. **Mapping under a cleanup** (file_io.c 576). `EvtFileCleanup` between the steps of
   `IoctlMapBar` unmaps a stale address or frees the MDL the call goes on to use; the
   call's mapping is left behind.
10. **Late answer in poll mode** (dma_engine.c 1283). After a time-out or an error the
    engine is not stopped and the buffers are not cleared; the count written back
    late satisfies the loop of the next request of as many descriptors, which is
    answered with success.
11. **Cores with few channels** (interrupt.c 621). Zero is replaced by the maximum and
    then compared with the channels found, so that a core of less than four
    channels per direction is rejected, against xdma.h 86-87.
12. **Mapping a BAR of another node** (file_io.c 763). The request is completed and
    then enqueued all the same; one that cannot be enqueued is never completed.
13. **Address mode** (file_io.c 518). Register and field are set without a lock.
14. **Restart** (dma_engine.c 470). `thObject` and the interrupt handles of a previous
    start are taken for live ones.
15. **MSI-X** (interrupt.c 643). The table size decides, not what was granted.
16. **Fixed address** (dma_engine.c 659). The second part of a split request moves on.
17. **Counters and registry** (dma_engine.c 1353, driver.c 109). `pendingCount` is made
    of one register twice; a key that was not opened is closed.

## 4. What is proved

Safety is proved of `Spec` without fairness, liveness of `FairSpec`, for every value of
the constants that the named assumptions of its module allow.

**`MmEngineProofs`**, from `MmAssumption`, for all requests, splits, CPUs, error classes
and numbers of handles, hung engines and racing time-outs included:

* `TypeCorrect` - `TypeOK`;
* `HolderInvariant` - `IInv`, with its parts `AlwaysOneFinisher`, `RequestsNeverDropped`
  and `AlwaysFreeToProgram` (the assertion of `XDMA_EngineProgramDma`, 645);
* `NeverCompletedTwice` - the action property `CompletedOnce`.

None of these parts is inductive alone. That two actors never finish the same
request needs to know that the holder of a request holds the *transaction's*
request; that a holder does needs to know that nobody else is releasing it.
`IInv` states both at once: the right to the current request is a token that is
with the queue (before `markReqPending`), with `isReqPending`, with one DPC, or
with the thread; and while the driver owns a request the token exists and
`txn` names that request (`HolderIsCurrent`). Each action moves the token:
`MarkReqPending` puts it into the flag, `ProcessTransfer` and `ReallyTimedOut` take
it out, `CompleteRequest` and `AbortRequest` destroy it together with the
request. `HolderStep` proves this action by action; `CompletionStep` derives
that an outcome is only ever written for the token's request.

Under the further assumption `Calm` - the case of `MmPatient.cfg`: the wait expires on
a hung engine only, one handle is open, every error of the engine is one that
`EngineProcessTransfer` sees - for all requests, splits and CPUs: `SuccessAlwaysMoved`,
`AlwaysTimesOutItsOwn`, `NeverDmaAfterCompletion`, `InterruptAlwaysComesBack`, and
`InterruptsImplementService`, the refinement of `TransferService`. Without it
`mm_write_error` and `mm_premature` refute the first two. All rest on `IInv` with
`CalmInv`, whose four parts need one another:

* `Interrupting` - one interrupt, message, queued DPC or DPC under `engineLock`, is on its
  way for a status that is set, so a DPC never processes a transfer for nothing;
* `Running` - the engine runs only for the part that is pending, and whoever is to
  start it finds it stopped: a DPC that programs the next part has stopped it first;
* `Watching` - a wait that is not yet signalled is for the current request, since
  nobody may signal the previous one any more; a wait that has expired found it hung;
* `Moving` - the parts moved are those the framework has counted and the one the
  engine or a DPC has just found completed.

`ServiceStep` then maps each step: `HwFinish` moves the one part not yet moved of a
request the service has taken, completions map to the outcome that is written, and
all others stutter.

**Liveness in `MmEngineProofs`.** Under `Calm` again, and with at least one CPU:
`AlwaysCompletesUnlessHung` - `FairSpec /\ []HandlersGoOn => CompletesUnlessHung` - and
`ThreadAlwaysExits` - `FairSpec /\ []HandlersGoOn => ThreadExits`. `[]HandlersGoOn` is a
hypothesis because the prover has no rules for `ENABLED`; TLC checks it in
`mm_patient` (it is a conjunct of `NeverStuck`), and it is the only thing about these two
that is left to TLC. `NobodyWaitsInVain` proves the rest of `NeverStuck` from it.

* Two more parts make the invariant `Sound`: `Answering` (a pending part is about to be
  started, is being moved, or has an interrupt on its way - what `InterruptComesBack`
  is for) and `Closing` (a device being closed has no request, and its thread will be
  woken).
* `Turn` names whose move it is: `Turns` shows that while the driver owns a request
  it is exactly one of the queue, the one DPC that is not idle, the queued DPC, the
  message or the engine. `TurnsLeft` counts down: seven turns for each part that is
  left, fewer at the end of a request. `BringsForward` shows that each turn taken
  lowers it or completes the request, `OthersWait` that no other step changes it or
  takes the turn away. Five lemmas, one per kind of turn and condition of fairness,
  give `TurnIsTaken`: a request `n + 1` turns away is `n` turns away in the end, or
  completed.
* The number of turns is not bounded (splits are arbitrary), so the temporal formulas
  `CompletedWithin(r, n)` have to be proved for all `n` by induction. `InductionRule`
  of `Induction` does it for a function `f` with Boolean values, and the function
  `[n \in Nat |-> CompletedWithin(r, n)]` is given to it: its existence is found by the
  SMT solver once the term occurs in the obligation, which is all that `Shown` is for.
* A closing thread needs no induction: it takes at most three steps, since `OnItsWay`
  shows that its wait is signalled (`Watching`: an unsignalled wait has a current
  request, and there is none), its semaphore released, and no time-out under way.

**`Induction`** and **`DescriptorsProofs`**, lemmas for every list length, request
size and page size. The running maximum `NextAdjMax` has the closed form
`Countdown`: `AdjMax - 1 - i` modulo `AdjMax + 1`. A recursive definition needs an
induction, which the library's theorem cannot give here (it takes an operator).
Instead `NextAdjMaxRounds` shows that the definition is met, because `Countdown`
meets it, and `NextAdjMaxIsCountdown` takes the least index at which the two would
differ (`LeastNumber` of `Induction`, the well-foundedness of the naturals applied
to a set, from which `InductionRule` follows as well) and shows that they agree
there as well. `FirstRead` and `NextRead` then show that the first read and the read
each descriptor announces are `WithinLimits` and `AsLongAsAllowed`: the next read
begins after the announcing descriptor, and the three minima are the three limits at
that place.

**`PollEngineProofs`**, from `PollAssumption`, `ListsAssumption` and
`DescriptorsAssumption`, for all requests, splits into chains, capacities and places
of the buffer:

* `CallbackInvariant` - `Control`: which frame owns the request and the flag. From
  it `AlwaysAnsweredBeforeReturn`, `AlwaysPendingWhilePolled` and
  `NeverCompletedAgain`.
* `TypeCorrect` - `TypeOK`. That the engine never reads past the buffer needs
  `BufferEnds`: the last descriptor of the buffer is zeroed or has the stop bit.
* `CleanInvariant` - until a request fails, `Clean`: the buffer holds the whole chain
  of the current part from `Program` to `ProcessTransfer` (`Chain`) and is zero
  otherwise, the engine is quiet outside the poll loop (`Slate`), its next read is
  one the limits allow (`Reading`), and a count written back means it has stopped
  (`Counted`). `Reading` is inductive because of `Chain`: the next read is the one
  announced by a descriptor of this chain, for which `NextRead` holds. From it
  `AlwaysCleanStart` and `AlwaysWithinLimits`.
* `PolledAlwaysAnswered` - `FairSpec /\ []NeverStuck => AlwaysAnswered`, for any number of
  parts and whatever the engine does, as in `MmEngineProofs`: `StepsLeft` is five for
  each part that is left, every step of the callback lowers it or answers the request
  (`CallbackCountsDown`), no other step touches it, and `AnsweredWithin(r, n)` is proved
  for all `n` by `InductionRule`. It needs `WorksOnAPart`: the part the callback works on
  is one of the request's. `NeverStuck` is checked in `poll_engine`.

**`PollServiceProofs`**: `PollImplementsService` - until a request fails, every step of
the poll engine is a step of `TransferService` or moves no part to its end. A part
counts as moved when all its descriptors were; the invariant `Progress` says that
the engine has moved the parts before the current one whole, a prefix of the
current one that ends where it is to read next, and nothing else.

**`InterruptsProofs`**, from `InterruptsAssumption` and `OrderAssumption`, for all
engines, events, CPUs, readers, orders and modes:

* `TypeCorrect` - `TypeOK` - and `RequestsAlwaysSeen` - `RequestedIsSeen`. The latter is
  inductive with the types: every step that adds to `source` or `enabled` sends the
  messages this takes, and the ISRs take a message only together with the bits it
  stands for.
* `DisabledAlwaysRecorded` - `DisabledIsRecorded`, by the invariant `Recorded`. Of the
  shared interrupt it says that what is disabled is recorded for the DPC, and that
  the DPC is on its way or the ISR has yet to fire (`SharedRecorded`). With vectors an
  event's DPC is on its way whenever it is off (`EventOnItsWay`), and an engine is
  either enabled, with at most its message on the way, or disabled with its status
  set and exactly one DPC queued or still to serve it (`OneToServe`) - unless a time-out
  has overtaken its interrupt. That this DPC does serve it needs `AsksWhenPending`: an
  engine asserts its source only while its request is pending, so that
  `EngineProcessTransfer` leaves by its early return for overtaken engines only, and
  otherwise enables the interrupt.
* `NobodyWaitsForNobody` - `Spec /\ []HandlersGoOn => []NeverStuck`, with at least one CPU.

Liveness, for finitely many CPUs (one at least) and readers (`Finite`):
`EnginesAlwaysServed` - `FairSpec /\ []HandlersGoOn => EnginesServed` - and
`HeldEventsAlwaysTold` - `FairSpec /\ []HandlersGoOn => HeldEventTold`. Work that is called
takes an engine's assertion back (`EngineAnswered`, which needs `AsksWhenPending`) and
tells a waiting reader (`ReaderTold`), so both follow from `NeverIgnored`: no bit is
asserted for ever, from some time on with prompt interrupts, without its work being
called. `Ignored(b)` is the behaviour this excludes, and each lemma takes one more way
out of it.

* With one interrupt for the device (`SharedServes`): a DPC at or before the place of `b`
  in `Order` comes to it, and a prompt ISR has recorded `b` by then, so it would call the
  work (`NeverAhead`, by `InductionRule` on the distance). Hence no DPC begins any more,
  since it would have the whole of `Order` ahead of it (`IgnoredHalts`).
* But then all comes to rest (`ComesToRest`): `Budget` counts the places that the running
  DPCs have still to pass, each worth more than all readers and bits, the readers that
  were told and the bits that are enabled. No step adds to it, and each that passes a
  place, disables a bit or lets a told application go spends of it (`BudgetFalls`);
  `RestsWithin(n)` is proved for all `n` by `InductionRule`. What goes on after that,
  engines that assert disabled bits and readers that give up, changes nothing the
  handlers see: the ISR and all CPUs are idle and nothing is requested (`AllRest`).
* At rest `b` is disabled, therefore recorded, and the DPC of `DisabledIsRecorded` can
  only be queued, with all CPUs free: it has its turn, against `IgnoredHalts`.
* With a message for each bit (`OwnServes`): no DPC that runs is still to call the work of
  `b` (`NotToServe`), so none is begun for it (`NotBegun`); CPUs become free again and
  again (`FreeAgain`), so it is not queued either (`NotQueued`), so it has no message
  (`NotSent`), so by `RequestedIsSeen` it is disabled (`NotEnabled`), and by `OneToServe` or
  `EventOnItsWay` its DPC is on the way after all. `~LeftOff` excludes the streaming
  engines, for which the code keeps no such promise (`ring_msix`), and the overtaken.

`PromptInTheEnd` enters at one place, that `b` is recorded when the shared DPC comes by it.
Fairness is stated for one CPU at a time; that it holds of all CPUs from any time on
(`AllGoOn`) is an induction on their number.

**`RingStreamProofs`**, from `RingAssumption`, for any number of blocks, block and read
lengths, openings and each `mode`: `TypeCorrect`, `CreditsAlwaysConserved`,
`ScanAlwaysStops` and `NeverEmptyBlock`, all from one invariant `IInv`. Its core, `Order`,
places everybody on the ring as distances from `head`: the reader's block is not
past the end of its read, that not past `tail`, then come the place of the scan and
of the engine. `Statuses` and `Lengths` say which results are set in each of these
stretches; neither the order nor the results are inductive alone, since the scan
goes on by the status it sees and the engine by the credits the reader returns.
`PolledByReader` is needed as well: in poll mode nobody but the reader runs
`EngineProcessRing`, so that the end of a poll finds the reader it belongs to.

Its second part, `RingImplementsFifo` - every step of the ring is one of
`StreamFifo` under the mapping of `RingStream`, or stutters: `HwFill` is `Put`,
`CopyBlock` is `Take`, `FileCreate` and `FileCleanup` are `Open` and `Close`. That a
block is taken in its turn is `Order`; that `Put` finds room is `CreditsConserved`
(`BacklogBounds`).

**`FileNodesProofs`**, from `SetupAssumption` and `NodesAssumption`, for any cores,
limits, numbers of messages granted, channels, starts, nodes, handles and requests.
The invariant has two halves that meet in few places:

* `SetupInv`, of starts and stops, which `SetupStep` shows every step of them to keep
  and `SetupAlone` every other step. `BarsInOrder` is what the loops over BARs have done
  by their stage; `EnginesInOrder` and `VectorsInOrder` relate the place of an engine in
  `ProbeEngines`, its request bit and its vector (`Position`, `BitOf`, `VectorOf`);
  `QueuesInOrder` which queues are of this start; `GoneAfterStop` that only a stop leaves
  an object's handle behind. From it `AlwaysUndone`, `AlwaysRouted` and
  `StaleAfterFailureOnly`. That two engines have two vectors needs the assumption
  that all vectors fit the five bits of a register field (16 + 2 * 4 in the code).
* `FileInv`, of handles and requests: `HandleStarts` (a handle is of an earlier start
  while the device is not started), `MappingKept`, which is about the calls in any of
  their steps (a mapping is of a call that has got as far; until the handle is cleaned
  up, `file->virtAddress` names one as soon as a call has finished, and `file->mdl` is
  set unless a call has failed), `OneSetter` (one request at
  most is between the register and the field of an engine's address mode, and the
  register has its mode), `Counted`. From it `TypeCorrect`, `AlwaysAnsweredOnce`,
  `HandlesAlwaysFresh`, `CleanupUnmaps` and `AddressModeAlwaysAgrees`.

Model-checked only: `HandlersGoOn` of `MmEngine` and `Interrupts` and `NeverStuck` of
`PollEngine`, since `ENABLED` is out of the prover's reach. They are the one hypothesis
the theorems about liveness and waiting take from TLC. Every other property of a run
that passes is stated by a theorem.

## 5. Not modelled

* The ring with a disorderly close, a second handle, error write-backs, and two
  DPCs of the shared interrupt in `EngineProcessRing` at once: the last would
  compose `Interrupts` with `RingStream`, each near what can be searched.
* Power transitions (`EvtInterruptDisable` and its counterparts).
* Contents: registers and BARs read and written, transfer lengths and bus
  addresses (`DescriptorIsAligned` only logs), performance counters.
* `DriverEntry` and `EvtDeviceAdd`, which register callbacks; `EngineGetAlignments`,
  which fills two fields that only a warning reads.
* The sample applications other than the loop of `user_event`: sequential clients
  without state of their own. Tracing, build files and installation.

Formatting and logging are omitted throughout. What would add most next: the
ring with a disorderly close, and `Interrupts` composed with `RingStream`.

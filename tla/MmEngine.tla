------------------------------ MODULE MmEngine ------------------------------
(***************************************************************************)
(* One memory-mapped (AXI-MM) SGDMA engine of the driver, in interrupt     *)
(* mode with MSI-X handlers.  The actors that share the engine context are *)
(*                                                                         *)
(*   queue    the framework's sequential I/O queue: EvtIoWriteDma or       *)
(*            EvtIoReadDma, and the XDMA_EngineProgramDma it leads to;     *)
(*   dpc[c]   an instance of EvtChannelInterruptDpc running on CPU c:      *)
(*            EngineProcessTransfer, and the XDMA_EngineProgramDma that    *)
(*            WdfDmaTransactionDmaCompleted calls for the next split;      *)
(*   thread   xdmaCompletionThread, the watchdog of a transfer;            *)
(*   hardware the engine, its control and status registers and its         *)
(*            interrupt message.                                           *)
(*                                                                         *)
(* Every section of code under engineLock is one action, so the lock needs *)
(* no variable.  A request of Splits[r] parts is moved part by part.       *)
(*                                                                         *)
(* The capacity test of XDMA_EngineProgramDma cannot fail here: the DMA    *)
(* enabler limits a part to XDMA_MAX_TRANSFER_SIZE, at most 2049 pages for *)
(* the 2050 descriptors of EngineCreateDescriptorBuffer.                   *)
(***************************************************************************)
EXTENDS Integers

CONSTANTS
  Requests,   \* the I/O requests sent to the engine's queue
  NoReq,      \* "no request"
  Splits,     \* into how many parts the framework splits each request
  Cpus,       \* the processors that run DPCs
  HwErrors,   \* the error bits the engine may report
  CanHang,    \* whether the engine may stop answering
  Patient,    \* whether the 10 s wait outlasts every answer of the hardware
              \* and of the DPC, so that it only expires on a hung engine
  MaxOpens    \* how many more file handles are opened on the engine

ASSUME MmAssumption ==
  /\ NoReq \notin Requests
  /\ Splits \in [Requests -> Nat \ {0}]
  /\ HwErrors \subseteq {"read", "write", "descriptor"}
  /\ CanHang \in BOOLEAN
  /\ Patient \in BOOLEAN
  /\ MaxOpens \in Nat

VARIABLES
  req,                   \* state of each request: "queued", "driver" or its outcome
  txn,                   \* the request engine->dmaTransaction was initialised with
  split,                 \* the parts of it the framework counts as transferred
  isReqPending,          \* engine->isReqPending
  descBuffer,            \* the part described in engine->descBuffer
  completionWaitSignal,  \* engine->completionWaitSignal, a notification event
  semaphore,             \* count of engine->semaphore
  terminate,             \* engine->terminate
  queue,                 \* where the queue's callback is
  dpc,                   \* where the DPC on each CPU is
  request,               \* its local variable request
  status,                \* its local variable status
  thread,                \* where the completion thread is
  watch,                 \* history: the request pending when the thread's wait began
  run,                   \* the run bit of the engine's control register
  active,                \* the part the engine is moving
  hung,                  \* the engine has stopped answering
  engineStatus,          \* its status register, the busy bit apart
  msi,                   \* an interrupt message is in flight
  intEnabled,            \* the engine's bit of channelIntEnable
  dpcQueued,             \* the interrupt's DPC object is queued
  moved,                 \* history: the parts the engine has moved
  opens                  \* handles opened so far, beyond the first

txnVars    == <<req, txn, split>>
signalVars == <<completionWaitSignal, semaphore, terminate>>
dpcVars    == <<dpc, request, status>>
threadVars == <<thread, watch>>
hwVars     == <<run, active, hung, engineStatus>>
irqVars    == <<msi, intEnabled, dpcQueued>>
vars == <<txnVars, isReqPending, descBuffer, signalVars, queue, dpcVars,
          threadVars, hwVars, irqVars, moved, opens>>

Outcomes == {"SUCCESS", "INTERNAL_ERROR", "TIMEOUT", "FAILED"}
NoJob    == <<NoReq, 0>>
Parts    == (Requests \cup {NoReq}) \X Nat

-----------------------------------------------------------------------------
(* Slips of the code: variants of the definitions below, each with one fault  *)
(* that some property must notice.                                            *)

\* XDMA_STAT_EXPECTED_ZERO without XDMA_STAT_READ_ERROR.
ExpectedZeroNoRead == {"busy", "magic", "descriptor"}

\* EngineStatus(engine, TRUE) without EngineStop.
ReadStatusOnly ==
  /\ engineStatus' = "clear"
  /\ UNCHANGED <<run, active, hung>>

\* The engine's interrupt is not enabled again.
LeaveInterrupt(stat) == UNCHANGED <<intEnabled, msi>>

\* The thread does not wait for the semaphore.
ThreadWakesUnasked ==
  /\ thread = "semaphore"
  /\ semaphore' = semaphore - 1
  /\ thread' = IF terminate THEN "exited" ELSE "check"
  /\ UNCHANGED <<txnVars, isReqPending, descBuffer, completionWaitSignal, terminate,
                 queue, dpcVars, watch, hwVars, irqVars, moved, opens>>

\* EngineProcessTransfer without isReqPending = FALSE.
ProcessTransferStaysPending(c) ==
  /\ dpc[c] = "process"
  /\ isReqPending /\ txn # NoReq
  /\ dpc' = [dpc EXCEPT ![c] = "ok"]
  /\ request' = [request EXCEPT ![c] = txn]
  /\ engineStatus' = "clear"
  /\ run' = FALSE /\ active' = NoJob /\ hung' = FALSE
  /\ descBuffer' = NoJob
  /\ intEnabled' = TRUE
  /\ UNCHANGED <<txnVars, isReqPending, signalVars, queue, status, threadVars, msi,
                 dpcQueued, moved, opens>>

\* One part too many.
DmaCompletedOffByOne(c) ==
  /\ dpc[c] = "ok"
  /\ split' = split + 1
  /\ dpc' = [dpc EXCEPT ![c] = IF split < Splits[request[c]] THEN "program" ELSE "signal"]
  /\ status' = [status EXCEPT ![c] = "SUCCESS"]
  /\ UNCHANGED <<req, txn, isReqPending, descBuffer, signalVars, queue, request,
                 threadVars, hwVars, irqVars, moved, opens>>

\* EngineProcessTransfer without KeSetEvent.
SignalNobody(c) ==
  /\ dpc[c] = "signal"
  /\ dpc' = [dpc EXCEPT ![c] = "complete"]
  /\ UNCHANGED <<txnVars, isReqPending, descBuffer, signalVars, queue, request, status,
                 threadVars, hwVars, irqVars, moved, opens>>

\* EngineProcessTransfer sets the event for a request without errors only.
SignalSuccessOnly(c) ==
  /\ dpc[c] = "signal"
  /\ completionWaitSignal' = (completionWaitSignal \/ status[c] = "SUCCESS")
  /\ dpc' = [dpc EXCEPT ![c] = "complete"]
  /\ UNCHANGED <<txnVars, isReqPending, descBuffer, semaphore, terminate, queue, request,
                 status, threadVars, hwVars, irqVars, moved, opens>>

\* EngineWaitForCompletion leaves the pending flag to the DPC.
ReallyTimedOutStaysPending ==
  /\ thread = "timedOut" /\ isReqPending
  /\ engineStatus' = "clear"
  /\ run' = FALSE /\ active' = NoJob /\ hung' = FALSE
  /\ thread' = "abort"
  /\ UNCHANGED <<txnVars, isReqPending, descBuffer, signalVars, queue, dpcVars, watch,
                 irqVars, moved, opens>>

\* The thread does not complete the request it took from the DPC.
AbortForgotten ==
  /\ thread = "abort"
  /\ thread' = "semaphore"
  /\ UNCHANGED <<txnVars, isReqPending, descBuffer, signalVars, queue, dpcVars, watch,
                 hwVars, irqVars, moved, opens>>

-----------------------------------------------------------------------------

\* XDMA_STAT_EXPECTED_ZERO: the bits that make EngineProcessTransfer fail a
\* request.  The write-error bits 14-18 are not among them.
ExpectedZero == {"busy", "magic", "read", "descriptor"}

Init ==
  /\ req = [r \in Requests |-> "queued"]
  /\ txn = NoReq /\ split = 0
  /\ isReqPending = FALSE
  /\ descBuffer = NoJob
  /\ completionWaitSignal = FALSE
  /\ semaphore = 0
  /\ terminate = FALSE
  /\ queue = "idle"
  /\ dpc = [c \in Cpus |-> "idle"]
  /\ request = [c \in Cpus |-> NoReq]
  /\ status = [c \in Cpus |-> "SUCCESS"]
  /\ thread = "semaphore" /\ watch = NoReq
  /\ run = FALSE /\ active = NoJob /\ hung = FALSE
  /\ engineStatus = "clear"
  /\ msi = FALSE /\ intEnabled = TRUE /\ dpcQueued = FALSE
  /\ moved = {}
  /\ opens = 0

-----------------------------------------------------------------------------
(* Helpers of several actors *)

\* Writing the run bit has an effect only when it was clear.  The engine
\* fetches its descriptors; zeroed ones lack the magic number.
EngineStart ==
  /\ run' = TRUE
  /\ UNCHANGED hung
  /\ \/ run /\ UNCHANGED <<active, engineStatus, msi>>
     \/ /\ ~run /\ descBuffer # NoJob
        /\ active' = descBuffer
        /\ UNCHANGED <<engineStatus, msi>>
     \/ /\ ~run /\ descBuffer = NoJob
        /\ engineStatus' = "magic"
        /\ msi' = (msi \/ intEnabled)
        /\ UNCHANGED active

\* EngineStatus(engine, TRUE) followed by EngineStop.
ReadStatusAndStop ==
  /\ engineStatus' = "clear"
  /\ run' = FALSE /\ active' = NoJob /\ hung' = FALSE

\* A message is sent when an asserted request of the engine becomes enabled.
EngineEnableInterrupt(stat) ==
  /\ intEnabled' = TRUE
  /\ msi' = (msi \/ (~intEnabled /\ stat # "clear"))

\* XDMA_EngineProgramDma up to markReqPending.  Its test of isReqPending has
\* no effect; nobody else reads or writes the buffer while nothing is pending.
MarkReqPending ==
  /\ descBuffer' = <<txn, split>>
  /\ isReqPending' = TRUE

\* WdfDmaTransactionRelease and WdfRequestComplete.
ReleaseAndComplete(r, outcome) ==
  /\ txn' = NoReq
  /\ req' = [req EXCEPT ![r] = outcome]
  /\ UNCHANGED split

-----------------------------------------------------------------------------
(* The queue: EvtIoWriteDma and EvtIoReadDma, and the first part's program *)

\* The queue is sequential: it hands out a request only after the previous one
\* was completed and the callback that presented it has returned.
Presents(r) ==
  /\ queue = "idle"
  /\ ~terminate
  /\ req[r] = "queued"
  /\ \A s \in Requests : req[s] # "driver"

\* WdfDmaTransactionInitializeUsingRequest and WdfDmaTransactionExecute.
Dispatch(r) ==
  /\ Presents(r)
  /\ req' = [req EXCEPT ![r] = "driver"]
  /\ txn' = r /\ split' = 0
  /\ queue' = "program"
  /\ UNCHANGED <<isReqPending, descBuffer, signalVars, dpcVars, threadVars,
                 hwVars, irqVars, moved, opens>>

\* Either call fails: the ErrExit of EvtIoWriteDma and EvtIoReadDma.
DispatchFails(r) ==
  /\ Presents(r)
  /\ ReleaseAndComplete(r, "FAILED")
  /\ UNCHANGED <<isReqPending, descBuffer, signalVars, queue, dpcVars, threadVars,
                 hwVars, irqVars, moved, opens>>

QueueProgram ==
  /\ queue = "program"
  /\ MarkReqPending
  /\ queue' = "start"
  /\ UNCHANGED <<txnVars, signalVars, dpcVars, threadVars, hwVars, irqVars, moved, opens>>

QueueStart ==
  /\ queue = "start"
  /\ EngineStart
  /\ queue' = "wake"
  /\ UNCHANGED <<txnVars, isReqPending, descBuffer, signalVars, dpcVars, threadVars,
                 intEnabled, dpcQueued, moved, opens>>

\* Only the first part of a request wakes the completion thread.
WakeThread ==
  /\ queue = "wake"
  /\ semaphore' = semaphore + 1
  /\ queue' = "idle"
  /\ UNCHANGED <<txnVars, isReqPending, descBuffer, completionWaitSignal, terminate,
                 dpcVars, threadVars, hwVars, irqVars, moved, opens>>

-----------------------------------------------------------------------------
(* Interrupts: EvtChannelInterruptIsr and EvtChannelInterruptDpc *)

Isr ==
  /\ msi
  /\ msi' = FALSE /\ intEnabled' = FALSE /\ dpcQueued' = TRUE
  /\ UNCHANGED <<txnVars, isReqPending, descBuffer, signalVars, queue, dpcVars,
                 threadVars, hwVars, moved, opens>>

\* The DPC may be queued anew, and run on another CPU, while it still runs here.
DpcBegin(c) ==
  /\ dpcQueued /\ dpc[c] = "idle"
  /\ dpcQueued' = FALSE
  /\ dpc' = [dpc EXCEPT ![c] = "process"]
  /\ UNCHANGED <<txnVars, isReqPending, descBuffer, signalVars, queue, request,
                 status, threadVars, hwVars, msi, intEnabled, moved, opens>>

\* EngineProcessTransfer finds no pending request and returns at once; it
\* leaves the interrupt as it is.
SpuriousInterrupt(c) ==
  /\ dpc[c] = "process"
  /\ ~isReqPending \/ txn = NoReq
  /\ dpc' = [dpc EXCEPT ![c] = "idle"]
  /\ UNCHANGED <<txnVars, isReqPending, descBuffer, signalVars, queue, request,
                 status, threadVars, hwVars, irqVars, moved, opens>>

\* The rest of EngineProcessTransfer's section under engineLock.
ProcessTransfer(c) ==
  /\ dpc[c] = "process"
  /\ isReqPending /\ txn # NoReq
  /\ LET bit == IF active # NoJob THEN "busy" ELSE engineStatus
     IN dpc' = [dpc EXCEPT ![c] = IF bit \in ExpectedZero THEN "error" ELSE "ok"]
  /\ request' = [request EXCEPT ![c] = txn]
  /\ ReadStatusAndStop
  /\ descBuffer' = NoJob
  /\ isReqPending' = FALSE
  /\ EngineEnableInterrupt("clear")
  /\ UNCHANGED <<txnVars, signalVars, queue, status, threadVars, dpcQueued, moved, opens>>

\* WdfDmaTransactionDmaCompleted: the part counts as transferred; the framework
\* calls XDMA_EngineProgramDma for the next one or reports the last.
DmaCompleted(c) ==
  /\ dpc[c] = "ok"
  /\ split' = split + 1
  /\ dpc' = [dpc EXCEPT ![c] = IF split + 1 < Splits[request[c]] THEN "program" ELSE "signal"]
  /\ status' = [status EXCEPT ![c] = "SUCCESS"]
  /\ UNCHANGED <<req, txn, isReqPending, descBuffer, signalVars, queue, request,
                 threadVars, hwVars, irqVars, moved, opens>>

\* WdfDmaTransactionDmaCompletedFinal ends the transaction at any part.
DmaCompletedFinal(c) ==
  /\ dpc[c] = "error"
  /\ dpc' = [dpc EXCEPT ![c] = "signal"]
  /\ status' = [status EXCEPT ![c] = "INTERNAL_ERROR"]
  /\ UNCHANGED <<txnVars, isReqPending, descBuffer, signalVars, queue, request,
                 threadVars, hwVars, irqVars, moved, opens>>

DpcProgram(c) ==
  /\ dpc[c] = "program"
  /\ MarkReqPending
  /\ dpc' = [dpc EXCEPT ![c] = "start"]
  /\ UNCHANGED <<txnVars, signalVars, queue, request, status, threadVars, hwVars,
                 irqVars, moved, opens>>

DpcStart(c) ==
  /\ dpc[c] = "start"
  /\ EngineStart
  /\ dpc' = [dpc EXCEPT ![c] = "idle"]
  /\ UNCHANGED <<txnVars, isReqPending, descBuffer, signalVars, queue, request, status,
                 threadVars, intEnabled, dpcQueued, moved, opens>>

SignalThread(c) ==
  /\ dpc[c] = "signal"
  /\ completionWaitSignal' = TRUE
  /\ dpc' = [dpc EXCEPT ![c] = "complete"]
  /\ UNCHANGED <<txnVars, isReqPending, descBuffer, semaphore, terminate, queue, request,
                 status, threadVars, hwVars, irqVars, moved, opens>>

CompleteRequest(c) ==
  /\ dpc[c] = "complete"
  /\ ReleaseAndComplete(request[c], status[c])
  /\ dpc' = [dpc EXCEPT ![c] = "idle"]
  /\ UNCHANGED <<isReqPending, descBuffer, signalVars, queue, request, status,
                 threadVars, hwVars, irqVars, moved, opens>>

-----------------------------------------------------------------------------
(* xdmaCompletionThread and EngineWaitForCompletion *)

ThreadWakes ==
  /\ thread = "semaphore" /\ semaphore > 0
  /\ semaphore' = semaphore - 1
  /\ thread' = IF terminate THEN "exited" ELSE "check"
  /\ UNCHANGED <<txnVars, isReqPending, descBuffer, completionWaitSignal, terminate,
                 queue, dpcVars, watch, hwVars, irqVars, moved, opens>>

ThreadChecksPending ==
  /\ thread = "check"
  /\ thread' = IF isReqPending THEN "wait" ELSE "semaphore"
  /\ watch' = IF isReqPending THEN txn ELSE watch
  /\ UNCHANGED <<txnVars, isReqPending, descBuffer, signalVars, queue, dpcVars, hwVars,
                 irqVars, moved, opens>>

WaitSatisfied ==
  /\ thread = "wait" /\ completionWaitSignal
  /\ thread' = "clear"
  /\ UNCHANGED <<txnVars, isReqPending, descBuffer, signalVars, queue, dpcVars, watch,
                 hwVars, irqVars, moved, opens>>

WaitTimesOut ==
  /\ thread = "wait" /\ ~completionWaitSignal
  /\ Patient => hung
  /\ thread' = "timedOut"
  /\ UNCHANGED <<txnVars, isReqPending, descBuffer, signalVars, queue, dpcVars, watch,
                 hwVars, irqVars, moved, opens>>

\* After the time-out, under engineLock: the DPC has cleared the request.
AlreadyProcessed ==
  /\ thread = "timedOut" /\ ~isReqPending
  /\ thread' = "clear"
  /\ UNCHANGED <<txnVars, isReqPending, descBuffer, signalVars, queue, dpcVars, watch,
                 hwVars, irqVars, moved, opens>>

\* After the time-out, under engineLock: a request is pending, and is taken
\* from the DPC.
ReallyTimedOut ==
  /\ thread = "timedOut" /\ isReqPending
  /\ isReqPending' = FALSE
  /\ ReadStatusAndStop
  /\ thread' = "abort"
  /\ UNCHANGED <<txnVars, descBuffer, signalVars, queue, dpcVars, watch, irqVars, moved,
                 opens>>

AbortRequest ==
  /\ thread = "abort"
  /\ IF txn # NoReq THEN ReleaseAndComplete(txn, "TIMEOUT") ELSE UNCHANGED txnVars
  /\ thread' = "semaphore"
  /\ UNCHANGED <<isReqPending, descBuffer, signalVars, queue, dpcVars, watch, hwVars,
                 irqVars, moved, opens>>

ClearSignal ==
  /\ thread = "clear"
  /\ completionWaitSignal' = FALSE
  /\ thread' = "semaphore"
  /\ UNCHANGED <<txnVars, isReqPending, descBuffer, semaphore, terminate, queue, dpcVars,
                 watch, hwVars, irqVars, moved, opens>>

-----------------------------------------------------------------------------
(* The hardware *)

\* An engine status bit is raised and, if it is the first, requests an interrupt.
RaiseStatus(bit) ==
  /\ engineStatus' = bit
  /\ msi' = (msi \/ (intEnabled /\ engineStatus = "clear"))

HwFinish ==
  /\ active # NoJob /\ ~hung
  /\ moved' = moved \cup {active}
  /\ active' = NoJob
  /\ RaiseStatus("completed")
  /\ UNCHANGED <<txnVars, isReqPending, descBuffer, signalVars, queue, dpcVars, threadVars,
                 run, hung, intEnabled, dpcQueued, opens>>

HwError ==
  /\ active # NoJob /\ ~hung
  /\ active' = NoJob
  /\ \E bit \in HwErrors : RaiseStatus(bit)
  /\ UNCHANGED <<txnVars, isReqPending, descBuffer, signalVars, queue, dpcVars, threadVars,
                 run, hung, intEnabled, dpcQueued, moved, opens>>

HwHang ==
  /\ CanHang
  /\ active # NoJob /\ ~hung
  /\ hung' = TRUE
  /\ UNCHANGED <<txnVars, isReqPending, descBuffer, signalVars, queue, dpcVars, threadVars,
                 run, active, engineStatus, irqVars, moved, opens>>

-----------------------------------------------------------------------------
(* Handles and the device *)

\* EvtDeviceFileCreate for one more handle on this engine's device node.
FileCreate ==
  /\ opens < MaxOpens /\ ~terminate
  /\ opens' = opens + 1
  /\ EngineEnableInterrupt(engineStatus)
  /\ UNCHANGED <<txnVars, isReqPending, descBuffer, signalVars, queue, dpcVars, threadVars,
                 hwVars, dpcQueued, moved>>

\* Power-down, then XDMA_DeviceClose: the framework waits for the requests the
\* driver owns, disables the interrupt and drains its DPC before closeEngines
\* runs terminateThread.
DeviceClose ==
  /\ ~terminate
  /\ queue = "idle" /\ \A r \in Requests : req[r] # "driver"
  /\ ~dpcQueued /\ \A c \in Cpus : dpc[c] = "idle"
  /\ intEnabled' = FALSE /\ msi' = FALSE
  /\ terminate' = TRUE
  /\ semaphore' = semaphore + 1
  /\ UNCHANGED <<txnVars, isReqPending, descBuffer, completionWaitSignal, queue, dpcVars,
                 threadVars, hwVars, dpcQueued, moved, opens>>

\* The device is closed and its thread has exited.
Closed ==
  /\ thread = "exited"
  /\ UNCHANGED vars

-----------------------------------------------------------------------------

QueueGoesOn == QueueProgram \/ QueueStart \/ WakeThread

QueueStep ==
  \/ \E r \in Requests : Dispatch(r) \/ DispatchFails(r)
  \/ QueueGoesOn

DpcStep(c) ==
  \/ SpuriousInterrupt(c) \/ ProcessTransfer(c)
  \/ DmaCompleted(c) \/ DmaCompletedFinal(c)
  \/ DpcProgram(c) \/ DpcStart(c)
  \/ SignalThread(c) \/ CompleteRequest(c)

DpcIsRun  == \E c \in Cpus : DpcBegin(c)
DpcGoesOn == \E c \in Cpus : DpcStep(c)

ThreadStep ==
  \/ ThreadWakes \/ ThreadChecksPending \/ WaitSatisfied \/ WaitTimesOut
  \/ AlreadyProcessed \/ ReallyTimedOut \/ AbortRequest \/ ClearSignal

HwStep == HwFinish \/ HwError

Next ==
  \/ QueueStep \/ ThreadStep \/ HwStep \/ HwHang
  \/ Isr \/ DpcIsRun \/ DpcGoesOn
  \/ FileCreate \/ DeviceClose \/ Closed

Spec == Init /\ [][Next]_vars

\* A callback, an interrupt or a thread that can run is run in the end; an
\* engine that has not hung answers.  Of two DPCs on their way one may be kept
\* waiting for ever: no more is asked of the processors.
Fairness ==
  /\ WF_vars(QueueGoesOn)
  /\ WF_vars(ThreadStep)
  /\ WF_vars(HwStep)
  /\ WF_vars(Isr)
  /\ WF_vars(DpcIsRun)
  /\ WF_vars(DpcGoesOn)

FairSpec == Spec /\ Fairness

-----------------------------------------------------------------------------
(* Properties *)

RequestTypes ==
  /\ req \in [Requests -> {"queued", "driver"} \cup Outcomes]
  /\ txn \in Requests \cup {NoReq}
  /\ split \in Nat
  /\ isReqPending \in BOOLEAN
  /\ descBuffer \in Parts
  /\ queue \in {"idle", "program", "start", "wake"}

DpcTypes ==
  /\ dpc \in [Cpus -> {"idle", "process", "ok", "error", "program", "start", "signal",
                      "complete"}]
  /\ request \in [Cpus -> Requests \cup {NoReq}]
  /\ status \in [Cpus -> {"SUCCESS", "INTERNAL_ERROR"}]

ThreadTypes ==
  /\ completionWaitSignal \in BOOLEAN
  /\ semaphore \in Nat
  /\ terminate \in BOOLEAN
  /\ thread \in {"semaphore", "check", "wait", "timedOut", "clear", "abort", "exited"}
  /\ watch \in Requests \cup {NoReq}

HardwareTypes ==
  /\ run \in BOOLEAN
  /\ active \in Parts
  /\ hung \in BOOLEAN
  /\ engineStatus \in {"clear", "completed", "magic"} \cup HwErrors
  /\ msi \in BOOLEAN
  /\ intEnabled \in BOOLEAN
  /\ dpcQueued \in BOOLEAN
  /\ moved \subseteq Parts
  /\ opens \in 0..MaxOpens

\* Every variable stays within its type.
TypeOK == RequestTypes /\ DpcTypes /\ ThreadTypes /\ HardwareTypes

\* The program counters at which an actor alone is to finish or to reprogram the
\* request: it took isReqPending down, or was handed the request by the queue.
QueueHolds  == queue = "program"
DpcHolds(c) == dpc[c] \in {"ok", "error", "program", "signal", "complete"}
ThreadHolds == thread = "abort"

\* XDMA_EngineProgramDma never finds a request pending ("Request is already
\* pending", dma_engine.c:645, an assertion that cannot fire as written).
ProgramsOnlyWhenFree ==
  (queue = "program" \/ \E c \in Cpus : dpc[c] = "program") => ~isReqPending

\* A request the driver owns is never dropped: it is pending, or exactly one of
\* the queue, the DPCs and the thread is about to program or complete it; and
\* it is the one the transaction was initialised with.
NeverDropped ==
  \A r \in Requests : req[r] = "driver" =>
    /\ txn = r
    /\ isReqPending \/ QueueHolds \/ ThreadHolds \/ \E c \in Cpus : DpcHolds(c)

\* Nobody finishes a request behind another's back: the DPC, the queue and the
\* thread never hold the right to it together, nor while it is still pending.
OneFinisher ==
  /\ \A c \in Cpus : DpcHolds(c) => ~QueueHolds /\ ~ThreadHolds /\ ~isReqPending
  /\ \A c, d \in Cpus : DpcHolds(c) /\ DpcHolds(d) => c = d
  /\ ThreadHolds => ~QueueHolds /\ ~isReqPending

\* Whoever holds a request, or the pending flag, holds the transaction's request,
\* which is the only one the driver owns; the DPC's local variable names it.
HolderIsCurrent ==
  /\ \A r \in Requests : req[r] = "driver" <=> txn = r
  /\ isReqPending \/ QueueHolds \/ ThreadHolds => txn # NoReq
  /\ \A c \in Cpus : DpcHolds(c) => txn # NoReq /\ request[c] = txn

\* The inductive invariant: at any time one actor at most, or the pending flag,
\* holds the current request, and it is the transaction's.
IInv ==
  /\ TypeOK
  /\ ProgramsOnlyWhenFree
  /\ OneFinisher
  /\ HolderIsCurrent
  /\ NeverDropped

\* A completed request is never touched again: WdfRequestComplete is called once.
CompletedOnce ==
  [][\A r \in Requests : req[r] \in Outcomes => req'[r] = req[r]]_vars

\* A request reported as successful was moved whole: EngineProcessTransfer takes
\* a clean status for "engine not busy and no errors".
SuccessMeansMoved ==
  \A r \in Requests : req[r] = "SUCCESS" =>
    \A i \in 0..(Splits[r] - 1) : <<r, i>> \in moved

\* A request is reported as timed out only when its own wait ran out ("Wait has
\* timed out and still request is not processed").
TimesOutItsOwn == ThreadHolds => txn = watch

\* The engine moves no data of a request whose buffer was given back.
NoDmaAfterCompletion == active # NoJob => req[active[1]] = "driver"

\* The interrupt is off only while a DPC is on its way to turn it on again.
InterruptComesBack ==
  ~intEnabled => terminate \/ dpcQueued \/ \E c \in Cpus : dpc[c] = "process"

\* The engine implements the service its clients rely on: one request at a time,
\* parts moved in order and only while the driver owns the request, success only
\* for a request moved whole.
Service == INSTANCE TransferService
ImplementsService == Service!Spec

\* A request handed to the driver is completed in the end.
Completes == Service!Answered

\* While the engine answers, that needs no more than its interrupts.
CompletesUnlessHung == []~hung => Completes

\* The completion thread is at a wait that is over, or at none.
ThreadReady ==
  \/ thread = "semaphore" /\ semaphore > 0
  \/ thread = "wait" /\ completionWaitSignal
  \/ thread \in {"check", "timedOut", "clear", "abort"}

\* The queue's callback, a DPC, the thread and the engine find a way on from where
\* they are, and an interrupt on its way is taken.
HandlersGoOn ==
  /\ queue # "idle" => ENABLED <<QueueGoesOn>>_vars
  /\ dpcQueued /\ (\E c \in Cpus : dpc[c] = "idle") => ENABLED <<DpcIsRun>>_vars
  /\ (\E c \in Cpus : dpc[c] # "idle") => ENABLED <<DpcGoesOn>>_vars
  /\ ThreadReady => ENABLED <<ThreadStep>>_vars
  /\ msi => ENABLED <<Isr>>_vars
  /\ active # NoJob /\ ~hung => ENABLED <<HwStep>>_vars

\* The request is with a handler, with an interrupt on its way to one, or with the
\* engine.
InHand ==
  \/ queue \in {"program", "start"} \/ thread = "abort" \/ \E c \in Cpus : dpc[c] # "idle"
  \/ msi \/ dpcQueued
  \/ active # NoJob

\* Nobody waits for what no one will do.  The request that the driver owns never
\* rests with an engine at rest whose interrupt is lost, though the interrupt is
\* enabled and disabled, the status cleared and the engine started in separate places
\* (EvtChannelInterruptIsr, EngineProcessTransfer, EngineStart).  The thread never
\* waits unsignalled for a request that has been signalled for already
\* (EngineWaitForCompletion, EngineProcessTransfer): who finishes it is still to
\* signal, or the wait runs out with the request pending.
NeverStuck ==
  /\ HandlersGoOn
  /\ \A r \in Requests : req[r] = "driver" => InHand
  /\ thread = "wait" /\ ~completionWaitSignal =>
       req[watch] = "driver" /\ \A c \in Cpus : dpc[c] # "complete"

\* terminateThread's wait for the thread, which has no time-out, ends.
ThreadExits == terminate ~> (thread = "exited")
=============================================================================

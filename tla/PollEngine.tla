----------------------------- MODULE PollEngine -----------------------------
(***************************************************************************)
(* One SGDMA engine of the driver in poll mode (XDMA_EngineSetPollMode).   *)
(* There is no interrupt and no completion thread: the callback of the     *)
(* engine's sequential queue programs a part, spins on the count the       *)
(* engine writes back, processes the transfer, and is called again, deeper *)
(* on the same stack, for the next part.  pc says where that stack's       *)
(* innermost frame is; the outer ones only return once it has.             *)
(*                                                                         *)
(* The engine runs concurrently.  After an error or a time-out nobody      *)
(* stops it: it may go on through the descriptor buffer while the next     *)
(* request is written into it, so the buffer is kept descriptor by         *)
(* descriptor.  Writing a whole chain is one step, though, between two     *)
(* reads of the engine.                                                    *)
(*                                                                         *)
(* The capacity test of XDMA_EngineProgramDma cannot fail here: the DMA    *)
(* enabler limits a part to 2049 pages for 2050 descriptors.               *)
(***************************************************************************)
EXTENDS Integers, Sequences, Descriptors

CONSTANTS
  Requests,   \* the I/O requests sent to the engine's queue
  NoReq,      \* "no request"
  Lists,      \* for each request, the length of the descriptor list of each part
  Capacity,   \* engine->capacity
  Offsets,    \* where the descriptor buffer may begin in a page
  CanHang     \* whether the engine may stop answering

ASSUME PollAssumption ==
  /\ NoReq \notin Requests
  /\ Capacity \in Nat \ {0}
  /\ Offsets \subseteq Nat
  /\ CanHang \in BOOLEAN

ASSUME ListsAssumption ==
  \A r \in Requests : /\ Lists[r] \in Seq(1..Capacity)
                      /\ Lists[r] # << >>

VARIABLES
  req,             \* state of each request: "queued", "driver" or its outcome
  txn,             \* the request engine->dmaTransaction was initialised with
  split,           \* the parts of it the framework counts as transferred
  isReqPending,    \* engine->isReqPending
  pc,              \* where the queue's callback is
  descBuffer,      \* engine->descBuffer
  firstDesc,       \* sgdma->firstDescLo, in descriptors
  firstDescAdj,    \* sgdma->firstDescAdj
  numDescriptors,  \* engine->numDescriptors
  writeBack,       \* the completed descriptor count of engine->pollWbBuffer
  run,             \* the run bit of the engine's control register
  fetch,           \* the descriptors the engine is to read next
  hung,            \* the engine has stopped answering
  engineStatus,    \* its status register, the busy bit apart
  moved            \* history: what the engine has moved

txnVars    == <<req, txn, split>>
driverVars == <<isReqPending, numDescriptors>>
bufferVars == <<descBuffer, firstDesc, firstDescAdj>>
hwVars     == <<run, fetch, hung, engineStatus>>
vars == <<txnVars, driverVars, pc, bufferVars, writeBack, hwVars, moved>>

Outcomes == {"SUCCESS", "INTERNAL_ERROR", "UNSUCCESSFUL", "FAILED"}
Indices  == 0..(Capacity - 1)
Idle     == [next |-> 0, adj |-> -1]
Zeroed   == [data |-> << >>, nextAdj |-> 0, stop |-> FALSE]
NoCount  == [count |-> 0, err |-> FALSE]

-----------------------------------------------------------------------------
(* Slips of the code *)

\* EngineProcessTransfer does not clear the write-back buffer.
ClearOnlyDescriptors ==
  /\ descBuffer' = [i \in Indices |-> Zeroed]
  /\ UNCHANGED writeBack

\* One descriptor too few is awaited.
ProgramOneShort ==
  /\ pc = "program"
  /\ LET n == Lists[txn][split + 1] IN
       /\ descBuffer' = [i \in Indices |->
            IF i < n THEN Descriptor(<<txn, split>>, n, firstDesc, i) ELSE descBuffer[i]]
       /\ firstDescAdj' = FirstAdj(n, firstDesc)
       /\ numDescriptors' = n - 1
  /\ isReqPending' = TRUE
  /\ pc' = "start"
  /\ UNCHANGED <<txnVars, firstDesc, writeBack, hwVars, moved>>

\* The device offset of a later part does not count the bytes already moved.
ProgramFromStart ==
  /\ pc = "program"
  /\ LET n == Lists[txn][split + 1] IN
       /\ descBuffer' = [i \in Indices |->
            IF i < n THEN Descriptor(<<txn, 0>>, n, firstDesc, i) ELSE descBuffer[i]]
       /\ firstDescAdj' = FirstAdj(n, firstDesc)
       /\ numDescriptors' = n
  /\ isReqPending' = TRUE
  /\ pc' = "start"
  /\ UNCHANGED <<txnVars, firstDesc, writeBack, hwVars, moved>>

\* XDMA_EngineProgramDma relies on its caller to complete a failed request.
ErrExitReturnsFalse ==
  /\ pc = "errExit"
  /\ pc' = "idle"
  /\ UNCHANGED <<txnVars, driverVars, bufferVars, writeBack, hwVars, moved>>

\* The loop goes on after its ten seconds as long as the engine has not answered.
PollUntilAnswer ==
  /\ pc = "poll" /\ ~writeBack.err /\ writeBack.count > 0
  /\ isReqPending' = FALSE
  /\ pc' = "errExit"
  /\ UNCHANGED <<txnVars, numDescriptors, bufferVars, writeBack, hwVars, moved>>

\* The poll loop clears the flag on every way out of it.
PollDoneClearsPending ==
  /\ pc = "poll" /\ ~writeBack.err
  /\ writeBack.count = numDescriptors
  /\ isReqPending' = FALSE
  /\ pc' = "process"
  /\ UNCHANGED <<txnVars, numDescriptors, bufferVars, writeBack, hwVars, moved>>

\* The frame above a failed one still completes the request.
ErrExitThenCompletes ==
  /\ pc = "errExit"
  /\ req' = [req EXCEPT ![txn] = "UNSUCCESSFUL"]
  /\ pc' = IF split > 0 THEN "complete" ELSE "idle"
  /\ UNCHANGED <<txn, split, driverVars, bufferVars, writeBack, hwVars, moved>>

-----------------------------------------------------------------------------

Init ==
  /\ req = [r \in Requests |-> "queued"]
  /\ txn = NoReq /\ split = 0
  /\ isReqPending = FALSE
  /\ pc = "idle"
  /\ descBuffer = [i \in Indices |-> Zeroed]
  /\ firstDesc \in Offsets /\ firstDescAdj = 0
  /\ numDescriptors = 1
  /\ writeBack = NoCount
  /\ run = FALSE /\ fetch = Idle /\ hung = FALSE
  /\ engineStatus = "clear"
  /\ moved = {}

\* WdfDmaTransactionRelease and WdfRequestComplete.
ReleaseAndComplete(r, outcome) ==
  /\ txn' = NoReq /\ split' = 0
  /\ req' = [req EXCEPT ![r] = outcome]

\* The queue is sequential.
Presents(r) ==
  /\ pc = "idle"
  /\ req[r] = "queued"
  /\ \A s \in Requests : req[s] # "driver"

\* EvtIoWriteDma or EvtIoReadDma: the framework calls EvtProgramDma at once.
Dispatch(r) ==
  /\ Presents(r)
  /\ req' = [req EXCEPT ![r] = "driver"]
  /\ txn' = r /\ split' = 0
  /\ pc' = "program"
  /\ UNCHANGED <<driverVars, bufferVars, writeBack, hwVars, moved>>

\* Its ErrExit.
DispatchFails(r) ==
  /\ Presents(r)
  /\ ReleaseAndComplete(r, "FAILED")
  /\ UNCHANGED <<driverVars, pc, bufferVars, writeBack, hwVars, moved>>

\* XDMA_EngineProgramDma up to markReqPending: the descriptors beyond the new
\* chain keep what they held.
Program ==
  /\ pc = "program"
  /\ LET n == Lists[txn][split + 1] IN
       /\ descBuffer' = [i \in Indices |->
            IF i < n THEN Descriptor(<<txn, split>>, n, firstDesc, i) ELSE descBuffer[i]]
       /\ firstDescAdj' = FirstAdj(n, firstDesc)
       /\ numDescriptors' = n
  /\ isReqPending' = TRUE
  /\ pc' = "start"
  /\ UNCHANGED <<txnVars, firstDesc, writeBack, hwVars, moved>>

\* EngineStart: setting the run bit has an effect only when it was clear.
Start ==
  /\ pc = "start"
  /\ run' = TRUE
  /\ fetch' = IF run THEN fetch ELSE [next |-> 0, adj |-> firstDescAdj]
  /\ pc' = "poll"
  /\ UNCHANGED <<txnVars, driverVars, bufferVars, writeBack, hung, engineStatus, moved>>

\* EnginePollTransfer reads the error bit of the count.
PollError ==
  /\ pc = "poll" /\ writeBack.err
  /\ isReqPending' = FALSE
  /\ pc' = "errExit"
  /\ UNCHANGED <<txnVars, numDescriptors, bufferVars, writeBack, hwVars, moved>>

\* Ten seconds are over; the count is not looked at again, even if it is right.
PollTimesOut ==
  /\ pc = "poll" /\ ~writeBack.err
  /\ isReqPending' = FALSE
  /\ pc' = "errExit"
  /\ UNCHANGED <<txnVars, numDescriptors, bufferVars, writeBack, hwVars, moved>>

\* The count is the expected one.  A larger count never is: the error bit is
\* put into it, which the loop then compares and no longer tests.
PollDone ==
  /\ pc = "poll" /\ ~writeBack.err
  /\ writeBack.count = numDescriptors
  /\ pc' = "process"
  /\ UNCHANGED <<txnVars, driverVars, bufferVars, writeBack, hwVars, moved>>

\* EngineProcessTransfer zeroes both buffers.
ClearBuffers ==
  /\ descBuffer' = [i \in Indices |-> Zeroed]
  /\ writeBack' = NoCount

\* EngineProcessTransfer under engineLock.
ProcessTransfer ==
  /\ pc = "process"
  /\ isReqPending /\ txn # NoReq
  /\ pc' = IF fetch = Idle /\ engineStatus \in {"clear", "completed"}
           THEN "completed" ELSE "failed"
  /\ engineStatus' = "clear"
  /\ run' = FALSE /\ fetch' = Idle /\ hung' = FALSE
  /\ ClearBuffers
  /\ isReqPending' = FALSE
  /\ UNCHANGED <<txnVars, numDescriptors, firstDesc, firstDescAdj, moved>>

\* WdfDmaTransactionDmaCompleted: the next part is programmed from within.
DmaCompleted ==
  /\ pc = "completed"
  /\ split' = split + 1
  /\ pc' = IF split + 1 < Len(Lists[txn]) THEN "program" ELSE "complete"
  /\ UNCHANGED <<req, txn, driverVars, bufferVars, writeBack, hwVars, moved>>

\* WdfDmaTransactionDmaCompletedFinal, or the last part: the request is answered.
Complete ==
  /\ pc \in {"complete", "failed"}
  /\ ReleaseAndComplete(txn, IF pc = "complete" THEN "SUCCESS" ELSE "INTERNAL_ERROR")
  /\ pc' = "idle"
  /\ UNCHANGED <<driverVars, bufferVars, writeBack, hwVars, moved>>

\* ErrExit of XDMA_EngineProgramDma.  The framework ignores the FALSE it returns;
\* an outer WdfDmaTransactionDmaCompleted reports an unfinished transaction, so
\* the frames above complete nothing.
ErrExit ==
  /\ pc = "errExit"
  /\ ReleaseAndComplete(txn, "UNSUCCESSFUL")
  /\ pc' = "idle"
  /\ UNCHANGED <<driverVars, bufferVars, writeBack, hwVars, moved>>

-----------------------------------------------------------------------------
(* The hardware *)

Moving == fetch # Idle /\ ~hung

\* An engine that stops on an error reports it in the status register and in the
\* count it writes back.
Fail ==
  /\ fetch' = Idle
  /\ engineStatus' = "error"
  /\ writeBack' = [count |-> fetch.next, err |-> TRUE]

\* One read of adjacent descriptors, of which the engine heeds those up to the
\* first stop bit.
Block  == {i \in Indices : fetch.next <= i /\ i <= fetch.next + fetch.adj}
Stops  == {i \in Block : descBuffer[i].stop}
Heeded == {i \in Block : \A j \in Stops : i <= j}
Last   == Max(Heeded)

\* The engine moves the data they describe.  A zeroed descriptor lacks the magic
\* number; the one with the stop bit has the count written back.
HwFetch ==
  /\ Moving
  /\ moved' = moved \cup {descBuffer[i].data : i \in {j \in Heeded : descBuffer[j] # Zeroed}}
  /\ \/ /\ \E i \in Heeded : descBuffer[i] = Zeroed
        /\ Fail
     \/ /\ \A i \in Heeded : descBuffer[i] # Zeroed
        /\ Stops # {}
        /\ fetch' = Idle
        /\ engineStatus' = "completed"
        /\ writeBack' = [count |-> Last + 1, err |-> FALSE]
     \/ /\ \A i \in Heeded : descBuffer[i] # Zeroed
        /\ Stops = {}
        /\ fetch' = [next |-> Last + 1, adj |-> descBuffer[Last].nextAdj]
        /\ UNCHANGED <<engineStatus, writeBack>>
  /\ UNCHANGED <<txnVars, driverVars, pc, bufferVars, run, hung>>

HwError ==
  /\ Moving
  /\ Fail
  /\ UNCHANGED <<txnVars, driverVars, pc, bufferVars, run, hung, moved>>

HwHang ==
  /\ CanHang
  /\ Moving
  /\ hung' = TRUE
  /\ UNCHANGED <<txnVars, driverVars, pc, bufferVars, writeBack, run, fetch, engineStatus,
                 moved>>

-----------------------------------------------------------------------------

CallbackStep ==
  \/ Program \/ Start \/ PollError \/ PollTimesOut \/ PollDone
  \/ ProcessTransfer \/ DmaCompleted \/ Complete \/ ErrExit

Next ==
  \/ \E r \in Requests : Dispatch(r) \/ DispatchFails(r)
  \/ CallbackStep
  \/ HwFetch \/ HwError \/ HwHang

Spec == Init /\ [][Next]_vars

\* The callback runs on: the time limit ends its loop whatever the engine does.
FairSpec == Spec /\ WF_vars(CallbackStep)

-----------------------------------------------------------------------------
(* Properties *)

Parts == Requests \X Nat
Described == [data : Parts \X Nat, nextAdj : Nat, stop : BOOLEAN]

DriverTypes ==
  /\ req \in [Requests -> {"queued", "driver"} \cup Outcomes]
  /\ txn \in Requests \cup {NoReq}
  /\ split \in Nat
  /\ isReqPending \in BOOLEAN
  /\ pc \in {"idle", "program", "start", "poll", "process", "completed", "complete",
             "failed", "errExit"}
  /\ numDescriptors \in 1..Capacity

EngineTypes ==
  /\ firstDesc \in Offsets
  /\ firstDescAdj \in Nat
  /\ descBuffer \in [Indices -> Described \cup {Zeroed}]
  /\ writeBack \in [count : 0..Capacity, err : BOOLEAN]
  /\ run \in BOOLEAN /\ hung \in BOOLEAN
  /\ fetch \in [next : 0..Capacity, adj : Nat \cup {-1}]
  /\ engineStatus \in {"clear", "completed", "error"}
  /\ moved \subseteq Parts \X Nat

\* Every variable stays within its type.
TypeOK == DriverTypes /\ EngineTypes

\* Some request failed after it was started, so that the engine may still run or
\* the write-back buffer still hold its count.
Failed == \E r \in Requests : req[r] \in {"INTERNAL_ERROR", "UNSUCCESSFUL"}

\* The frame that works on the request, which alone may answer it.
Busy == pc # "idle"

\* The queue's callback never returns with its request unanswered, nor answers
\* one and goes on: the driver owns a request exactly while it runs.
AnsweredBeforeReturn ==
  /\ \A r \in Requests : req[r] = "driver" => Busy /\ txn = r
  /\ Busy => txn \in Requests /\ req[txn] = "driver"

\* isReqPending is up only from markReqPending to the end of the poll loop, so
\* EngineProcessTransfer always finds the request it was called for.
PendingWhilePolled == isReqPending <=> pc \in {"start", "poll", "process"}

\* Each part begins with a clean slate, until a request has failed: the engine
\* stopped, nothing written back, and no descriptor of an earlier part left.
CleanStart ==
  pc \in {"idle", "program"} /\ ~Failed =>
    /\ ~run /\ fetch = Idle /\ ~hung
    /\ engineStatus = "clear" /\ writeBack = NoCount
    /\ \A i \in Indices : descBuffer[i] = Zeroed

\* Every read of descriptors keeps to the three limits OptimizeDescriptors names
\* ("There are several factors which limit the amount of descriptors which can
\* be fetched together"), never runs past the chain, and is no shorter than they
\* and an earlier page break demand.
FetchesWithinLimits ==
  fetch # Idle /\ ~Failed =>
    LET to == fetch.next + fetch.adj
    IN /\ WithinLimits(numDescriptors, firstDesc, fetch.next, to)
       /\ AsLongAsAllowed(numDescriptors, firstDesc, fetch.next, to)

\* What the engine moved, part by part: all the descriptors of the part.
AllParts == UNION {{r} \X (0..(Len(Lists[r]) - 1)) : r \in Requests}
WholeParts ==
  {p \in AllParts : \A k \in 0..(Lists[p[1]][p[2] + 1] - 1) : <<p, k>> \in moved}

\* Until a request fails, the engine in poll mode implements the same service as
\* in interrupt mode: parts moved in order while the driver owns the request,
\* and success only for a request moved whole.
Service == INSTANCE TransferService WITH
  moved <- WholeParts, Splits <- [r \in Requests |-> Len(Lists[r])]
ServiceUntilFailure ==
  Service!Init /\ [][Failed \/ Service!Next]_<<req, WholeParts>>

\* A completed request is never completed again, although ErrExit completes it
\* inside the callback of a framework call whose caller goes on.
CompletedOnce ==
  [][\A r \in Requests : req[r] \in Outcomes => req'[r] = req[r]]_vars

\* The callback is never stuck, wherever it is: EngineProcessTransfer finds its
\* request pending, and its loop can end whatever is written back.
NeverStuck == Busy => ENABLED <<CallbackStep>>_vars

\* Every request handed to the driver is answered, whatever the engine does:
\* the loop has its "10 seconds timeout" (dma_engine.c:726).
AlwaysAnswered == Service!Answered
=============================================================================

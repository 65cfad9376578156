--------------------------- MODULE MmEngineProofs ---------------------------
(***************************************************************************)
(* What holds of MmEngine for every set of requests and CPUs, every way of *)
(* splitting the requests, whether or not the engine hangs, the wait is    *)
(* patient or more handles are opened; and, at the end, what holds where   *)
(* the wait is patient and one handle is open (Calm).                      *)
(***************************************************************************)
EXTENDS MmEngine, Induction

\* Initially every variable has its type.
LEMMA TypeInit == Init => TypeOK
<1> SUFFICES ASSUME Init PROVE TypeOK
  OBVIOUS
<1> USE DEF Init
<1>1. RequestTypes
  BY DEF RequestTypes, NoJob, Parts, Outcomes
<1>2. DpcTypes
  BY DEF DpcTypes
<1>3. ThreadTypes
  BY DEF ThreadTypes
<1>4. active \in Parts
  BY DEF NoJob, Parts
<1>5. opens \in 0..MaxOpens
  BY MmAssumption
<1>6. HardwareTypes
  BY <1>4, <1>5 DEF HardwareTypes
<1>7. QED
  BY <1>1, <1>2, <1>3, <1>6 DEF TypeOK

\* Every step keeps every variable within its type.
LEMMA TypeStep == TypeOK /\ [Next]_vars => TypeOK'
<1> SUFFICES ASSUME TypeOK, [Next]_vars PROVE TypeOK'
  OBVIOUS
<1> USE MmAssumption DEF TypeOK
<1> USE DEF Outcomes, Parts, NoJob, txnVars, signalVars, dpcVars, threadVars, hwVars,
            irqVars
<1>1. ASSUME NEW r \in Requests, Dispatch(r) PROVE TypeOK'
  BY <1>1 DEF RequestTypes, DpcTypes, ThreadTypes, HardwareTypes,
      Dispatch, Presents
<1>2. ASSUME NEW r \in Requests, DispatchFails(r) PROVE TypeOK'
  BY <1>2 DEF RequestTypes, DpcTypes, ThreadTypes, HardwareTypes,
      DispatchFails, Presents, ReleaseAndComplete
<1>3. CASE QueueProgram
  BY <1>3 DEF RequestTypes, DpcTypes, ThreadTypes, HardwareTypes,
      QueueProgram, MarkReqPending
<1>4. CASE QueueStart
  BY <1>4 DEF RequestTypes, DpcTypes, ThreadTypes, HardwareTypes,
      QueueStart, EngineStart
<1>5. CASE WakeThread
  BY <1>5 DEF RequestTypes, DpcTypes, ThreadTypes, HardwareTypes,
      WakeThread
<1>6. CASE Isr
  <2>1. RequestTypes'
    BY <1>6 DEF RequestTypes, Isr
  <2>2. DpcTypes'
    BY <1>6 DEF DpcTypes, Isr
  <2>3. ThreadTypes'
    BY <1>6 DEF ThreadTypes, Isr
  <2>4. HardwareTypes'
    BY <1>6 DEF HardwareTypes, Isr
  <2>5. QED
    BY <2>1, <2>2, <2>3, <2>4
<1>7. ASSUME NEW c \in Cpus, DpcBegin(c) PROVE TypeOK'
  <2>1. RequestTypes'
    BY <1>7 DEF RequestTypes, DpcBegin
  <2>2. DpcTypes'
    BY <1>7 DEF DpcTypes, DpcBegin
  <2>3. ThreadTypes'
    BY <1>7 DEF ThreadTypes, DpcBegin
  <2>4. HardwareTypes'
    BY <1>7 DEF HardwareTypes, DpcBegin
  <2>5. QED
    BY <2>1, <2>2, <2>3, <2>4
<1>8. ASSUME NEW c \in Cpus, SpuriousInterrupt(c) PROVE TypeOK'
  BY <1>8 DEF RequestTypes, DpcTypes, ThreadTypes, HardwareTypes,
      SpuriousInterrupt
<1>9. ASSUME NEW c \in Cpus, ProcessTransfer(c) PROVE TypeOK'
  BY <1>9 DEF RequestTypes, DpcTypes, ThreadTypes, HardwareTypes,
      ProcessTransfer, ReadStatusAndStop, EngineEnableInterrupt
<1>10. ASSUME NEW c \in Cpus, DmaCompleted(c) PROVE TypeOK'
  BY <1>10 DEF RequestTypes, DpcTypes, ThreadTypes, HardwareTypes,
      DmaCompleted
<1>11. ASSUME NEW c \in Cpus, DmaCompletedFinal(c) PROVE TypeOK'
  BY <1>11 DEF RequestTypes, DpcTypes, ThreadTypes, HardwareTypes,
      DmaCompletedFinal
<1>12. ASSUME NEW c \in Cpus, DpcProgram(c) PROVE TypeOK'
  BY <1>12 DEF RequestTypes, DpcTypes, ThreadTypes, HardwareTypes,
      DpcProgram, MarkReqPending
<1>13. ASSUME NEW c \in Cpus, DpcStart(c) PROVE TypeOK'
  BY <1>13 DEF RequestTypes, DpcTypes, ThreadTypes, HardwareTypes,
      DpcStart, EngineStart
<1>14. ASSUME NEW c \in Cpus, SignalThread(c) PROVE TypeOK'
  BY <1>14 DEF RequestTypes, DpcTypes, ThreadTypes, HardwareTypes,
      SignalThread
<1>15. ASSUME NEW c \in Cpus, CompleteRequest(c) PROVE TypeOK'
  <2>1. RequestTypes'
    BY <1>15 DEF RequestTypes, DpcTypes, CompleteRequest, ReleaseAndComplete
  <2>2. DpcTypes'
    BY <1>15 DEF DpcTypes, CompleteRequest, ReleaseAndComplete
  <2>3. ThreadTypes'
    BY <1>15 DEF ThreadTypes, CompleteRequest, ReleaseAndComplete
  <2>4. HardwareTypes'
    BY <1>15 DEF HardwareTypes, CompleteRequest, ReleaseAndComplete
  <2>5. QED
    BY <2>1, <2>2, <2>3, <2>4
<1>16. CASE ThreadWakes
  BY <1>16 DEF RequestTypes, DpcTypes, ThreadTypes, HardwareTypes,
      ThreadWakes
<1>17. CASE ThreadChecksPending
  BY <1>17 DEF RequestTypes, DpcTypes, ThreadTypes, HardwareTypes,
      ThreadChecksPending
<1>18. CASE WaitSatisfied
  BY <1>18 DEF RequestTypes, DpcTypes, ThreadTypes, HardwareTypes,
      WaitSatisfied
<1>19. CASE WaitTimesOut
  BY <1>19 DEF RequestTypes, DpcTypes, ThreadTypes, HardwareTypes,
      WaitTimesOut
<1>20. CASE AlreadyProcessed
  BY <1>20 DEF RequestTypes, DpcTypes, ThreadTypes, HardwareTypes,
      AlreadyProcessed
<1>21. CASE ReallyTimedOut
  BY <1>21 DEF RequestTypes, DpcTypes, ThreadTypes, HardwareTypes,
      ReallyTimedOut, ReadStatusAndStop
<1>22. CASE AbortRequest
  <2>1. RequestTypes'
    BY <1>22 DEF RequestTypes, AbortRequest, ReleaseAndComplete
  <2>2. DpcTypes'
    BY <1>22 DEF DpcTypes, AbortRequest, ReleaseAndComplete
  <2>3. ThreadTypes'
    BY <1>22 DEF ThreadTypes, AbortRequest, ReleaseAndComplete
  <2>4. HardwareTypes'
    BY <1>22 DEF HardwareTypes, AbortRequest, ReleaseAndComplete
  <2>5. QED
    BY <2>1, <2>2, <2>3, <2>4
<1>23. CASE ClearSignal
  <2>1. RequestTypes'
    BY <1>23 DEF RequestTypes, ClearSignal
  <2>2. DpcTypes'
    BY <1>23 DEF DpcTypes, ClearSignal
  <2>3. ThreadTypes'
    BY <1>23 DEF ThreadTypes, ClearSignal
  <2>4. HardwareTypes'
    BY <1>23 DEF HardwareTypes, ClearSignal
  <2>5. QED
    BY <2>1, <2>2, <2>3, <2>4
<1>24. CASE HwFinish
  <2>1. RequestTypes'
    BY <1>24 DEF RequestTypes, HwFinish, RaiseStatus
  <2>2. DpcTypes'
    BY <1>24 DEF DpcTypes, HwFinish, RaiseStatus
  <2>3. ThreadTypes'
    BY <1>24 DEF ThreadTypes, HwFinish, RaiseStatus
  <2>4. HardwareTypes'
    BY <1>24 DEF HardwareTypes, HwFinish, RaiseStatus
  <2>5. QED
    BY <2>1, <2>2, <2>3, <2>4
<1>25. CASE HwError
  <2>1. RequestTypes'
    BY <1>25 DEF RequestTypes, HwError, RaiseStatus
  <2>2. DpcTypes'
    BY <1>25 DEF DpcTypes, HwError, RaiseStatus
  <2>3. ThreadTypes'
    BY <1>25 DEF ThreadTypes, HwError, RaiseStatus
  <2>4. HardwareTypes'
    BY <1>25 DEF HardwareTypes, HwError, RaiseStatus
  <2>5. QED
    BY <2>1, <2>2, <2>3, <2>4
<1>26. CASE HwHang
  <2>1. RequestTypes'
    BY <1>26 DEF RequestTypes, HwHang
  <2>2. DpcTypes'
    BY <1>26 DEF DpcTypes, HwHang
  <2>3. ThreadTypes'
    BY <1>26 DEF ThreadTypes, HwHang
  <2>4. HardwareTypes'
    BY <1>26 DEF HardwareTypes, HwHang
  <2>5. QED
    BY <2>1, <2>2, <2>3, <2>4
<1>27. CASE FileCreate
  <2>1. RequestTypes'
    BY <1>27 DEF RequestTypes, FileCreate, EngineEnableInterrupt
  <2>2. DpcTypes'
    BY <1>27 DEF DpcTypes, FileCreate, EngineEnableInterrupt
  <2>3. ThreadTypes'
    BY <1>27 DEF ThreadTypes, FileCreate, EngineEnableInterrupt
  <2>4. HardwareTypes'
    BY <1>27 DEF HardwareTypes, FileCreate, EngineEnableInterrupt
  <2>5. QED
    BY <2>1, <2>2, <2>3, <2>4
<1>28. CASE DeviceClose
  <2>1. RequestTypes'
    BY <1>28 DEF RequestTypes, DeviceClose
  <2>2. DpcTypes'
    BY <1>28 DEF DpcTypes, DeviceClose
  <2>3. ThreadTypes'
    BY <1>28 DEF ThreadTypes, DeviceClose
  <2>4. HardwareTypes'
    BY <1>28 DEF HardwareTypes, DeviceClose
  <2>5. QED
    BY <2>1, <2>2, <2>3, <2>4
<1>29. CASE Closed \/ UNCHANGED vars
  BY <1>29 DEF RequestTypes, DpcTypes, ThreadTypes, HardwareTypes, Closed, vars
<1>30. QED
  BY <1>1, <1>2, <1>3, <1>4, <1>5, <1>6, <1>7, <1>8, <1>9, <1>10, <1>11, <1>12, <1>13,
     <1>14, <1>15, <1>16, <1>17, <1>18, <1>19, <1>20, <1>21, <1>22, <1>23, <1>24, <1>25,
     <1>26, <1>27, <1>28, <1>29
  DEF Next, QueueStep, QueueGoesOn, DpcIsRun, DpcGoesOn, DpcStep, ThreadStep, HwStep

\* Type correctness of the engine's state, whatever the actors' interleaving.
THEOREM TypeCorrect == Spec => []TypeOK
<1>1. TypeOK /\ [Next]_vars => TypeOK'
  BY TypeStep
<1>2. QED
  BY TypeInit, <1>1, PTL DEF Spec

\* Initially nobody holds a request and the driver owns none.
LEMMA HolderInit == Init => IInv
<1> SUFFICES ASSUME Init PROVE IInv
  OBVIOUS
<1> USE DEF Init, QueueHolds, DpcHolds, ThreadHolds
<1>1. TypeOK
  BY TypeInit
<1>2. ProgramsOnlyWhenFree /\ OneFinisher
  BY DEF ProgramsOnlyWhenFree, OneFinisher
<1>3. HolderIsCurrent /\ NeverDropped
  BY MmAssumption DEF HolderIsCurrent, NeverDropped
<1>4. QED
  BY <1>1, <1>2, <1>3 DEF IInv

\* Every step passes the right to finish the current request to one actor.
LEMMA HolderStep == IInv /\ [Next]_vars => IInv'
<1> SUFFICES ASSUME IInv, [Next]_vars PROVE IInv'
  OBVIOUS
<1> TypeOK'
  BY TypeStep DEF IInv
<1> USE MmAssumption DEF IInv, TypeOK, RequestTypes, DpcTypes, QueueHolds, DpcHolds, ThreadHolds,
            Outcomes, txnVars, dpcVars, threadVars
<1> USE DEF ProgramsOnlyWhenFree, OneFinisher, HolderIsCurrent, NeverDropped
<1>1. ASSUME NEW r \in Requests, Dispatch(r) PROVE IInv'
  BY <1>1 DEF Dispatch, Presents
<1>2. ASSUME NEW r \in Requests, DispatchFails(r) PROVE IInv'
  BY <1>2 DEF DispatchFails, Presents, ReleaseAndComplete
<1>3. CASE QueueProgram
  BY <1>3 DEF QueueProgram, MarkReqPending
<1>4. CASE QueueStart
  BY <1>4 DEF QueueStart, EngineStart
<1>5. CASE WakeThread
  BY <1>5 DEF WakeThread
<1>6. CASE Isr
  BY <1>6 DEF Isr
<1>7. ASSUME NEW c \in Cpus, DpcBegin(c) PROVE IInv'
  BY <1>7 DEF DpcBegin
<1>8. ASSUME NEW c \in Cpus, SpuriousInterrupt(c) PROVE IInv'
  BY <1>8 DEF SpuriousInterrupt
<1>9. ASSUME NEW c \in Cpus, ProcessTransfer(c) PROVE IInv'
  BY <1>9 DEF ProcessTransfer, ReadStatusAndStop, EngineEnableInterrupt
<1>10. ASSUME NEW c \in Cpus, DmaCompleted(c) PROVE IInv'
  BY <1>10 DEF DmaCompleted
<1>11. ASSUME NEW c \in Cpus, DmaCompletedFinal(c) PROVE IInv'
  BY <1>11 DEF DmaCompletedFinal
<1>12. ASSUME NEW c \in Cpus, DpcProgram(c) PROVE IInv'
  BY <1>12 DEF DpcProgram, MarkReqPending
<1>13. ASSUME NEW c \in Cpus, DpcStart(c) PROVE IInv'
  BY <1>13 DEF DpcStart, EngineStart
<1>14. ASSUME NEW c \in Cpus, SignalThread(c) PROVE IInv'
  BY <1>14 DEF SignalThread
<1>15. ASSUME NEW c \in Cpus, CompleteRequest(c) PROVE IInv'
  BY <1>15 DEF CompleteRequest, ReleaseAndComplete
<1>16. CASE ThreadWakes
  BY <1>16 DEF ThreadWakes
<1>17. CASE ThreadChecksPending
  BY <1>17 DEF ThreadChecksPending
<1>18. CASE WaitSatisfied
  BY <1>18 DEF WaitSatisfied
<1>19. CASE WaitTimesOut
  BY <1>19 DEF WaitTimesOut
<1>20. CASE AlreadyProcessed
  BY <1>20 DEF AlreadyProcessed
<1>21. CASE ReallyTimedOut
  BY <1>21 DEF ReallyTimedOut, ReadStatusAndStop
<1>22. CASE AbortRequest
  BY <1>22 DEF AbortRequest, ReleaseAndComplete
<1>23. CASE ClearSignal
  BY <1>23 DEF ClearSignal
<1>24. CASE HwFinish
  BY <1>24 DEF HwFinish, RaiseStatus
<1>25. CASE HwError
  BY <1>25 DEF HwError, RaiseStatus
<1>26. CASE HwHang
  BY <1>26 DEF HwHang
<1>27. CASE FileCreate
  BY <1>27 DEF FileCreate, EngineEnableInterrupt
<1>28. CASE DeviceClose
  BY <1>28 DEF DeviceClose
<1>29. CASE Closed \/ UNCHANGED vars
  BY <1>29 DEF Closed, vars
<1>30. QED
  BY <1>1, <1>2, <1>3, <1>4, <1>5, <1>6, <1>7, <1>8, <1>9, <1>10, <1>11, <1>12, <1>13, <1>14,
     <1>15, <1>16, <1>17, <1>18, <1>19, <1>20, <1>21, <1>22, <1>23, <1>24, <1>25, <1>26, <1>27,
     <1>28, <1>29
  DEF Next, QueueStep, QueueGoesOn, DpcIsRun, DpcGoesOn, DpcStep, ThreadStep, HwStep

\* Only the actor that holds a request completes it.
LEMMA CompletionStep ==
  IInv /\ [Next]_vars => \A r \in Requests : req[r] \in Outcomes => req'[r] = req[r]
<1> SUFFICES ASSUME IInv, [Next]_vars, NEW r \in Requests, req[r] \in Outcomes
             PROVE  req'[r] = req[r]
  OBVIOUS
<1> USE DEF Outcomes, txnVars
<1>1. req[r] # "driver" /\ req[r] # "queued"
  OBVIOUS
<1>2. req \in [Requests -> {"queued", "driver"} \cup Outcomes]
  BY DEF IInv, TypeOK, RequestTypes
<1>3. ASSUME NEW s \in Requests, Dispatch(s) \/ DispatchFails(s) PROVE req'[r] = req[r]
  BY <1>1, <1>2, <1>3 DEF Dispatch, DispatchFails, Presents, ReleaseAndComplete
<1>4. ASSUME NEW c \in Cpus, CompleteRequest(c) PROVE req'[r] = req[r]
  <2>1. req[request[c]] = "driver"
    BY <1>4 DEF IInv, HolderIsCurrent, DpcHolds, CompleteRequest, TypeOK, RequestTypes
  <2>2. QED
    BY <1>1, <1>2, <1>4, <2>1 DEF CompleteRequest, ReleaseAndComplete
<1>5. CASE AbortRequest
  <2>1. txn \in Requests /\ req[txn] = "driver"
    BY <1>5 DEF IInv, HolderIsCurrent, ThreadHolds, AbortRequest, TypeOK, RequestTypes
  <2>2. QED
    BY <1>1, <1>2, <1>5, <2>1 DEF AbortRequest, ReleaseAndComplete
<1>6. ASSUME NEW c \in Cpus, DpcBegin(c) \/ SpuriousInterrupt(c) \/ ProcessTransfer(c)
             \/ DmaCompleted(c) \/ DmaCompletedFinal(c) \/ DpcProgram(c) \/ DpcStart(c)
             \/ SignalThread(c)
      PROVE  req'[r] = req[r]
  BY <1>6 DEF DpcBegin, SpuriousInterrupt, ProcessTransfer, DmaCompleted,
      DmaCompletedFinal, DpcProgram, DpcStart, SignalThread
<1>7. CASE QueueProgram \/ QueueStart \/ WakeThread \/ Isr \/ HwStep \/ HwHang
           \/ FileCreate \/ DeviceClose
  BY <1>7 DEF QueueProgram, QueueStart, WakeThread, Isr, HwStep, HwFinish, HwError,
      HwHang, FileCreate, DeviceClose
<1>8. CASE ThreadWakes \/ ThreadChecksPending \/ WaitSatisfied \/ WaitTimesOut
           \/ AlreadyProcessed \/ ReallyTimedOut \/ ClearSignal
  BY <1>8 DEF ThreadWakes, ThreadChecksPending, WaitSatisfied, WaitTimesOut,
      AlreadyProcessed, ReallyTimedOut, ClearSignal
<1>9. CASE Closed \/ UNCHANGED vars
  BY <1>9 DEF Closed, vars
<1>10. QED
  BY <1>3, <1>4, <1>5, <1>6, <1>7, <1>8, <1>9 DEF Next, QueueStep, QueueGoesOn, DpcIsRun, DpcGoesOn, DpcStep, ThreadStep

\* The right to finish a request passes from actor to actor and is never shared.
THEOREM HolderInvariant == Spec => []IInv
<1>1. IInv /\ [Next]_vars => IInv'
  BY HolderStep
<1>2. QED
  BY HolderInit, <1>1, PTL DEF Spec

\* The interrupt's DPC, the queue and the completion thread never finish the
\* same request together.
THEOREM AlwaysOneFinisher == Spec => []OneFinisher
<1>1. IInv => OneFinisher
  BY DEF IInv
<1>2. QED
  BY HolderInvariant, <1>1, PTL

\* XDMA_EngineProgramDma is never called while a request is pending: the
\* assertion the source meant to state.
THEOREM AlwaysFreeToProgram == Spec => []ProgramsOnlyWhenFree
<1>1. IInv => ProgramsOnlyWhenFree
  BY DEF IInv
<1>2. QED
  BY HolderInvariant, <1>1, PTL

\* A request handed to the driver stays pending or in the hands of an actor
\* until it is completed.
THEOREM RequestsNeverDropped == Spec => []NeverDropped
<1>1. IInv => NeverDropped
  BY DEF IInv
<1>2. QED
  BY HolderInvariant, <1>1, PTL

\* No request is completed twice, whatever the interleaving of time-outs,
\* interrupts, splits and handles being opened.
THEOREM NeverCompletedTwice == Spec => CompletedOnce
<1>1. IInv /\ [Next]_vars =>
        [\A r \in Requests : req[r] \in Outcomes => req'[r] = req[r]]_vars
  BY CompletionStep
<1>2. QED
  BY HolderInvariant, <1>1, PTL DEF Spec, CompletedOnce

-----------------------------------------------------------------------------
(* What clients may rely on, where the wait outlasts the hardware *)

\* The case of MmPatient.cfg: the wait expires on a hung engine only, one handle is
\* open, and every error of the engine is one that EngineProcessTransfer sees.
Calm ==
  /\ Patient /\ MaxOpens = 0
  /\ HwErrors \subseteq ExpectedZero

Processing(c) == dpc[c] = "process"
Starting(c)   == dpc[c] = "start"

\* One interrupt is on its way for a status that is set, from the message to the
\* section under engineLock, and the interrupt is disabled from the ISR on.
Interrupting ==
  /\ msi => intEnabled /\ ~dpcQueued /\ \A c \in Cpus : ~Processing(c)
  /\ dpcQueued => ~intEnabled /\ \A c \in Cpus : ~Processing(c)
  /\ \A c \in Cpus : Processing(c) => ~intEnabled
  /\ \A c, d \in Cpus : Processing(c) /\ Processing(d) => c = d
  /\ ~intEnabled => terminate \/ dpcQueued \/ \E c \in Cpus : Processing(c)
  /\ msi \/ dpcQueued \/ (\E c \in Cpus : Processing(c)) => engineStatus # "clear"

\* The engine runs for the part that is pending; who is to start it finds it
\* stopped.
Running ==
  /\ run => isReqPending
  /\ isReqPending => descBuffer = <<txn, split>>
  /\ active # NoJob => active = <<txn, split>> /\ engineStatus = "clear" /\ run
  /\ engineStatus # "clear" => run /\ engineStatus # "magic"
  /\ hung => active # NoJob
  /\ queue = "start" => isReqPending /\ ~run /\ \A c \in Cpus : ~Starting(c)
  /\ \A c \in Cpus : Starting(c) => isReqPending /\ ~run
  /\ \A c, d \in Cpus : Starting(c) /\ Starting(d) => c = d

\* While the thread waits unsignalled, the request it waits for is the current one.
Watching ==
  /\ thread = "wait" /\ ~completionWaitSignal =>
       watch = txn /\ txn # NoReq /\ \A c \in Cpus : dpc[c] # "complete"
  /\ thread = "timedOut" => hung /\ watch = txn
  /\ thread = "abort" => watch = txn

Ending(c) == dpc[c] \in {"signal", "complete"}

\* The parts moved are those the framework has counted, and the one that the
\* engine or a DPC has just found completed.
Moving ==
  /\ txn # NoReq => \A j \in Nat :
       <<txn, j>> \in moved <=>
         j < split \/ (j = split /\ (engineStatus = "completed" \/ \E c \in Cpus : dpc[c] = "ok"))
  /\ txn # NoReq => split < Splits[txn] \/ \E c \in Cpus : Ending(c)
  /\ \A c \in Cpus : Ending(c) /\ status[c] = "SUCCESS" => split = Splits[txn]
  /\ \A r \in Requests : req[r] = "queued" => \A j \in Nat : <<r, j>> \notin moved
  /\ SuccessMeansMoved

CalmInv == Interrupting /\ Running /\ Watching /\ Moving

\* Whoever starts the engine finds it idle, and starts the pending part.
LEMMA StartsPart ==
  ASSUME IInv, Running, EngineStart, queue = "start" \/ \E c \in Cpus : Starting(c)
  PROVE  /\ isReqPending /\ ~run /\ active = NoJob /\ engineStatus = "clear"
         /\ run' /\ active' = <<txn, split>> /\ UNCHANGED <<engineStatus, msi, hung>>
<1>1. isReqPending /\ ~run /\ descBuffer = <<txn, split>> /\ txn # NoReq
  BY DEF Running, IInv, HolderIsCurrent
<1>2. active = NoJob /\ engineStatus = "clear"
  BY <1>1 DEF Running
<1>3. descBuffer # NoJob
  BY <1>1 DEF NoJob
<1>4. QED
  BY <1>1, <1>2, <1>3 DEF EngineStart

\* A DPC finds the status it was queued for, and its request pending.
LEMMA FindsStatus ==
  ASSUME IInv, Interrupting, Running, NEW c \in Cpus, Processing(c)
  PROVE  /\ engineStatus # "clear" /\ active = NoJob /\ ~hung /\ run /\ isReqPending
         /\ txn # NoReq /\ queue # "start" /\ \A d \in Cpus : ~Starting(d)
<1>1. engineStatus # "clear"
  BY DEF Interrupting
<1>2. QED
  BY <1>1 DEF Running, IInv, HolderIsCurrent

\* The wait expires on a hung engine: no status is set and nobody starts it.
LEMMA HungIsQuiet ==
  ASSUME Running, Watching, Interrupting, thread = "timedOut"
  PROVE  /\ hung /\ run /\ isReqPending /\ engineStatus = "clear"
         /\ queue # "start" /\ \A c \in Cpus : ~Starting(c) /\ ~Processing(c)
<1>1. hung /\ active # NoJob /\ engineStatus = "clear" /\ run
  BY DEF Running, Watching
<1>2. QED
  BY <1>1 DEF Running, Interrupting

LEMMA InterruptingStep ==
  ASSUME Calm, IInv, Interrupting, Running, Watching, [Next]_vars
  PROVE  Interrupting'
<1>t. dpc \in [Cpus -> {"idle", "process", "ok", "error", "program", "start", "signal",
                        "complete"}]
  BY DEF IInv, TypeOK, DpcTypes
<1>1. ASSUME NEW r \in Requests, Dispatch(r) \/ DispatchFails(r) PROVE Interrupting'
  BY <1>1 DEF Interrupting, Processing, Dispatch, DispatchFails, signalVars, dpcVars, hwVars, irqVars
<1>2. CASE QueueProgram \/ WakeThread
  BY <1>2 DEF Interrupting, Processing, QueueProgram, WakeThread, signalVars, dpcVars, hwVars, irqVars
<1>3. CASE QueueStart
  <2>1. UNCHANGED <<engineStatus, msi, intEnabled, dpcQueued, dpc, terminate>>
    BY <1>3, StartsPart DEF QueueStart, signalVars, dpcVars
  <2>2. QED
    BY <2>1 DEF Interrupting, Processing
<1>4. CASE Isr
  <2>1. \A c \in Cpus : ~Processing(c)' /\ ~Processing(c)
    BY <1>4 DEF Interrupting, Processing, Isr, dpcVars
  <2>2. QED
    BY <1>4, <2>1 DEF Interrupting, Isr, signalVars, hwVars
<1>5. ASSUME NEW c \in Cpus, DpcBegin(c) PROVE Interrupting'
  <2>1. /\ ~intEnabled /\ engineStatus # "clear" /\ ~msi
        /\ \A d \in Cpus : ~Processing(d)
    BY <1>5 DEF DpcBegin, Interrupting
  <2>2. Processing(c)' /\ \A d \in Cpus : Processing(d)' => d = c
    BY <1>5, <1>t, <2>1 DEF DpcBegin, Processing
  <2>3. QED
    BY <1>5, <2>1, <2>2 DEF DpcBegin, Interrupting, hwVars
<1>6. ASSUME NEW c \in Cpus, SpuriousInterrupt(c) PROVE Interrupting'
  BY <1>6, FindsStatus DEF SpuriousInterrupt, Processing
<1>7. ASSUME NEW c \in Cpus, ProcessTransfer(c) PROVE Interrupting'
  <2>1. ~msi /\ ~dpcQueued /\ \A d \in Cpus : Processing(d) => d = c
    BY <1>7 DEF ProcessTransfer, Interrupting, Processing
  <2>2. \A d \in Cpus : ~Processing(d)'
    BY <1>7, <1>t, <2>1 DEF ProcessTransfer, Processing
  <2>3. QED
    BY <1>7, <2>1, <2>2 DEF ProcessTransfer, EngineEnableInterrupt, Interrupting
<1>8. ASSUME NEW c \in Cpus, \/ DmaCompleted(c) \/ DmaCompletedFinal(c) \/ DpcProgram(c)
                             \/ DpcStart(c) \/ SignalThread(c) \/ CompleteRequest(c)
      PROVE  Interrupting'
  <2>1. \A d \in Cpus : Processing(d)' <=> Processing(d)
    BY <1>8, <1>t DEF Processing, DmaCompleted, DmaCompletedFinal, DpcProgram, DpcStart,
       SignalThread, CompleteRequest
  <2>2. UNCHANGED <<engineStatus, msi, intEnabled, dpcQueued, terminate>>
    <3>1. CASE DpcStart(c)
      BY <3>1, StartsPart DEF DpcStart, Starting, signalVars
    <3>2. QED
      BY <1>8, <3>1 DEF DmaCompleted, DmaCompletedFinal, DpcProgram, SignalThread, CompleteRequest,
         signalVars, hwVars, irqVars
  <2>3. QED
    BY <2>1, <2>2 DEF Interrupting
<1>9. CASE ReallyTimedOut
  <2>1. /\ UNCHANGED <<msi, intEnabled, dpcQueued, dpc, terminate>>
        /\ engineStatus = "clear"
    BY <1>9, HungIsQuiet DEF ReallyTimedOut, signalVars, dpcVars, irqVars
  <2>2. QED
    BY <2>1 DEF Interrupting, Processing
<1>10. CASE \/ ThreadWakes \/ ThreadChecksPending \/ WaitSatisfied \/ WaitTimesOut
            \/ AlreadyProcessed \/ AbortRequest \/ ClearSignal \/ HwHang
  BY <1>10 DEF Interrupting, Processing, ThreadWakes, ThreadChecksPending, WaitSatisfied,
     WaitTimesOut, AlreadyProcessed, AbortRequest, ClearSignal, HwHang, signalVars, dpcVars,
     hwVars, irqVars
<1>11. CASE HwFinish \/ HwError
  <2>1. /\ engineStatus = "clear" /\ ~msi /\ ~dpcQueued /\ \A c \in Cpus : ~Processing(c)
        /\ UNCHANGED <<intEnabled, dpcQueued, dpc, terminate>>
    BY <1>11 DEF HwFinish, HwError, Running, Interrupting, signalVars, dpcVars
  <2>2. engineStatus' # "clear" /\ msi' = intEnabled
    <3>1. "clear" \notin HwErrors
      BY DEF Calm, ExpectedZero
    <3>2. QED
      BY <1>11, <2>1, <3>1 DEF HwFinish, HwError, RaiseStatus, Interrupting, IInv, TypeOK, HardwareTypes
  <2>3. QED
    BY <2>1, <2>2 DEF Interrupting, Processing
<1>12. CASE FileCreate
  BY <1>12, MmAssumption DEF FileCreate, Calm, IInv, TypeOK, HardwareTypes
<1>13. CASE DeviceClose
  BY <1>13 DEF DeviceClose, Interrupting, Processing, dpcVars, hwVars
<1>14. CASE Closed \/ UNCHANGED vars
  BY <1>14 DEF Closed, vars, Interrupting, Processing, signalVars, dpcVars, hwVars, irqVars
<1>15. QED
  BY <1>1, <1>2, <1>3, <1>4, <1>5, <1>6, <1>7, <1>8, <1>9, <1>10, <1>11, <1>12, <1>13, <1>14
  DEF Next, QueueStep, QueueGoesOn, DpcIsRun, DpcGoesOn, DpcStep, ThreadStep, HwStep

LEMMA RunningStep ==
  ASSUME Calm, IInv, Interrupting, Running, Watching, [Next]_vars
  PROVE  Running'
<1>t. dpc \in [Cpus -> {"idle", "process", "ok", "error", "program", "start", "signal",
                        "complete"}]
  BY DEF IInv, TypeOK, DpcTypes
<1>1. ASSUME NEW r \in Requests, Dispatch(r) \/ DispatchFails(r) PROVE Running'
  <2>1. txn = NoReq
    BY <1>1 DEF Dispatch, DispatchFails, Presents, IInv, HolderIsCurrent, TypeOK, RequestTypes
  <2>2. ~isReqPending /\ ~run /\ active = NoJob
    BY <2>1 DEF IInv, HolderIsCurrent, Running
  <2>3. /\ UNCHANGED <<isReqPending, run, active, hung, engineStatus, dpc>>
        /\ queue' # "start"
    BY <1>1 DEF Dispatch, DispatchFails, Presents, dpcVars, hwVars
  <2>4. QED
    BY <2>2, <2>3 DEF Running, Starting
<1>2. CASE QueueProgram
  <2>1. ~isReqPending /\ ~run /\ \A c \in Cpus : ~Starting(c)
    BY <1>2 DEF QueueProgram, QueueHolds, IInv, ProgramsOnlyWhenFree, Running
  <2>2. QED
    BY <1>2, <2>1 DEF QueueProgram, MarkReqPending, Running, Starting, txnVars, dpcVars, hwVars
<1>3. CASE QueueStart
  <2>1. /\ isReqPending /\ engineStatus = "clear" /\ run' /\ active' = <<txn, split>>
        /\ UNCHANGED <<engineStatus, hung, isReqPending, descBuffer, txn, split, dpc>>
        /\ queue' = "wake" /\ ~hung /\ active = NoJob
    BY <1>3, StartsPart DEF QueueStart, dpcVars, txnVars, Running
  <2>2. \A c \in Cpus : ~Starting(c)'
    BY <1>3, <2>1 DEF QueueStart, Running, Starting
  <2>3. QED
    BY <2>1, <2>2 DEF Running
<1>4. CASE WakeThread \/ Isr \/ ThreadWakes \/ ThreadChecksPending \/ WaitSatisfied
           \/ WaitTimesOut \/ AlreadyProcessed \/ ClearSignal
  <2>1. /\ UNCHANGED <<isReqPending, descBuffer, txn, split, run, active, hung, engineStatus, dpc>>
        /\ queue' = "start" => queue = "start"
    BY <1>4 DEF WakeThread, Isr, ThreadWakes, ThreadChecksPending, WaitSatisfied,
       WaitTimesOut, AlreadyProcessed, ClearSignal, txnVars, dpcVars, hwVars
  <2>2. QED
    BY <2>1 DEF Running, Starting
<1>5. ASSUME NEW c \in Cpus, \/ DpcBegin(c) \/ SpuriousInterrupt(c) \/ DmaCompletedFinal(c)
                             \/ SignalThread(c)
      PROVE  Running'
  <2>1. /\ UNCHANGED <<isReqPending, descBuffer, txn, split, run, active, hung, engineStatus, queue>>
        /\ \A d \in Cpus : Starting(d)' <=> Starting(d)
    BY <1>5, <1>t DEF DpcBegin, SpuriousInterrupt, DmaCompletedFinal, SignalThread, txnVars, hwVars,
       Starting
  <2>2. QED
    BY <2>1 DEF Running
<1>6. ASSUME NEW c \in Cpus, ProcessTransfer(c) PROVE Running'
  <2>1. queue # "start" /\ \A d \in Cpus : ~Starting(d)
    BY <1>6, FindsStatus DEF ProcessTransfer, Processing
  <2>2. \A d \in Cpus : ~Starting(d)'
    BY <1>6, <1>t, <2>1 DEF ProcessTransfer, Starting
  <2>3. QED
    BY <1>6, <2>1, <2>2 DEF ProcessTransfer, ReadStatusAndStop, Running
<1>7. ASSUME NEW c \in Cpus, DmaCompleted(c) \/ CompleteRequest(c) PROVE Running'
  <2>1. ~isReqPending /\ ~run /\ queue # "start"
    BY <1>7 DEF DmaCompleted, CompleteRequest, DpcHolds, IInv, OneFinisher, Running
  <2>2. /\ UNCHANGED <<isReqPending, run, active, hung, engineStatus, queue>>
        /\ \A d \in Cpus : ~Starting(d)'
    BY <1>7, <1>t, <2>1 DEF DmaCompleted, CompleteRequest, hwVars, Running, Starting
  <2>3. QED
    BY <2>1, <2>2 DEF Running
<1>8. ASSUME NEW c \in Cpus, DpcProgram(c) PROVE Running'
  <2>1. ~isReqPending /\ ~run /\ queue # "start" /\ \A d \in Cpus : ~Starting(d)
    BY <1>8 DEF DpcProgram, DpcHolds, IInv, OneFinisher, Running
  <2>2. \A d \in Cpus : Starting(d)' => d = c
    BY <1>8, <1>t, <2>1 DEF DpcProgram, Starting
  <2>3. QED
    BY <1>8, <2>1, <2>2 DEF DpcProgram, MarkReqPending, Running, txnVars, hwVars
<1>9. ASSUME NEW c \in Cpus, DpcStart(c) PROVE Running'
  <2>1. Starting(c)
    BY <1>9 DEF DpcStart, Starting
  <2>2. /\ isReqPending /\ engineStatus = "clear" /\ run' /\ active' = <<txn, split>>
        /\ UNCHANGED <<engineStatus, hung, isReqPending, descBuffer, txn, split, queue>>
        /\ ~hung /\ active = NoJob /\ queue # "start"
    BY <1>9, <2>1, StartsPart DEF DpcStart, txnVars, Running
  <2>3. \A d \in Cpus : ~Starting(d)'
    BY <1>9, <1>t, <2>1 DEF DpcStart, Running, Starting
  <2>4. QED
    BY <2>2, <2>3 DEF Running
<1>10. CASE ReallyTimedOut
  <2>1. queue # "start" /\ \A c \in Cpus : ~Starting(c)
    BY <1>10, HungIsQuiet DEF ReallyTimedOut
  <2>2. QED
    BY <1>10, <2>1 DEF ReallyTimedOut, ReadStatusAndStop, Running, Starting, txnVars, dpcVars
<1>11. CASE AbortRequest
  <2>1. ~isReqPending /\ ~run /\ queue # "start"
    BY <1>11 DEF AbortRequest, ThreadHolds, IInv, OneFinisher, Running
  <2>2. UNCHANGED <<isReqPending, run, active, hung, engineStatus, queue, dpc>>
    BY <1>11 DEF AbortRequest, hwVars, dpcVars
  <2>3. QED
    BY <2>1, <2>2 DEF Running, Starting
<1>12. CASE HwFinish \/ HwError
  <2>1. /\ run /\ isReqPending /\ ~hung /\ active' = NoJob
        /\ UNCHANGED <<isReqPending, descBuffer, txn, split, run, hung, queue, dpc>>
    BY <1>12 DEF HwFinish, HwError, Running, txnVars, dpcVars
  <2>2. engineStatus' # "magic"
    BY <1>12, MmAssumption DEF HwFinish, HwError, RaiseStatus
  <2>3. QED
    BY <2>1, <2>2 DEF Running, Starting
<1>13. CASE HwHang
  BY <1>13 DEF HwHang, Running, Starting, txnVars, dpcVars
<1>14. CASE FileCreate \/ DeviceClose \/ Closed \/ UNCHANGED vars
  <2>1. UNCHANGED <<isReqPending, descBuffer, txn, split, run, active, hung, engineStatus, queue,
                    dpc>>
    BY <1>14 DEF FileCreate, DeviceClose, Closed, vars, txnVars, dpcVars, hwVars
  <2>2. QED
    BY <2>1 DEF Running, Starting
<1>15. QED
  BY <1>1, <1>2, <1>3, <1>4, <1>5, <1>6, <1>7, <1>8, <1>9, <1>10, <1>11, <1>12, <1>13, <1>14
  DEF Next, QueueStep, QueueGoesOn, DpcIsRun, DpcGoesOn, DpcStep, ThreadStep, HwStep

LEMMA WatchingStep ==
  ASSUME Calm, IInv, Interrupting, Running, Watching, [Next]_vars
  PROVE  Watching'
<1>t. dpc \in [Cpus -> {"idle", "process", "ok", "error", "program", "start", "signal",
                        "complete"}]
  BY DEF IInv, TypeOK, DpcTypes
<1>1. ASSUME NEW r \in Requests, Dispatch(r) \/ DispatchFails(r) PROVE Watching'
  <2>1. txn = NoReq
    BY <1>1 DEF Dispatch, DispatchFails, Presents, IInv, HolderIsCurrent, TypeOK, RequestTypes
  <2>2. ~isReqPending /\ ~ThreadHolds
    BY <2>1 DEF IInv, HolderIsCurrent
  <2>3. ~hung
    BY <2>2 DEF Running
  <2>4. UNCHANGED <<thread, completionWaitSignal>>
    BY <1>1 DEF Dispatch, DispatchFails, threadVars, signalVars
  <2>5. QED
    BY <2>1, <2>2, <2>3, <2>4 DEF Watching, ThreadHolds
<1>2. CASE QueueProgram \/ WakeThread \/ Isr \/ DeviceClose \/ FileCreate \/ Closed \/ UNCHANGED vars
  <2>1. UNCHANGED <<thread, watch, completionWaitSignal, txn, hung, dpc>>
    BY <1>2 DEF QueueProgram, WakeThread, Isr, DeviceClose, FileCreate, Closed, vars, threadVars,
       signalVars, txnVars, hwVars, dpcVars
  <2>2. QED
    BY <2>1 DEF Watching
<1>3. CASE QueueStart
  <2>1. UNCHANGED <<thread, watch, completionWaitSignal, txn, hung, dpc>>
    BY <1>3 DEF QueueStart, EngineStart, threadVars, signalVars, txnVars, dpcVars
  <2>2. QED
    BY <2>1 DEF Watching
<1>4. ASSUME NEW c \in Cpus, \/ DpcBegin(c) \/ SpuriousInterrupt(c) \/ DmaCompleted(c)
                             \/ DmaCompletedFinal(c) \/ DpcProgram(c) \/ DpcStart(c)
      PROVE  Watching'
  <2>1. UNCHANGED <<thread, watch, completionWaitSignal, txn, hung>>
    BY <1>4 DEF DpcBegin, SpuriousInterrupt, DmaCompleted, DmaCompletedFinal, DpcProgram, DpcStart,
       EngineStart, threadVars, signalVars, txnVars, hwVars
  <2>2. \A d \in Cpus : dpc'[d] = "complete" => dpc[d] = "complete"
    BY <1>4, <1>t DEF DpcBegin, SpuriousInterrupt, DmaCompleted, DmaCompletedFinal, DpcProgram,
       DpcStart
  <2>3. QED
    BY <2>1, <2>2 DEF Watching
<1>5. ASSUME NEW c \in Cpus, ProcessTransfer(c) PROVE Watching'
  <2>1. ~hung
    BY <1>5, FindsStatus DEF ProcessTransfer, Processing
  <2>2. UNCHANGED <<thread, watch, completionWaitSignal, txn>>
    BY <1>5 DEF ProcessTransfer, threadVars, signalVars, txnVars
  <2>3. \A d \in Cpus : dpc'[d] = "complete" => dpc[d] = "complete"
    BY <1>5, <1>t DEF ProcessTransfer
  <2>4. QED
    BY <2>1, <2>2, <2>3 DEF Watching
<1>6. ASSUME NEW c \in Cpus, SignalThread(c) PROVE Watching'
  BY <1>6 DEF SignalThread, Watching, threadVars, txnVars, hwVars
<1>7. ASSUME NEW c \in Cpus, CompleteRequest(c) PROVE Watching'
  <2>1. ~isReqPending /\ ~ThreadHolds
    BY <1>7 DEF CompleteRequest, DpcHolds, IInv, OneFinisher
  <2>2. ~hung
    BY <2>1 DEF Running
  <2>3. UNCHANGED <<thread, completionWaitSignal>> /\ dpc[c] = "complete"
    BY <1>7 DEF CompleteRequest, threadVars, signalVars
  <2>4. QED
    BY <2>1, <2>2, <2>3 DEF Watching, ThreadHolds
<1>8. CASE ThreadWakes \/ WaitSatisfied \/ AlreadyProcessed \/ AbortRequest \/ ClearSignal
  BY <1>8 DEF ThreadWakes, WaitSatisfied, AlreadyProcessed, AbortRequest, ClearSignal, Watching
<1>9. CASE ThreadChecksPending
  <2>1. isReqPending => txn # NoReq /\ \A c \in Cpus : dpc[c] # "complete"
    BY DEF IInv, HolderIsCurrent, OneFinisher, DpcHolds
  <2>2. QED
    BY <1>9, <2>1 DEF ThreadChecksPending, Watching, txnVars, signalVars, dpcVars
<1>10. CASE WaitTimesOut
  BY <1>10 DEF WaitTimesOut, Watching, Calm, txnVars, signalVars, hwVars
<1>11. CASE ReallyTimedOut
  BY <1>11 DEF ReallyTimedOut, Watching, txnVars, signalVars
<1>12. CASE HwFinish \/ HwError
  BY <1>12 DEF HwFinish, HwError, Watching, threadVars, signalVars, txnVars, dpcVars
<1>13. CASE HwHang
  BY <1>13 DEF HwHang, Watching, threadVars, signalVars, txnVars, dpcVars
<1>14. QED
  BY <1>1, <1>2, <1>3, <1>4, <1>5, <1>6, <1>7, <1>8, <1>9, <1>10, <1>11, <1>12, <1>13
  DEF Next, QueueStep, QueueGoesOn, DpcIsRun, DpcGoesOn, DpcStep, ThreadStep, HwStep

\* What the history and the counter of parts are read with.
Found == engineStatus = "completed" \/ \E c \in Cpus : dpc[c] = "ok"

\* A step that leaves the parts alone.
LEMMA MovingAlone ==
  ASSUME Moving, UNCHANGED <<req, txn, split, moved, status>>, Found' = Found,
         \A c \in Cpus : Ending(c)' <=> Ending(c)
  PROVE  Moving'
BY DEF Moving, Found, SuccessMeansMoved

LEMMA MovingStep ==
  ASSUME Calm, IInv, Interrupting, Running, Watching, Moving, [Next]_vars
  PROVE  Moving'
<1>t. /\ dpc \in [Cpus -> {"idle", "process", "ok", "error", "program", "start", "signal",
                           "complete"}]
      /\ req \in [Requests -> {"queued", "driver"} \cup Outcomes]
      /\ txn \in Requests \cup {NoReq} /\ split \in Nat
      /\ status \in [Cpus -> {"SUCCESS", "INTERNAL_ERROR"}]
      /\ Splits \in [Requests -> Nat \ {0}] /\ NoReq \notin Requests
  BY MmAssumption DEF IInv, TypeOK, DpcTypes, RequestTypes
<1>1. ASSUME NEW r \in Requests, Dispatch(r) PROVE Moving'
  <2>1. txn = NoReq /\ req[r] = "queued"
    BY <1>1 DEF Dispatch, Presents, IInv, HolderIsCurrent, TypeOK, RequestTypes
  <2>2. ~isReqPending /\ \A c \in Cpus : ~DpcHolds(c)
    BY <2>1 DEF IInv, HolderIsCurrent
  <2>3. /\ engineStatus = "clear" /\ \A c \in Cpus : dpc[c] # "ok" /\ ~Ending(c)
    BY <2>2 DEF Running, DpcHolds, Ending
  <2>4. /\ txn' = r /\ split' = 0 /\ req' = [req EXCEPT ![r] = "driver"]
        /\ UNCHANGED <<moved, engineStatus, dpc, status>>
    BY <1>1 DEF Dispatch, dpcVars, hwVars
  <2>5. \A j \in Nat : <<r, j>> \notin moved
    BY <2>1 DEF Moving
  <2>6. \A j \in Nat : ~(j < 0)
    OBVIOUS
  <2>7. /\ split' < Splits[txn']
        /\ \A s \in Requests : (req'[s] = "queued" => req[s] = "queued")
                            /\ (req'[s] = "SUCCESS" => req[s] = "SUCCESS")
    BY <1>t, <2>4
  <2>8. QED
    BY <2>3, <2>4, <2>5, <2>6, <2>7 DEF Moving, Ending, SuccessMeansMoved
<1>2. ASSUME NEW r \in Requests, DispatchFails(r) PROVE Moving'
  <2>1. txn = NoReq
    BY <1>2 DEF DispatchFails, Presents, IInv, HolderIsCurrent, TypeOK, RequestTypes
  <2>2. \A c \in Cpus : ~Ending(c)
    BY <2>1 DEF IInv, HolderIsCurrent, DpcHolds, Ending
  <2>3. txn' = NoReq /\ req' = [req EXCEPT ![r] = "FAILED"] /\ UNCHANGED <<moved, dpc>>
    BY <1>2 DEF DispatchFails, ReleaseAndComplete, dpcVars
  <2>4. \A s \in Requests : (req'[s] = "queued" => req[s] = "queued")
                         /\ (req'[s] = "SUCCESS" => req[s] = "SUCCESS")
    BY <1>t, <2>3
  <2>5. QED
    BY <2>2, <2>3, <2>4 DEF Moving, Ending, SuccessMeansMoved
<1>3. CASE QueueProgram \/ WakeThread \/ Isr \/ FileCreate \/ DeviceClose \/ Closed \/ UNCHANGED vars
  <2>1. UNCHANGED <<req, txn, split, moved, status, dpc, engineStatus>>
    BY <1>3 DEF QueueProgram, WakeThread, Isr, FileCreate, DeviceClose, Closed, vars, txnVars,
       dpcVars, hwVars
  <2>2. QED
    BY <2>1, MovingAlone DEF Found, Ending
<1>4. CASE QueueStart
  <2>1. UNCHANGED <<req, txn, split, moved, status, dpc, engineStatus>>
    BY <1>4, StartsPart DEF QueueStart, txnVars, dpcVars
  <2>2. QED
    BY <2>1, MovingAlone DEF Found, Ending
<1>5. ASSUME NEW c \in Cpus, DpcBegin(c) \/ SpuriousInterrupt(c) \/ DpcProgram(c) \/ DpcStart(c)
      PROVE  Moving'
  <2>1. UNCHANGED <<req, txn, split, moved, status, engineStatus>>
    <3>1. CASE DpcStart(c)
      BY <3>1, StartsPart DEF DpcStart, Starting, txnVars
    <3>2. QED
      BY <1>5, <3>1 DEF DpcBegin, SpuriousInterrupt, DpcProgram, txnVars, hwVars
  <2>2. \A d \in Cpus : (dpc'[d] = "ok" <=> dpc[d] = "ok") /\ (Ending(d)' <=> Ending(d))
    BY <1>5, <1>t DEF DpcBegin, SpuriousInterrupt, DpcProgram, DpcStart, Ending
  <2>3. QED
    BY <2>1, <2>2, MovingAlone DEF Found
<1>6. ASSUME NEW c \in Cpus, ProcessTransfer(c) PROVE Moving'
  <2>1. /\ engineStatus # "clear" /\ active = NoJob /\ isReqPending /\ engineStatus # "magic"
    BY <1>6, FindsStatus DEF ProcessTransfer, Processing, Running
  <2>2. \A d \in Cpus : ~DpcHolds(d)
    BY <2>1 DEF IInv, OneFinisher
  <2>3. /\ dpc' = [dpc EXCEPT ![c] = IF engineStatus = "completed" THEN "ok" ELSE "error"]
        /\ engineStatus' = "clear" /\ UNCHANGED <<req, txn, split, moved, status>>
    <3>1. engineStatus \in {"completed"} \cup HwErrors
      BY <2>1 DEF IInv, TypeOK, HardwareTypes
    <3>2. engineStatus \in ExpectedZero <=> engineStatus # "completed"
      BY <3>1 DEF Calm, ExpectedZero
    <3>3. QED
      BY <1>6, <2>1, <3>2 DEF ProcessTransfer, ReadStatusAndStop, txnVars
  <2>4. Found' = (engineStatus = "completed") /\ Found = (engineStatus = "completed")
    <3>1. \A d \in Cpus : dpc[d] # "ok"
      BY <2>2 DEF DpcHolds
    <3>2. (\E d \in Cpus : dpc'[d] = "ok") <=> engineStatus = "completed"
      BY <1>t, <2>3, <3>1
    <3>3. QED
      BY <2>3, <3>1, <3>2 DEF Found
  <2>5. \A d \in Cpus : Ending(d)' <=> Ending(d)
    BY <1>6, <1>t, <2>3 DEF Ending, ProcessTransfer
  <2>6. QED
    BY <2>3, <2>4, <2>5, MovingAlone
<1>7. ASSUME NEW c \in Cpus, DmaCompleted(c) PROVE Moving'
  <2>1. /\ DpcHolds(c) /\ txn \in Requests /\ request[c] = txn /\ dpc[c] = "ok" /\ ~isReqPending
        /\ \A d \in Cpus \ {c} : ~DpcHolds(d)
    BY <1>7, <1>t DEF DmaCompleted, DpcHolds, IInv, HolderIsCurrent, OneFinisher
  <2>2. /\ engineStatus = "clear" /\ \A d \in Cpus : ~Ending(d)
    BY <2>1 DEF Running, DpcHolds, Ending
  <2>3. /\ split' = split + 1 /\ status' = [status EXCEPT ![c] = "SUCCESS"]
        /\ dpc' = [dpc EXCEPT ![c] = IF split + 1 < Splits[txn] THEN "program" ELSE "signal"]
        /\ UNCHANGED <<req, txn, moved, engineStatus>>
    BY <1>7, <2>1 DEF DmaCompleted, hwVars
  <2>4. split < Splits[txn] /\ \A j \in Nat : <<txn, j>> \in moved <=> j < split \/ j = split
    BY <2>1, <2>2, <1>t DEF Moving
  <2>5. /\ \A d \in Cpus : dpc'[d] # "ok"
        /\ Ending(c)' <=> ~(split + 1 < Splits[txn])
        /\ \A d \in Cpus \ {c} : ~Ending(d)'
    BY <1>t, <2>1, <2>2, <2>3 DEF DpcHolds, Ending
  <2>6. /\ Splits[txn] \in Nat /\ \A j \in Nat : (j < split \/ j = split) <=> j < split + 1
    BY <1>t, <2>1
  <2>7. ~(split + 1 < Splits[txn]) => split + 1 = Splits[txn]
    BY <1>t, <2>4, <2>6
  <2>8. SuccessMeansMoved' /\ \A r \in Requests : req'[r] = "queued" => \A j \in Nat : <<r, j>> \notin moved'
    BY <2>3 DEF Moving, SuccessMeansMoved
  <2>9. /\ \A j \in Nat : <<txn', j>> \in moved' <=>
             j < split' \/ (j = split' /\ (engineStatus' = "completed" \/ \E d \in Cpus : dpc'[d] = "ok"))
    BY <2>2, <2>3, <2>4, <2>5, <2>6
  <2>10. /\ split' < Splits[txn'] \/ \E d \in Cpus : Ending(d)'
         /\ \A d \in Cpus : Ending(d)' /\ status'[d] = "SUCCESS" => split' = Splits[txn']
    BY <2>3, <2>5, <2>7
  <2>11. QED
    BY <2>8, <2>9, <2>10 DEF Moving
<1>8. ASSUME NEW c \in Cpus, DmaCompletedFinal(c) PROVE Moving'
  <2>1. /\ \A d \in Cpus \ {c} : ~DpcHolds(d)
        /\ dpc[c] = "error"
    BY <1>8, <1>t DEF DmaCompletedFinal, DpcHolds, IInv, OneFinisher
  <2>2. /\ status' = [status EXCEPT ![c] = "INTERNAL_ERROR"] /\ dpc' = [dpc EXCEPT ![c] = "signal"]
        /\ UNCHANGED <<req, txn, split, moved, engineStatus>>
    BY <1>8 DEF DmaCompletedFinal, txnVars, hwVars
  <2>3. /\ \A d \in Cpus : dpc'[d] = "ok" <=> dpc[d] = "ok"
        /\ Ending(c)' /\ status'[c] # "SUCCESS" /\ \A d \in Cpus \ {c} : ~Ending(d)'
    BY <1>t, <2>1, <2>2 DEF DpcHolds, Ending
  <2>4. SuccessMeansMoved' /\ \A r \in Requests : req'[r] = "queued" => \A j \in Nat : <<r, j>> \notin moved'
    BY <2>2 DEF Moving, SuccessMeansMoved
  <2>5. txn' # NoReq => \A j \in Nat : <<txn', j>> \in moved' <=>
          j < split' \/ (j = split' /\ (engineStatus' = "completed" \/ \E d \in Cpus : dpc'[d] = "ok"))
    BY <2>2, <2>3 DEF Moving
  <2>6. QED
    BY <2>3, <2>4, <2>5 DEF Moving
<1>9. ASSUME NEW c \in Cpus, SignalThread(c) PROVE Moving'
  <2>1. /\ UNCHANGED <<req, txn, split, moved, status, engineStatus>>
        /\ \A d \in Cpus : (dpc'[d] = "ok" <=> dpc[d] = "ok") /\ (Ending(d)' <=> Ending(d))
    BY <1>9, <1>t DEF SignalThread, txnVars, hwVars, Ending
  <2>2. QED
    BY <2>1, MovingAlone DEF Found
<1>10. ASSUME NEW c \in Cpus, CompleteRequest(c) PROVE Moving'
  <2>1. /\ txn \in Requests /\ request[c] = txn /\ Ending(c)
        /\ \A d \in Cpus \ {c} : ~DpcHolds(d)
    BY <1>10, <1>t DEF CompleteRequest, DpcHolds, IInv, HolderIsCurrent, OneFinisher, Ending
  <2>2. /\ txn' = NoReq /\ req' = [req EXCEPT ![txn] = status[c]]
        /\ dpc' = [dpc EXCEPT ![c] = "idle"] /\ UNCHANGED <<moved, status>>
    BY <1>10, <2>1 DEF CompleteRequest, ReleaseAndComplete
  <2>3. \A d \in Cpus : ~Ending(d)'
    BY <1>t, <2>1, <2>2 DEF DpcHolds, Ending
  <2>4. status[c] = "SUCCESS" => \A i \in 0..(Splits[txn] - 1) : <<txn, i>> \in moved
    <3>1. status[c] = "SUCCESS" => split = Splits[txn]
      BY <2>1 DEF Moving
    <3>2. \A i \in 0..(Splits[txn] - 1) : i \in Nat /\ i < Splits[txn]
      BY <1>t, <2>1
    <3>3. \A j \in Nat : j < split => <<txn, j>> \in moved
      BY <1>t, <2>1 DEF Moving
    <3>4. QED
      BY <3>1, <3>2, <3>3
  <2>5. /\ SuccessMeansMoved'
        /\ \A r \in Requests : req'[r] = "queued" => req[r] = "queued"
    BY <1>t, <2>1, <2>2, <2>4 DEF Moving, SuccessMeansMoved
  <2>6. QED
    BY <2>2, <2>3, <2>5 DEF Moving
<1>11. CASE ThreadWakes \/ ThreadChecksPending \/ WaitSatisfied \/ WaitTimesOut
            \/ AlreadyProcessed \/ ClearSignal \/ HwHang
  <2>1. UNCHANGED <<req, txn, split, moved, status, dpc, engineStatus>>
    BY <1>11 DEF ThreadWakes, ThreadChecksPending, WaitSatisfied, WaitTimesOut,
       AlreadyProcessed, ClearSignal, HwHang, txnVars, dpcVars, hwVars
  <2>2. QED
    BY <2>1, MovingAlone DEF Found, Ending
<1>12. CASE ReallyTimedOut
  <2>1. engineStatus = "clear" /\ engineStatus' = "clear"
        /\ UNCHANGED <<req, txn, split, moved, status, dpc>>
    BY <1>12, HungIsQuiet DEF ReallyTimedOut, ReadStatusAndStop, txnVars, dpcVars
  <2>2. QED
    BY <2>1, MovingAlone DEF Found, Ending
<1>13. CASE AbortRequest
  <2>1. /\ txn \in Requests /\ \A c \in Cpus : ~DpcHolds(c)
    BY <1>13, <1>t DEF AbortRequest, ThreadHolds, IInv, HolderIsCurrent, OneFinisher
  <2>2. txn' = NoReq /\ req' = [req EXCEPT ![txn] = "TIMEOUT"] /\ UNCHANGED <<moved, dpc>>
    BY <1>13, <1>t, <2>1 DEF AbortRequest, ReleaseAndComplete, dpcVars
  <2>3. \A c \in Cpus : ~Ending(c)'
    BY <2>1, <2>2 DEF DpcHolds, Ending
  <2>4. \A s \in Requests : (req'[s] = "queued" => req[s] = "queued")
                         /\ (req'[s] = "SUCCESS" => req[s] = "SUCCESS")
    BY <1>t, <2>1, <2>2
  <2>5. QED
    BY <2>2, <2>3, <2>4 DEF Moving, SuccessMeansMoved
<1>14. CASE HwFinish
  <2>1. /\ active = <<txn, split>> /\ engineStatus = "clear" /\ isReqPending /\ txn \in Requests
    BY <1>14, <1>t DEF HwFinish, Running, IInv, HolderIsCurrent
  <2>2. \A c \in Cpus : ~DpcHolds(c)
    BY <2>1 DEF IInv, OneFinisher
  <2>3. /\ moved' = moved \cup {<<txn, split>>} /\ engineStatus' = "completed"
        /\ UNCHANGED <<req, txn, split, status, dpc>>
    BY <1>14, <2>1 DEF HwFinish, RaiseStatus, txnVars, dpcVars
  <2>4. req[txn] = "driver"
    BY <2>1 DEF IInv, HolderIsCurrent
  <2>5. \A j \in Nat : <<txn, j>> \in moved <=> j < split
    BY <1>t, <2>1, <2>2 DEF Moving, DpcHolds
  <2>6. \A c \in Cpus : ~Ending(c) /\ ~Ending(c)'
    BY <2>2, <2>3 DEF DpcHolds, Ending
  <2>7. \A r \in Requests : \A j \in Nat : r # txn => (<<r, j>> \in moved' <=> <<r, j>> \in moved)
    BY <2>3
  <2>8. \A r \in Requests : req'[r] = "queued" => \A j \in Nat : <<r, j>> \notin moved'
    BY <2>3, <2>4, <2>7 DEF Moving
  <2>9. SuccessMeansMoved'
    BY <2>3 DEF Moving, SuccessMeansMoved
  <2>10. \A j \in Nat : <<txn', j>> \in moved' <=> j < split' \/ j = split'
    BY <2>3, <2>5
  <2>11. QED
    BY <1>t, <2>1, <2>3, <2>6, <2>8, <2>9, <2>10 DEF Moving
<1>15. CASE HwError
  <2>1. engineStatus = "clear" /\ engineStatus' # "completed"
        /\ UNCHANGED <<req, txn, split, moved, status, dpc>>
    BY <1>15, MmAssumption DEF HwError, RaiseStatus, Running, txnVars, dpcVars
  <2>2. QED
    BY <2>1, MovingAlone DEF Found, Ending
<1>16. QED
  BY <1>1, <1>2, <1>3, <1>4, <1>5, <1>6, <1>7, <1>8, <1>9, <1>10, <1>11, <1>12, <1>13, <1>14, <1>15
  DEF Next, QueueStep, QueueGoesOn, DpcIsRun, DpcGoesOn, DpcStep, ThreadStep, HwStep

\* The inductive invariant where clients may rely on the engine.
LEMMA CalmInvariant == ASSUME Calm PROVE Spec => [](IInv /\ CalmInv)
<1>1. Init => IInv /\ CalmInv
  <2> SUFFICES ASSUME Init PROVE CalmInv
    BY HolderInit
  <2>1. /\ txn = NoReq /\ ~isReqPending /\ ~run /\ active = NoJob /\ ~hung
        /\ engineStatus = "clear" /\ ~msi /\ intEnabled /\ ~dpcQueued
        /\ queue = "idle" /\ thread = "semaphore" /\ moved = {}
        /\ req = [r \in Requests |-> "queued"]
        /\ \A c \in Cpus : dpc[c] = "idle"
    BY DEF Init
  <2>2. Interrupting /\ Running /\ Watching
    BY <2>1 DEF Interrupting, Running, Watching, Processing, Starting
  <2>3. Moving
    BY <2>1 DEF Moving, Ending, SuccessMeansMoved
  <2>4. QED
    BY <2>2, <2>3 DEF CalmInv
<1>2. (IInv /\ CalmInv) /\ [Next]_vars => (IInv /\ CalmInv)'
  BY HolderStep, InterruptingStep, RunningStep, WatchingStep, MovingStep DEF CalmInv
<1>3. QED
  BY <1>1, <1>2, PTL DEF Spec

\* A request is answered with success only when every part of it was moved: what
\* EngineProcessTransfer takes for a clean status is the end of this part.
THEOREM SuccessAlwaysMoved == ASSUME Calm PROVE Spec => []SuccessMeansMoved
<1>1. CalmInv => SuccessMeansMoved
  BY DEF CalmInv, Moving
<1>2. QED
  BY <1>1, CalmInvariant, PTL

\* EngineWaitForCompletion aborts no request but the one it has waited for.
THEOREM AlwaysTimesOutItsOwn == ASSUME Calm PROVE Spec => []TimesOutItsOwn
<1>1. CalmInv => TimesOutItsOwn
  BY DEF CalmInv, Watching, TimesOutItsOwn, ThreadHolds
<1>2. QED
  BY <1>1, CalmInvariant, PTL

\* The engine never moves data of a request that has been completed.
THEOREM NeverDmaAfterCompletion == ASSUME Calm PROVE Spec => []NoDmaAfterCompletion
<1>1. IInv /\ CalmInv => NoDmaAfterCompletion
  <2> SUFFICES ASSUME IInv, CalmInv, active # NoJob PROVE req[active[1]] = "driver"
    BY DEF NoDmaAfterCompletion
  <2>1. active = <<txn, split>> /\ txn # NoReq
    BY DEF CalmInv, Running, IInv, HolderIsCurrent
  <2>2. req[txn] = "driver"
    BY <2>1 DEF IInv, HolderIsCurrent, TypeOK, RequestTypes
  <2>3. QED
    BY <2>1, <2>2
<1>2. QED
  BY <1>1, CalmInvariant, PTL

\* An interrupt that the ISR has disabled has a DPC on its way to enable it.
THEOREM InterruptAlwaysComesBack == ASSUME Calm PROVE Spec => []InterruptComesBack
<1>1. CalmInv => InterruptComesBack
  BY DEF CalmInv, Interrupting, InterruptComesBack, Processing
<1>2. QED
  BY <1>1, CalmInvariant, PTL

\* Every step of the engine is one of the service's, or none of its clients' concern.
LEMMA ServiceStep ==
  ASSUME Calm, IInv, CalmInv, [Next]_vars
  PROVE  Service!Next \/ UNCHANGED <<req, moved>>
<1>t. /\ req \in [Requests -> {"queued", "driver"} \cup Outcomes]
      /\ txn \in Requests \cup {NoReq} /\ split \in Nat
      /\ status \in [Cpus -> {"SUCCESS", "INTERNAL_ERROR"}]
      /\ Splits \in [Requests -> Nat \ {0}] /\ NoReq \notin Requests
  BY MmAssumption DEF IInv, TypeOK, DpcTypes, RequestTypes
<1>1. ASSUME NEW r \in Requests, Dispatch(r) PROVE Service!Next
  <2>1. Service!Accept(r)
    BY <1>1 DEF Dispatch, Presents, Service!Accept
  <2>2. QED
    BY <2>1 DEF Service!Next
<1>2. ASSUME NEW r \in Requests, DispatchFails(r) PROVE Service!Next
  <2>1. Service!Refuse(r)
    BY <1>2 DEF DispatchFails, Presents, ReleaseAndComplete, Service!Refuse
  <2>2. QED
    BY <2>1 DEF Service!Next
<1>3. ASSUME NEW c \in Cpus, CompleteRequest(c) PROVE Service!Next
  <2>1. txn \in Requests /\ request[c] = txn /\ req[txn] = "driver" /\ Ending(c)
    BY <1>3, <1>t DEF CompleteRequest, DpcHolds, Ending, IInv, HolderIsCurrent
  <2>2. req' = [req EXCEPT ![txn] = status[c]] /\ moved' = moved
    BY <1>3, <2>1 DEF CompleteRequest, ReleaseAndComplete
  <2>3. CASE status[c] = "SUCCESS"
    <3>1. split = Splits[txn] /\ \A j \in Nat : j < split => <<txn, j>> \in moved
      BY <1>t, <2>1, <2>3 DEF CalmInv, Moving
    <3>2. \A i \in 0..(Splits[txn] - 1) : i \in Nat /\ i < Splits[txn]
      BY <1>t, <2>1
    <3>3. Service!Succeed(txn)
      BY <2>1, <2>2, <2>3, <3>1, <3>2 DEF Service!Succeed
    <3>4. QED
      BY <2>1, <3>3 DEF Service!Next
  <2>4. CASE status[c] # "SUCCESS"
    <3>1. Service!Fail(txn, "INTERNAL_ERROR")
      BY <1>t, <2>1, <2>2, <2>4 DEF Service!Fail
    <3>2. QED
      BY <2>1, <3>1 DEF Service!Next
  <2>5. QED
    BY <2>3, <2>4
<1>4. CASE AbortRequest
  <2>1. txn \in Requests /\ req[txn] = "driver"
    BY <1>4, <1>t DEF AbortRequest, ThreadHolds, IInv, HolderIsCurrent
  <2>2. Service!Fail(txn, "TIMEOUT")
    BY <1>4, <1>t, <2>1 DEF AbortRequest, ReleaseAndComplete, Service!Fail
  <2>3. QED
    BY <2>1, <2>2 DEF Service!Next
<1>5. CASE HwFinish
  <2>1. /\ active = <<txn, split>> /\ engineStatus = "clear" /\ isReqPending /\ txn \in Requests
        /\ moved' = moved \cup {<<txn, split>>} /\ req' = req
    BY <1>5, <1>t DEF HwFinish, CalmInv, Running, IInv, HolderIsCurrent, txnVars
  <2>2. req[txn] = "driver" /\ \A c \in Cpus : ~DpcHolds(c)
    BY <2>1 DEF IInv, HolderIsCurrent, OneFinisher
  <2>3. /\ split < Splits[txn]
        /\ \A j \in Nat : <<txn, j>> \in moved <=> j < split
    BY <1>t, <2>1, <2>2 DEF CalmInv, Moving, DpcHolds, Ending
  <2>4. Splits[txn] \in Nat
    BY <1>t, <2>1
  <2>5. {j \in 0..(Splits[txn] - 1) : <<txn, j>> \in moved} = 0..(split - 1)
    <3>1. \A j \in 0..(Splits[txn] - 1) : j \in Nat
      BY <2>4
    <3>2. \A j \in 0..(Splits[txn] - 1) : <<txn, j>> \in moved => j \in 0..(split - 1)
      BY <1>t, <2>3, <2>4, <3>1
    <3>3. \A j \in 0..(split - 1) : j \in 0..(Splits[txn] - 1) /\ <<txn, j>> \in moved
      BY <1>t, <2>3, <2>4
    <3>4. QED
      BY <3>2, <3>3
  <2>6. split \in 0..(Splits[txn] - 1)
    BY <1>t, <2>3, <2>4
  <2>7. Service!Move(txn, split)
    BY <2>1, <2>2, <2>5 DEF Service!Move
  <2>8. QED
    BY <2>1, <2>6, <2>7 DEF Service!Next
<1>6. ASSUME NEW c \in Cpus, \/ DpcBegin(c) \/ SpuriousInterrupt(c) \/ ProcessTransfer(c)
                             \/ DmaCompleted(c) \/ DmaCompletedFinal(c) \/ DpcProgram(c)
                             \/ DpcStart(c) \/ SignalThread(c)
      PROVE  UNCHANGED <<req, moved>>
  BY <1>6 DEF DpcBegin, SpuriousInterrupt, ProcessTransfer, DmaCompleted, DmaCompletedFinal,
     DpcProgram, DpcStart, SignalThread, txnVars
<1>7. CASE \/ QueueProgram \/ QueueStart \/ WakeThread \/ Isr \/ HwError \/ HwHang
           \/ FileCreate \/ DeviceClose \/ Closed \/ UNCHANGED vars
  BY <1>7 DEF QueueProgram, QueueStart, WakeThread, Isr, HwError, HwHang, FileCreate, DeviceClose,
     Closed, vars, txnVars
<1>8. CASE \/ ThreadWakes \/ ThreadChecksPending \/ WaitSatisfied \/ WaitTimesOut
           \/ AlreadyProcessed \/ ReallyTimedOut \/ ClearSignal
  BY <1>8 DEF ThreadWakes, ThreadChecksPending, WaitSatisfied, WaitTimesOut, AlreadyProcessed,
     ReallyTimedOut, ClearSignal, txnVars
<1>9. QED
  BY <1>1, <1>2, <1>3, <1>4, <1>5, <1>6, <1>7, <1>8
  DEF Next, QueueStep, QueueGoesOn, DpcIsRun, DpcGoesOn, DpcStep, ThreadStep, HwStep

\* The engine in interrupt mode accepts one request at a time, moves its parts
\* once and in order while the driver owns it, and answers success only when all
\* were moved.
THEOREM InterruptsImplementService == ASSUME Calm PROVE Spec => ImplementsService
<1>1. Init => Service!Init
  BY DEF Init, Service!Init
<1>2. (IInv /\ CalmInv) /\ [Next]_vars => [Service!Next]_<<req, moved>>
  BY ServiceStep
<1>3. Service!vars = <<req, moved>>
  BY DEF Service!vars
<1>4. QED
  BY <1>1, <1>2, <1>3, CalmInvariant, PTL DEF Spec, ImplementsService, Service!Spec, Service!vars

-----------------------------------------------------------------------------
(* What ends in the end, where the wait outlasts the hardware *)

\* A pending part is about to be started, or moved, or has an interrupt on its way.
Answering ==
  /\ isReqPending => run \/ queue = "start" \/ \E c \in Cpus : Starting(c)
  /\ run => active # NoJob \/ engineStatus # "clear"
  /\ engineStatus # "clear" => msi \/ dpcQueued \/ \E c \in Cpus : Processing(c)

\* A device that is being closed has no request, and its thread will be woken.
Closing ==
  /\ terminate => txn = NoReq /\ queue = "idle"
  /\ thread = "exited" => terminate
  /\ terminate => thread = "exited" \/ semaphore > 0

\* What the steps are judged by from here on.
Sound == IInv /\ CalmInv /\ Answering /\ Closing

LEMMA AnsweringStep == ASSUME Calm, Sound, [Next]_vars PROVE Answering'
<1>t. dpc \in [Cpus -> {"idle", "process", "ok", "error", "program", "start", "signal",
                        "complete"}]
  BY DEF Sound, IInv, TypeOK, DpcTypes
<1>r. /\ IInv /\ Interrupting /\ Running /\ Watching
      /\ ~isReqPending => ~run /\ engineStatus = "clear"
      /\ isReqPending => txn # NoReq
  BY DEF Sound, CalmInv, Running, IInv, HolderIsCurrent
<1> DEFINE Same(d) == (Processing(d)' <=> Processing(d)) /\ (Starting(d)' <=> Starting(d))
<1>1. ASSUME ~isReqPending', ~run', engineStatus' = "clear" PROVE Answering'
  BY <1>1 DEF Answering
<1>2. ASSUME UNCHANGED <<isReqPending, run, active, engineStatus, msi, dpcQueued, dpc>>,
             queue = "start" => queue' = "start"
      PROVE  Answering'
  BY <1>2 DEF Sound, Answering, Processing, Starting
<1>3. ASSUME NEW r \in Requests, Dispatch(r) \/ DispatchFails(r) PROVE Answering'
  <2>1. UNCHANGED <<isReqPending, run, active, engineStatus, msi, dpcQueued, dpc>>
    BY <1>3 DEF Dispatch, DispatchFails, hwVars, irqVars, dpcVars
  <2>2. queue # "start"
    BY <1>3 DEF Dispatch, DispatchFails, Presents
  <2>3. QED
    BY <1>2, <2>1, <2>2
<1>4. CASE QueueProgram
  <2>1. ~isReqPending
    BY <1>4, <1>r DEF QueueProgram, QueueHolds, IInv, ProgramsOnlyWhenFree
  <2>2. queue' = "start" /\ UNCHANGED <<run, engineStatus>>
    BY <1>4 DEF QueueProgram, hwVars
  <2>3. QED
    BY <1>r, <2>1, <2>2 DEF Answering
<1>5. CASE QueueStart
  <2>1. txn # NoReq /\ run' /\ active' = <<txn, split>> /\ engineStatus' = "clear"
    BY <1>5, <1>r, StartsPart DEF QueueStart
  <2>2. QED
    BY <2>1 DEF Answering, NoJob
<1>6. CASE WakeThread
  BY <1>2, <1>6 DEF WakeThread, hwVars, irqVars, dpcVars
<1>7. CASE \/ ThreadWakes \/ ThreadChecksPending \/ WaitSatisfied \/ WaitTimesOut
           \/ AlreadyProcessed \/ AbortRequest \/ ClearSignal
  <2>1. UNCHANGED <<isReqPending, run, active, engineStatus, msi, dpcQueued, dpc, queue>>
    BY <1>7 DEF ThreadWakes, ThreadChecksPending, WaitSatisfied, WaitTimesOut, AlreadyProcessed,
       AbortRequest, ClearSignal, hwVars, irqVars, dpcVars
  <2>2. QED
    BY <1>2, <2>1
<1>8. CASE ReallyTimedOut
  BY <1>1, <1>8 DEF ReallyTimedOut, ReadStatusAndStop
<1>9. CASE Isr
  <2>1. dpcQueued' /\ UNCHANGED <<isReqPending, run, active, engineStatus, dpc, queue>>
    BY <1>9 DEF Isr, hwVars, dpcVars
  <2>2. QED
    BY <2>1 DEF Sound, Answering, Starting
<1>10. ASSUME NEW c \in Cpus, DpcBegin(c) PROVE Answering'
  <2>1. Processing(c)' /\ \A d \in Cpus : Starting(d) => Starting(d)'
    BY <1>10, <1>t DEF DpcBegin, Processing, Starting
  <2>2. UNCHANGED <<isReqPending, run, active, engineStatus, queue>>
    BY <1>10 DEF DpcBegin, hwVars
  <2>3. QED
    BY <2>1, <2>2 DEF Sound, Answering
<1>11. ASSUME NEW c \in Cpus, SpuriousInterrupt(c) PROVE Answering'
  BY <1>11, <1>r, FindsStatus DEF SpuriousInterrupt, Processing
<1>12. ASSUME NEW c \in Cpus, ProcessTransfer(c) PROVE Answering'
  BY <1>1, <1>12 DEF ProcessTransfer, ReadStatusAndStop
<1>13. ASSUME NEW c \in Cpus, DmaCompleted(c) \/ DmaCompletedFinal(c) \/ SignalThread(c)
                              \/ CompleteRequest(c)
       PROVE  Answering'
  <2>1. ~isReqPending
    BY <1>13, <1>r DEF DmaCompleted, DmaCompletedFinal, SignalThread, CompleteRequest, DpcHolds, IInv,
       OneFinisher
  <2>2. UNCHANGED <<isReqPending, run, engineStatus>>
    BY <1>13 DEF DmaCompleted, DmaCompletedFinal, SignalThread, CompleteRequest, hwVars
  <2>3. QED
    BY <1>1, <1>r, <2>1, <2>2
<1>14. ASSUME NEW c \in Cpus, DpcProgram(c) PROVE Answering'
  <2>1. ~isReqPending
    BY <1>14, <1>r DEF DpcProgram, DpcHolds, IInv, OneFinisher
  <2>2. Starting(c)' /\ UNCHANGED <<run, engineStatus>>
    BY <1>14, <1>t DEF DpcProgram, Starting, hwVars
  <2>3. QED
    BY <1>r, <2>1, <2>2 DEF Answering
<1>15. ASSUME NEW c \in Cpus, DpcStart(c) PROVE Answering'
  <2>1. txn # NoReq /\ run' /\ active' = <<txn, split>> /\ engineStatus' = "clear"
    BY <1>15, <1>r, StartsPart DEF DpcStart, Starting
  <2>2. QED
    BY <2>1 DEF Answering, NoJob
<1>16. CASE HwFinish \/ HwError
  <2>1. /\ run /\ isReqPending /\ engineStatus = "clear"
        /\ UNCHANGED <<isReqPending, run>>
    BY <1>16, <1>r DEF HwFinish, HwError, Running
  <2>2. intEnabled
    BY <1>r, <2>1 DEF Interrupting, Sound, Closing
  <2>3. "clear" \notin HwErrors
    BY DEF Calm, ExpectedZero
  <2>4. engineStatus' # "clear" /\ msi'
    BY <1>16, <2>1, <2>2, <2>3 DEF HwFinish, HwError, RaiseStatus
  <2>5. QED
    BY <2>1, <2>4 DEF Answering
<1>17. CASE HwHang
  BY <1>2, <1>17 DEF HwHang, irqVars, dpcVars
<1>18. CASE FileCreate
  BY <1>18, <1>r DEF FileCreate, Calm, IInv, TypeOK, HardwareTypes
<1>19. CASE DeviceClose
  <2>1. txn = NoReq
    BY <1>19, <1>r DEF DeviceClose, IInv, HolderIsCurrent, TypeOK, RequestTypes
  <2>2. UNCHANGED <<isReqPending, run, engineStatus>>
    BY <1>19 DEF DeviceClose, hwVars
  <2>3. QED
    BY <1>1, <1>r, <2>1, <2>2
<1>20. CASE Closed \/ UNCHANGED vars
  BY <1>2, <1>20 DEF Closed, vars, hwVars, irqVars, dpcVars
<1>21. QED
  BY <1>3, <1>4, <1>5, <1>6, <1>7, <1>8, <1>9, <1>10, <1>11, <1>12, <1>13, <1>14, <1>15, <1>16,
     <1>17, <1>18, <1>19, <1>20
  DEF Next, QueueStep, QueueGoesOn, DpcIsRun, DpcGoesOn, DpcStep, ThreadStep, HwStep

LEMMA ClosingStep == ASSUME Sound, [Next]_vars PROVE Closing'
<1>t. semaphore \in Nat /\ txn \in Requests \cup {NoReq} /\ terminate \in BOOLEAN
  BY DEF Sound, IInv, TypeOK, ThreadTypes, RequestTypes
<1> USE DEF Sound, Closing
<1>1. ASSUME UNCHANGED <<terminate, semaphore, thread, queue>>, txn' \in {txn, NoReq}
      PROVE  Closing'
  BY <1>1
<1>2. ASSUME NEW r \in Requests, Dispatch(r) \/ DispatchFails(r) PROVE Closing'
  BY <1>2 DEF Dispatch, DispatchFails, Presents, signalVars, threadVars
<1>3. CASE QueueGoesOn
  BY <1>t, <1>3 DEF QueueGoesOn, QueueProgram, QueueStart, WakeThread, signalVars, threadVars
<1>4. CASE ThreadWakes
  BY <1>t, <1>4 DEF ThreadWakes, txnVars
<1>5. CASE \/ ThreadChecksPending \/ WaitSatisfied \/ WaitTimesOut \/ AlreadyProcessed
           \/ ReallyTimedOut \/ ClearSignal
  <2>1. /\ UNCHANGED <<terminate, semaphore, queue, txn>>
        /\ thread # "exited" /\ thread' # "exited"
    BY <1>5 DEF ThreadChecksPending, WaitSatisfied, WaitTimesOut, AlreadyProcessed, ReallyTimedOut,
       ClearSignal, signalVars, txnVars
  <2>2. QED
    BY <2>1
<1>6. CASE AbortRequest
  <2>1. /\ UNCHANGED <<terminate, semaphore, queue>> /\ txn' \in {txn, NoReq}
        /\ thread # "exited" /\ thread' # "exited"
    BY <1>6 DEF AbortRequest, ReleaseAndComplete, signalVars, txnVars
  <2>2. QED
    BY <2>1
<1>7. ASSUME NEW c \in Cpus, DpcBegin(c) \/ DpcStep(c) PROVE Closing'
  <2>1. UNCHANGED <<terminate, semaphore, thread, queue>> /\ txn' \in {txn, NoReq}
    BY <1>7 DEF DpcBegin, DpcStep, SpuriousInterrupt, ProcessTransfer, DmaCompleted,
       DmaCompletedFinal, DpcProgram, DpcStart, SignalThread, CompleteRequest, ReleaseAndComplete,
       txnVars, signalVars, threadVars
  <2>2. QED
    BY <1>1, <2>1
<1>8. CASE HwStep \/ HwHang \/ Isr \/ FileCreate \/ Closed \/ UNCHANGED vars
  BY <1>1, <1>8 DEF HwStep, HwFinish, HwError, HwHang, Isr, FileCreate, Closed, vars, txnVars,
     signalVars, threadVars
<1>9. CASE DeviceClose
  <2>1. txn = NoReq
    BY <1>t, <1>9 DEF DeviceClose, IInv, HolderIsCurrent
  <2>2. QED
    BY <1>t, <1>9, <2>1 DEF DeviceClose, txnVars, threadVars
<1>10. QED
  BY <1>2, <1>3, <1>4, <1>5, <1>6, <1>7, <1>8, <1>9 DEF Next, QueueStep, DpcIsRun, DpcGoesOn,
     ThreadStep

LEMMA SoundInvariant == ASSUME Calm PROVE Spec => []Sound
<1>1. Init => Answering /\ Closing
  BY DEF Init, Answering, Closing
<1>2. Sound /\ [Next]_vars /\ (IInv /\ CalmInv)' => Sound'
  BY AnsweringStep, ClosingStep DEF Sound
<1>3. IInv /\ CalmInv /\ Answering /\ Closing => Sound
  BY DEF Sound
<1>4. QED
  BY <1>1, <1>2, <1>3, CalmInvariant, PTL DEF Spec

-----------------------------------------------------------------------------
(* The completion thread of a closed device exits *)

\* With no request to watch, the thread goes straight to its exit.
OnItsWay ==
  terminate =>
    /\ thread \notin {"timedOut", "abort"}
    /\ thread = "wait" => completionWaitSignal
    /\ ~isReqPending

LEMMA ClosingThread == Sound => OnItsWay
<1> SUFFICES ASSUME Sound, terminate PROVE OnItsWay
  BY DEF OnItsWay
<1>1. txn = NoReq /\ ~isReqPending /\ thread # "abort"
  BY DEF Sound, Closing, IInv, HolderIsCurrent, ThreadHolds
<1>2. ~run /\ active = NoJob /\ ~hung
  BY <1>1 DEF Sound, CalmInv, Running
<1>3. QED
  BY <1>1, <1>2 DEF OnItsWay, Sound, CalmInv, Watching

\* Nobody but the thread moves it, or takes from it what it waits for.
LEMMA ThreadAlone ==
  ASSUME Sound, [Next]_vars, ~ThreadStep, terminate
  PROVE  UNCHANGED <<thread, terminate, semaphore>>
<1>1. /\ txn = NoReq /\ queue = "idle" /\ ~isReqPending
      /\ semaphore \in Nat
  BY DEF Sound, Closing, IInv, HolderIsCurrent, TypeOK, ThreadTypes
<1>2. \A r \in Requests : ~Dispatch(r) /\ ~DispatchFails(r)
  BY DEF Dispatch, DispatchFails, Presents
<1>3. ASSUME NEW c \in Cpus, DpcBegin(c) \/ DpcStep(c)
      PROVE  UNCHANGED <<thread, terminate, semaphore>>
  BY <1>3 DEF DpcBegin, DpcStep, SpuriousInterrupt, ProcessTransfer, DmaCompleted,
     DmaCompletedFinal, DpcProgram, DpcStart, SignalThread, CompleteRequest, signalVars, threadVars
<1>4. CASE HwStep \/ HwHang \/ Isr \/ FileCreate \/ Closed \/ UNCHANGED vars
  BY <1>4 DEF HwStep, HwFinish, HwError, HwHang, Isr, FileCreate, Closed, vars, signalVars,
     threadVars
<1>5. ~QueueGoesOn /\ ~DeviceClose
  BY <1>1 DEF QueueGoesOn, QueueProgram, QueueStart, WakeThread, DeviceClose
<1>6. QED
  BY <1>2, <1>3, <1>4, <1>5 DEF Next, QueueStep, DpcIsRun, DpcGoesOn

ClosingAt(places) == terminate /\ thread \in places

Watched ==
  /\ [][Next]_vars /\ WF_vars(ThreadStep)
  /\ []Sound /\ []HandlersGoOn

\* Each of its steps takes the thread nearer to its exit.
LEMMA NearerExit ==
  ASSUME Sound, ThreadStep, terminate
  PROVE  /\ thread \in {"wait"} => thread' = "clear"
         /\ thread \in {"clear", "check"} => thread' = "semaphore"
         /\ thread \in {"semaphore"} => thread' = "exited"
         /\ terminate'
<1>1. OnItsWay
  BY ClosingThread
<1>2. QED
  BY <1>1 DEF OnItsWay, ThreadStep, ThreadWakes, ThreadChecksPending, WaitSatisfied, WaitTimesOut,
     AlreadyProcessed, ReallyTimedOut, AbortRequest, ClearSignal, signalVars

LEMMA ReadyToExit ==
  ASSUME Sound, terminate
  PROVE  thread \in {"wait", "clear", "check", "semaphore", "exited"}
         /\ (thread # "exited" => ThreadReady)
BY ClosingThread DEF OnItsWay, ThreadReady, Sound, IInv, TypeOK, ThreadTypes, Closing

LEMMA LeavesWait == Watched => (ClosingAt({"wait"}) ~> ClosingAt({"clear"}))
<1>1. Sound => (ClosingAt({"wait"}) => ThreadReady)
  BY ReadyToExit DEF ClosingAt
<1>2. Sound /\ ClosingAt({"wait"}) /\ [Next]_vars => ClosingAt({"wait"})' \/ ClosingAt({"clear"})'
  BY NearerExit, ThreadAlone DEF ClosingAt
<1>3. Sound /\ ClosingAt({"wait"}) /\ <<ThreadStep>>_vars => ClosingAt({"clear"})'
  BY NearerExit DEF ClosingAt
<1>4. QED
  BY <1>1, <1>2, <1>3, PTL DEF Watched, HandlersGoOn

LEMMA LeavesClear == Watched => (ClosingAt({"clear", "check"}) ~> ClosingAt({"semaphore"}))
<1>1. Sound => (ClosingAt({"clear", "check"}) => ThreadReady)
  BY ReadyToExit DEF ClosingAt
<1>2. Sound /\ ClosingAt({"clear", "check"}) /\ [Next]_vars
        => ClosingAt({"clear", "check"})' \/ ClosingAt({"semaphore"})'
  BY NearerExit, ThreadAlone DEF ClosingAt
<1>3. Sound /\ ClosingAt({"clear", "check"}) /\ <<ThreadStep>>_vars => ClosingAt({"semaphore"})'
  BY NearerExit DEF ClosingAt
<1>4. QED
  BY <1>1, <1>2, <1>3, PTL DEF Watched, HandlersGoOn

LEMMA LeavesSemaphore == Watched => (ClosingAt({"semaphore"}) ~> (thread = "exited"))
<1>1. Sound => (ClosingAt({"semaphore"}) => ThreadReady)
  BY ReadyToExit DEF ClosingAt
<1>2. Sound /\ ClosingAt({"semaphore"}) /\ [Next]_vars
        => ClosingAt({"semaphore"})' \/ (thread = "exited")'
  BY NearerExit, ThreadAlone DEF ClosingAt
<1>3. Sound /\ ClosingAt({"semaphore"}) /\ <<ThreadStep>>_vars => (thread = "exited")'
  BY NearerExit DEF ClosingAt
<1>4. QED
  BY <1>1, <1>2, <1>3, PTL DEF Watched, HandlersGoOn

\* terminateThread does not wait for ever: the thread finds its wait signalled or
\* its semaphore released wherever the close finds it, and exits (as long as the
\* handlers go on, `HandlersGoOn`, which TLC checks).
THEOREM ThreadAlwaysExits == ASSUME Calm PROVE FairSpec /\ []HandlersGoOn => ThreadExits
<1>1. FairSpec /\ []HandlersGoOn => Watched
  BY SoundInvariant, PTL DEF FairSpec, Fairness, Spec, Watched
<1>2. Sound /\ terminate =>
        \/ ClosingAt({"wait"}) \/ ClosingAt({"clear", "check"}) \/ ClosingAt({"semaphore"})
        \/ thread = "exited"
  BY ReadyToExit DEF ClosingAt
<1>3. ClosingAt({"clear"}) => ClosingAt({"clear", "check"})
  BY DEF ClosingAt
<1>4. QED
  BY <1>1, <1>2, <1>3, LeavesWait, LeavesClear, LeavesSemaphore, PTL DEF Watched, ThreadExits

-----------------------------------------------------------------------------
(* Nobody waits in vain *)

\* The driver's request is in somebody's hand, and the thread waits for nobody who is
\* through with it (as long as the handlers go on, which TLC checks).
THEOREM NobodyWaitsInVain == ASSUME Calm PROVE Spec /\ []HandlersGoOn => []NeverStuck
<1>1. ASSUME Sound, NEW r \in Requests, req[r] = "driver" PROVE InHand
  <2>1. CASE isReqPending
    BY <1>1, <2>1 DEF Sound, Answering, Processing, Starting, InHand
  <2>2. CASE ~isReqPending
    BY <1>1, <2>2 DEF Sound, IInv, NeverDropped, QueueHolds, ThreadHolds, DpcHolds, InHand
  <2>3. QED
    BY <2>1, <2>2
<1>2. Sound /\ thread = "wait" /\ ~completionWaitSignal =>
        req[watch] = "driver" /\ \A c \in Cpus : dpc[c] # "complete"
  BY DEF Sound, CalmInv, Watching, IInv, HolderIsCurrent, TypeOK, RequestTypes
<1>3. Sound /\ HandlersGoOn => NeverStuck
  BY <1>1, <1>2 DEF NeverStuck
<1>4. QED
  BY <1>3, SoundInvariant, PTL

-----------------------------------------------------------------------------
(* Every request is completed while the engine answers *)

\* Whose turn it is to bring the current request forward: a DPC's, at its place; the
\* queue's; that of a queued DPC or of a message; or the engine's.
Turn ==
  IF \E c \in Cpus : dpc[c] # "idle" THEN dpc[CHOOSE c \in Cpus : dpc[c] # "idle"]
  ELSE IF queue \in {"program", "start"} THEN queue
  ELSE IF dpcQueued THEN "queued"
  ELSE IF msi THEN "message"
  ELSE "engine"

\* How many turns a part takes from there, and how many a request that is at its end.
Place == [program |-> 7, start |-> 6, engine |-> 5, message |-> 4, queued |-> 3,
          process |-> 2, ok |-> 1]
Final == [error |-> 3, signal |-> 2, complete |-> 1]

TurnsLeft ==
  IF Turn \in DOMAIN Final THEN Final[Turn]
  ELSE 7 * (Splits[txn] - split) + Place[Turn]

\* The driver owns the request r, and its completion is n turns away at most.
Owned(r, n) == req[r] = "driver" /\ TurnsLeft <= n

\* The wait has not run out.
NoTimeOut == thread \notin {"timedOut", "abort"}

\* Only one DPC at a time is not idle.
LEMMA OneDpc ==
  ASSUME Sound, NEW c \in Cpus, NEW d \in Cpus, dpc[c] # "idle", dpc[d] # "idle"
  PROVE  c = d
<1>1. /\ Processing(c) \/ Starting(c) \/ DpcHolds(c)
      /\ Processing(d) \/ Starting(d) \/ DpcHolds(d)
  BY DEF Sound, IInv, TypeOK, DpcTypes, Processing, Starting, DpcHolds
<1>2. IInv /\ Interrupting /\ Running
  BY DEF Sound, CalmInv
<1>3. ASSUME NEW e \in Cpus, Processing(e) PROVE isReqPending /\ \A b \in Cpus : ~Starting(b)
  BY <1>2, <1>3, FindsStatus
<1>4. \A e \in Cpus : DpcHolds(e) => ~isReqPending
  BY <1>2 DEF IInv, OneFinisher
<1>5. \A e \in Cpus : Starting(e) => isReqPending
  BY <1>2 DEF Running
<1>6. QED
  BY <1>1, <1>2, <1>3, <1>4, <1>5 DEF Interrupting, Running, IInv, OneFinisher

LEMMA DpcTurn == ASSUME Sound, NEW c \in Cpus, dpc[c] # "idle" PROVE Turn = dpc[c]
<1> DEFINE d == CHOOSE b \in Cpus : dpc[b] # "idle"
<1>1. d \in Cpus /\ dpc[d] # "idle"
  OBVIOUS
<1>2. d = c
  BY <1>1, OneDpc
<1>3. Turn = dpc[d]
  BY DEF Turn
<1>4. QED
  BY <1>2, <1>3

\* The turn is the DPC's, the queue's, the message's or the engine's, and there is a
\* part to be moved unless the request is at its end.
LEMMA Turns ==
  ASSUME Sound, NoTimeOut, NEW r \in Requests, req[r] = "driver"
  PROVE  /\ txn = r /\ Splits[r] \in Nat /\ split \in Nat
         /\ \/ \E c \in Cpus : dpc[c] # "idle" /\ Turn = dpc[c]
            \/ /\ \A c \in Cpus : dpc[c] = "idle"
               /\ \/ queue \in {"program", "start"} /\ Turn = queue
                  \/ /\ queue \notin {"program", "start"}
                     /\ isReqPending /\ run
                     /\ \/ dpcQueued /\ Turn = "queued"
                        \/ ~dpcQueued /\ msi /\ Turn = "message"
                        \/ ~dpcQueued /\ ~msi /\ active # NoJob /\ Turn = "engine"
         /\ Turn \notin DOMAIN Final => split < Splits[r]
<1>1. txn = r /\ Splits[r] \in Nat /\ split \in Nat
  BY MmAssumption DEF Sound, IInv, HolderIsCurrent, TypeOK, RequestTypes
<1>2. ASSUME NEW c \in Cpus, dpc[c] # "idle" PROVE Turn = dpc[c]
  BY <1>2, DpcTurn
<1>3. ASSUME \A c \in Cpus : dpc[c] = "idle"
      PROVE  \/ queue \in {"program", "start"} /\ Turn = queue
             \/ /\ queue \notin {"program", "start"}
                /\ isReqPending /\ run
                /\ \/ dpcQueued /\ Turn = "queued"
                   \/ ~dpcQueued /\ msi /\ Turn = "message"
                   \/ ~dpcQueued /\ ~msi /\ active # NoJob /\ Turn = "engine"
  <2>1. \A c \in Cpus : ~DpcHolds(c) /\ ~Starting(c) /\ ~Processing(c)
    BY <1>3 DEF DpcHolds, Starting, Processing
  <2>2. ~ThreadHolds
    BY DEF NoTimeOut, ThreadHolds
  <2>3. isReqPending \/ queue = "program"
    BY <2>1, <2>2 DEF Sound, IInv, NeverDropped, QueueHolds
  <2>4. queue \notin {"program", "start"} => isReqPending /\ run
    BY <2>1, <2>3 DEF Sound, Answering
  <2>5. run => dpcQueued \/ msi \/ active # NoJob
    BY <2>1 DEF Sound, Answering
  <2>6. QED
    BY <1>3, <2>4, <2>5 DEF Turn
<1>4. split < Splits[txn] \/ \E c \in Cpus : Ending(c)
  BY <1>1, MmAssumption DEF Sound, CalmInv, Moving
<1>5. Turn \notin DOMAIN Final => split < Splits[r]
  BY <1>1, <1>2, <1>4 DEF Ending, Final
<1>6. QED
  BY <1>1, <1>2, <1>3, <1>5

LEMMA TurnsCount ==
  ASSUME Sound, NoTimeOut, NEW r \in Requests, req[r] = "driver"
  PROVE  TurnsLeft \in Nat \ {0}
<1>1. /\ txn = r /\ Splits[r] \in Nat /\ split \in Nat
      /\ Turn \notin DOMAIN Final => split < Splits[r]
  BY Turns
<1>2. Turn \in DOMAIN Final \cup DOMAIN Place
  BY Turns DEF Final, Place, Sound, IInv, TypeOK, DpcTypes
<1>3. \A p \in DOMAIN Final : Final[p] \in 1..3
  BY DEF Final
<1>4. \A p \in DOMAIN Place : Place[p] \in 1..7
  BY DEF Place
<1>5. QED
  BY <1>1, <1>2, <1>3, <1>4 DEF TurnsLeft

LEMMA SoundStep == ASSUME Calm, Sound, [Next]_vars PROVE Sound'
BY HolderStep, InterruptingStep, RunningStep, WatchingStep, MovingStep, AnsweringStep, ClosingStep
DEF Sound, CalmInv

LEMMA DpcTurnNext == Sound' => (\A c \in Cpus : dpc[c] # "idle" => Turn = dpc[c])'
<1>1. Sound => \A c \in Cpus : dpc[c] # "idle" => Turn = dpc[c]
  BY DpcTurn
<1>2. QED
  BY <1>1, PTL

\* Before the engine is started nobody but the queue or the one DPC is at work.
LEMMA QueueAlone ==
  ASSUME Sound, queue \in {"program", "start"}
  PROVE  \A c \in Cpus : dpc[c] = "idle"
<1> SUFFICES ASSUME NEW c \in Cpus, dpc[c] # "idle" PROVE FALSE
  OBVIOUS
<1>1. Processing(c) \/ Starting(c) \/ DpcHolds(c)
  BY DEF Sound, IInv, TypeOK, DpcTypes, Processing, Starting, DpcHolds
<1>2. IInv /\ Interrupting /\ Running
  BY DEF Sound, CalmInv
<1>3. CASE queue = "program"
  <2>1. ~isReqPending /\ ~DpcHolds(c)
    BY <1>2, <1>3 DEF IInv, ProgramsOnlyWhenFree, OneFinisher, QueueHolds
  <2>2. QED
    BY <1>1, <1>2, <2>1, FindsStatus DEF Running
<1>4. CASE queue = "start"
  BY <1>1, <1>2, <1>4, FindsStatus DEF Running, IInv, OneFinisher
<1>5. QED
  BY <1>3, <1>4

\* While the engine runs it is alone with its interrupt.
LEMMA EngineAlone ==
  ASSUME Sound, run
  PROVE  /\ isReqPending /\ queue \notin {"program", "start"} /\ ~terminate
         /\ \A c \in Cpus : dpc[c] = "idle" \/ Processing(c)
<1>1. IInv /\ Running /\ Closing
  BY DEF Sound, CalmInv
<1>2. isReqPending /\ queue # "start" /\ txn # NoReq
  BY <1>1 DEF Running, IInv, HolderIsCurrent
<1>3. queue # "program" /\ \A c \in Cpus : ~DpcHolds(c) /\ ~Starting(c)
  BY <1>1, <1>2 DEF Running, IInv, ProgramsOnlyWhenFree, OneFinisher
<1>4. \A c \in Cpus : dpc[c] = "idle" \/ Processing(c) \/ Starting(c) \/ DpcHolds(c)
  BY <1>1 DEF IInv, TypeOK, DpcTypes, Processing, Starting, DpcHolds
<1>5. QED
  BY <1>1, <1>2, <1>3, <1>4 DEF Closing

\* The steps that bring a request forward.
Forward == QueueProgram \/ QueueStart \/ DpcGoesOn \/ DpcIsRun \/ Isr \/ HwStep

Fewer == TurnsLeft' \in Int /\ TurnsLeft' <= TurnsLeft - 1

LEMMA DpcBringsForward ==
  ASSUME Calm, Sound, NoTimeOut, NEW c \in Cpus, DpcStep(c), NEW r \in Requests, req[r] = "driver"
  PROVE  req'[r] # "driver" \/ Fewer
<1>1. dpc[c] # "idle"
  BY DEF DpcStep, SpuriousInterrupt, ProcessTransfer, DmaCompleted, DmaCompletedFinal, DpcProgram,
     DpcStart, SignalThread, CompleteRequest
<1>2. Turn = dpc[c] /\ \A d \in Cpus : d # c => dpc[d] = "idle"
  BY <1>1, DpcTurn, OneDpc
<1>3. /\ txn = r /\ Splits[r] \in Nat /\ split \in Nat
      /\ Turn \notin DOMAIN Final => split < Splits[r]
  BY Turns
<1>4. /\ DpcHolds(c) => request[c] = txn
      /\ dpc \in [Cpus -> {"idle", "process", "ok", "error", "program", "start", "signal",
                          "complete"}]
      /\ req \in [Requests -> {"queued", "driver"} \cup Outcomes]
      /\ status[c] # "driver"
  BY DEF Sound, IInv, HolderIsCurrent, TypeOK, DpcTypes, RequestTypes
<1>5. dpc'[c] # "idle" => Turn' = dpc'[c]
  <2>1. DpcStep(c) => DpcGoesOn
    BY DEF DpcGoesOn
  <2>2. Sound'
    BY <2>1, SoundStep DEF Next
  <2>3. QED
    BY <2>2, DpcTurnNext
<1> USE DEF Fewer, TurnsLeft, Place, Final
<1>6. CASE SpuriousInterrupt(c)
  BY <1>6, FindsStatus DEF SpuriousInterrupt, Processing, Sound, CalmInv
<1>7. CASE ProcessTransfer(c)
  <2>1. dpc[c] = "process" /\ dpc'[c] \in {"ok", "error"} /\ UNCHANGED <<txn, split>>
    BY <1>4, <1>7 DEF ProcessTransfer, txnVars
  <2>2. QED
    BY <1>2, <1>3, <1>5, <2>1
<1>8. CASE DmaCompleted(c)
  <2>1. /\ dpc[c] = "ok" /\ txn' = txn /\ split' = split + 1
        /\ dpc'[c] = IF split + 1 < Splits[r] THEN "program" ELSE "signal"
    BY <1>3, <1>4, <1>8 DEF DmaCompleted, DpcHolds
  <2>2. QED
    BY <1>2, <1>3, <1>5, <2>1
<1>9. CASE DmaCompletedFinal(c)
  <2>1. dpc[c] = "error" /\ dpc'[c] = "signal"
    BY <1>4, <1>9 DEF DmaCompletedFinal
  <2>2. QED
    BY <1>2, <1>5, <2>1
<1>10. CASE DpcProgram(c)
  <2>1. dpc[c] = "program" /\ dpc'[c] = "start" /\ UNCHANGED <<txn, split>>
    BY <1>4, <1>10 DEF DpcProgram, txnVars
  <2>2. QED
    BY <1>2, <1>3, <1>5, <2>1
<1>11. CASE DpcStart(c)
  <2>1. /\ Starting(c) /\ UNCHANGED <<txn, split, queue, dpcQueued>>
        /\ \A d \in Cpus : dpc'[d] = "idle"
    BY <1>2, <1>4, <1>11 DEF DpcStart, Starting, txnVars
  <2>2. engineStatus = "clear" /\ ~msi' /\ ~dpcQueued
    BY <1>11, <2>1, StartsPart DEF DpcStart, Sound, CalmInv, Interrupting
  <2>3. queue \notin {"program", "start"}
    BY <1>1, QueueAlone
  <2>4. Turn' = "engine"
    BY <2>1, <2>2, <2>3 DEF Turn
  <2>5. Turn = "start"
    BY <1>2, <2>1 DEF Starting
  <2>6. QED
    BY <1>3, <2>1, <2>4, <2>5
<1>12. CASE SignalThread(c)
  <2>1. dpc[c] = "signal" /\ dpc'[c] = "complete"
    BY <1>4, <1>12 DEF SignalThread
  <2>2. QED
    BY <1>2, <1>5, <2>1
<1>13. CASE CompleteRequest(c)
  <2>1. request[c] = r /\ req' = [req EXCEPT ![r] = status[c]]
    BY <1>3, <1>4, <1>13 DEF CompleteRequest, DpcHolds, ReleaseAndComplete
  <2>2. QED
    BY <1>4, <2>1
<1>14. QED
  BY <1>6, <1>7, <1>8, <1>9, <1>10, <1>11, <1>12, <1>13 DEF DpcStep

LEMMA BringsForward ==
  ASSUME Calm, Sound, NoTimeOut, Forward, NEW r \in Requests, req[r] = "driver"
  PROVE  req'[r] # "driver" \/ Fewer
<1>1. /\ txn = r /\ Splits[r] \in Nat /\ split \in Nat
      /\ Turn \notin DOMAIN Final => split < Splits[r]
  BY Turns
<1>2. IInv /\ Interrupting /\ Running /\ Closing
  BY DEF Sound, CalmInv
<1> USE DEF Fewer, TurnsLeft, Place, Final
<1>3. CASE QueueProgram
  <2>1. \A c \in Cpus : dpc[c] = "idle" /\ dpc'[c] = "idle"
    BY <1>3, QueueAlone DEF QueueProgram, dpcVars
  <2>2. Turn = "program" /\ Turn' = "start" /\ UNCHANGED <<txn, split>>
    BY <1>3, <2>1 DEF QueueProgram, Turn, txnVars
  <2>3. QED
    BY <1>1, <2>2
<1>4. CASE QueueStart
  <2>1. \A c \in Cpus : dpc[c] = "idle" /\ dpc'[c] = "idle"
    BY <1>4, QueueAlone DEF QueueStart, dpcVars
  <2>2. queue = "start" /\ queue' = "wake" /\ UNCHANGED <<txn, split, dpcQueued>>
    BY <1>4 DEF QueueStart, txnVars
  <2>3. ~msi' /\ ~dpcQueued
    BY <1>2, <1>4, StartsPart DEF QueueStart, Interrupting
  <2>4. Turn = "start" /\ Turn' = "engine"
    BY <2>1, <2>2, <2>3 DEF Turn
  <2>5. QED
    BY <1>1, <2>2, <2>4
<1>5. ASSUME NEW c \in Cpus, DpcBegin(c) PROVE Fewer
  <2>1. /\ dpcQueued /\ dpc'[c] = "process" /\ UNCHANGED <<txn, split>>
    BY <1>2, <1>5 DEF DpcBegin, txnVars, IInv, TypeOK, DpcTypes
  <2>2. run /\ \A d \in Cpus : ~Processing(d)
    BY <1>2, <2>1 DEF Interrupting, Running
  <2>3. Turn = "queued"
    BY <2>1, <2>2, EngineAlone DEF Turn
  <2>4. Sound'
    BY <1>5, SoundStep DEF Next, DpcIsRun
  <2>5. Turn' = "process"
    BY <2>1, <2>4, DpcTurnNext
  <2>6. QED
    BY <1>1, <2>1, <2>3, <2>5
<1>6. CASE Isr
  <2>1. msi /\ dpcQueued' /\ UNCHANGED <<txn, split, dpc, queue>>
    BY <1>6 DEF Isr, txnVars, dpcVars
  <2>2. run /\ ~dpcQueued /\ \A d \in Cpus : ~Processing(d)
    BY <1>2, <2>1 DEF Interrupting, Running
  <2>3. Turn = "message" /\ Turn' = "queued"
    BY <2>1, <2>2, EngineAlone DEF Turn
  <2>4. QED
    BY <1>1, <2>1, <2>3
<1>7. CASE HwStep
  <2>1. /\ active # NoJob
        /\ UNCHANGED <<txn, split, dpc, queue, dpcQueued>>
    BY <1>7 DEF HwStep, HwFinish, HwError, txnVars, dpcVars
  <2>2. run /\ engineStatus = "clear"
    BY <1>2, <2>1 DEF Running
  <2>3. ~msi /\ ~dpcQueued /\ \A d \in Cpus : ~Processing(d)
    BY <1>2, <2>2 DEF Interrupting
  <2>4. intEnabled
    BY <1>2, <2>2, <2>3, EngineAlone DEF Interrupting
  <2>5. msi'
    BY <1>7, <2>2, <2>4 DEF HwStep, HwFinish, HwError, RaiseStatus
  <2>6. Turn = "engine" /\ Turn' = "message"
    BY <2>1, <2>2, <2>3, <2>5, EngineAlone DEF Turn
  <2>7. QED
    BY <1>1, <2>1, <2>6
<1>8. QED
  BY <1>3, <1>4, <1>5, <1>6, <1>7, DpcBringsForward DEF Forward, DpcGoesOn, DpcIsRun


\* All other steps leave the request where it is.
LEMMA OthersWait ==
  ASSUME Calm, Sound, NoTimeOut, [Next]_vars, ~Forward, NEW r \in Requests, req[r] = "driver"
  PROVE  /\ UNCHANGED <<req, txn, split, dpc, dpcQueued, msi, active>>
         /\ queue = queue' \/ {queue, queue'} \cap {"program", "start"} = {}
         /\ TurnsLeft' = TurnsLeft
<1>1. \A s \in Requests : ~Dispatch(s) /\ ~DispatchFails(s)
  BY DEF Dispatch, DispatchFails, Presents
<1>2. ~DeviceClose /\ ~FileCreate /\ ~ReallyTimedOut /\ ~AbortRequest
  BY DEF DeviceClose, FileCreate, Calm, Sound, IInv, TypeOK, HardwareTypes, ReallyTimedOut,
     AbortRequest, NoTimeOut
<1>3. /\ UNCHANGED <<req, txn, split, dpc, dpcQueued, msi, active>>
      /\ queue = queue' \/ {queue, queue'} \cap {"program", "start"} = {}
  <2>1. CASE WakeThread
    BY <2>1 DEF WakeThread, txnVars, dpcVars, irqVars, hwVars
  <2>2. CASE \/ ThreadWakes \/ ThreadChecksPending \/ WaitSatisfied \/ WaitTimesOut
             \/ AlreadyProcessed \/ ClearSignal
    BY <2>2 DEF ThreadWakes, ThreadChecksPending, WaitSatisfied, WaitTimesOut, AlreadyProcessed,
       ClearSignal, txnVars, dpcVars, irqVars, hwVars
  <2>3. CASE HwHang \/ Closed \/ UNCHANGED vars
    BY <2>3 DEF HwHang, Closed, vars, txnVars, dpcVars, irqVars, hwVars
  <2>4. QED
    BY <1>1, <1>2, <2>1, <2>2, <2>3 DEF Next, Forward, QueueStep, QueueGoesOn, ThreadStep
<1>4. Turn' = Turn
  BY <1>3 DEF Turn
<1>5. QED
  BY <1>3, <1>4 DEF TurnsLeft

LEMMA OwnedForward ==
  ASSUME Calm, Sound, NoTimeOut, Forward, NEW r \in Requests, NEW n \in Nat, Owned(r, n + 1)
  PROVE  Owned(r, n)' \/ (req[r] # "driver")'
<1>1. req[r] = "driver" /\ TurnsLeft <= n + 1 /\ TurnsLeft \in Nat
  BY TurnsCount DEF Owned
<1>2. CASE Fewer
  BY <1>1, <1>2 DEF Fewer, Owned
<1>3. QED
  BY <1>1, <1>2, BringsForward

LEMMA OwnedWaits ==
  ASSUME Calm, Sound, NoTimeOut, [Next]_vars, ~Forward, NEW r \in Requests, NEW n \in Nat,
         Owned(r, n + 1)
  PROVE  /\ Owned(r, n + 1)'
         /\ UNCHANGED <<dpc, dpcQueued, msi, active>>
         /\ queue \in {"program", "start"} => queue' = queue
BY OthersWait DEF Owned

\* What is assumed of the behaviours to come.
Live ==
  /\ [][Next]_vars
  /\ WF_vars(QueueGoesOn) /\ WF_vars(HwStep) /\ WF_vars(Isr) /\ WF_vars(DpcIsRun)
  /\ WF_vars(DpcGoesOn)
  /\ []Sound /\ []NoTimeOut /\ []~hung /\ []HandlersGoOn

\* The turns are taken: the queue's, a DPC's, that of a queued DPC, of a message and
\* of the engine.
Reached(r, n)      == Owned(r, n) \/ req[r] # "driver"
AtQueue(r, n)      == Owned(r, n + 1) /\ queue \in {"program", "start"}
AtDpc(r, n)        == Owned(r, n + 1) /\ \E c \in Cpus : dpc[c] # "idle"
AtQueued(r, n)     == Owned(r, n + 1) /\ dpcQueued
AtMessage(r, n)    == Owned(r, n + 1) /\ msi
AtEngine(r, n)     == Owned(r, n + 1) /\ active # NoJob

LEMMA QueueTakesTurn ==
  ASSUME Calm, NEW r \in Requests, NEW n \in Nat
  PROVE  Live => (AtQueue(r, n) ~> Reached(r, n))
<1>1. AtQueue(r, n) => queue # "idle"
  BY DEF AtQueue
<1>2. Sound /\ NoTimeOut /\ AtQueue(r, n) /\ [Next]_vars => AtQueue(r, n)' \/ Reached(r, n)'
  BY OwnedForward, OwnedWaits DEF AtQueue, Reached
<1>3. Sound /\ NoTimeOut /\ AtQueue(r, n) /\ <<QueueGoesOn>>_vars => Reached(r, n)'
  BY OwnedForward DEF AtQueue, Reached, QueueGoesOn, WakeThread, Forward
<1>4. QED
  BY <1>1, <1>2, <1>3, PTL DEF Live, HandlersGoOn

LEMMA DpcTakesTurn ==
  ASSUME Calm, NEW r \in Requests, NEW n \in Nat
  PROVE  Live => (AtDpc(r, n) ~> Reached(r, n))
<1>1. AtDpc(r, n) => \E c \in Cpus : dpc[c] # "idle"
  BY DEF AtDpc
<1>2. Sound /\ NoTimeOut /\ AtDpc(r, n) /\ [Next]_vars => AtDpc(r, n)' \/ Reached(r, n)'
  BY OwnedForward, OwnedWaits DEF AtDpc, Reached
<1>3. Sound /\ NoTimeOut /\ AtDpc(r, n) /\ <<DpcGoesOn>>_vars => Reached(r, n)'
  BY OwnedForward DEF AtDpc, Reached, Forward
<1>4. QED
  BY <1>1, <1>2, <1>3, PTL DEF Live, HandlersGoOn

LEMMA QueuedTakesTurn ==
  ASSUME Calm, Cpus # {}, NEW r \in Requests, NEW n \in Nat
  PROVE  Live => (AtQueued(r, n) ~> Reached(r, n))
<1>1. Sound => (AtQueued(r, n) => dpcQueued /\ \E c \in Cpus : dpc[c] = "idle")
  <2> SUFFICES ASSUME Sound, dpcQueued PROVE \E c \in Cpus : dpc[c] = "idle"
    BY DEF AtQueued
  <2>1. run /\ \A c \in Cpus : ~Processing(c)
    BY DEF Sound, CalmInv, Interrupting, Running
  <2>2. QED
    BY <2>1, EngineAlone
<1>2. Sound /\ NoTimeOut /\ AtQueued(r, n) /\ [Next]_vars => AtQueued(r, n)' \/ Reached(r, n)'
  BY OwnedForward, OwnedWaits DEF AtQueued, Reached
<1>3. Sound /\ NoTimeOut /\ AtQueued(r, n) /\ <<DpcIsRun>>_vars => Reached(r, n)'
  BY OwnedForward DEF AtQueued, Reached, Forward
<1>4. QED
  BY <1>1, <1>2, <1>3, PTL DEF Live, HandlersGoOn

LEMMA MessageTakesTurn ==
  ASSUME Calm, NEW r \in Requests, NEW n \in Nat
  PROVE  Live => (AtMessage(r, n) ~> Reached(r, n))
<1>1. AtMessage(r, n) => msi
  BY DEF AtMessage
<1>2. Sound /\ NoTimeOut /\ AtMessage(r, n) /\ [Next]_vars => AtMessage(r, n)' \/ Reached(r, n)'
  BY OwnedForward, OwnedWaits DEF AtMessage, Reached
<1>3. Sound /\ NoTimeOut /\ AtMessage(r, n) /\ <<Isr>>_vars => Reached(r, n)'
  BY OwnedForward DEF AtMessage, Reached, Forward
<1>4. QED
  BY <1>1, <1>2, <1>3, PTL DEF Live, HandlersGoOn

LEMMA EngineTakesTurn ==
  ASSUME Calm, NEW r \in Requests, NEW n \in Nat
  PROVE  Live => (AtEngine(r, n) ~> Reached(r, n))
<1>1. AtEngine(r, n) => active # NoJob
  BY DEF AtEngine
<1>2. Sound /\ NoTimeOut /\ AtEngine(r, n) /\ [Next]_vars => AtEngine(r, n)' \/ Reached(r, n)'
  BY OwnedForward, OwnedWaits DEF AtEngine, Reached
<1>3. Sound /\ NoTimeOut /\ AtEngine(r, n) /\ <<HwStep>>_vars => Reached(r, n)'
  BY OwnedForward DEF AtEngine, Reached, Forward
<1>4. QED
  BY <1>1, <1>2, <1>3, PTL DEF Live, HandlersGoOn

\* Somebody takes the turn.
LEMMA TurnIsTaken ==
  ASSUME Calm, Cpus # {}, NEW r \in Requests, NEW n \in Nat
  PROVE  Live => (Owned(r, n + 1) ~> Reached(r, n))
<1>1. Sound /\ NoTimeOut /\ Owned(r, n + 1) =>
        AtQueue(r, n) \/ AtDpc(r, n) \/ AtQueued(r, n) \/ AtMessage(r, n) \/ AtEngine(r, n)
  BY Turns DEF Owned, AtQueue, AtDpc, AtQueued, AtMessage, AtEngine
<1>2. Live => [](Sound /\ NoTimeOut)
  BY PTL DEF Live
<1>3. /\ Live => (AtQueue(r, n) ~> Reached(r, n))
      /\ Live => (AtDpc(r, n) ~> Reached(r, n))
      /\ Live => (AtQueued(r, n) ~> Reached(r, n))
      /\ Live => (AtMessage(r, n) ~> Reached(r, n))
      /\ Live => (AtEngine(r, n) ~> Reached(r, n))
  BY QueueTakesTurn, DpcTakesTurn, QueuedTakesTurn, MessageTakesTurn, EngineTakesTurn
<1>4. QED
  BY <1>1, <1>2, <1>3, PTL

\* r is completed if it is n turns away at most.
CompletedWithin(r, n) == [](Live => (Owned(r, n) => <>(req[r] # "driver")))

LEMMA CompletedWithinZero == \A r \in Requests : CompletedWithin(r, 0)
<1> SUFFICES ASSUME NEW r \in Requests PROVE CompletedWithin(r, 0)
  OBVIOUS
<1>1. Sound /\ NoTimeOut => ~Owned(r, 0)
  <2> SUFFICES ASSUME Sound, NoTimeOut, Owned(r, 0) PROVE FALSE
    OBVIOUS
  <2>1. TurnsLeft \in Nat \ {0}
    BY TurnsCount DEF Owned
  <2>2. QED
    BY <2>1 DEF Owned
<1>2. QED
  BY <1>1, PTL DEF CompletedWithin, Live

LEMMA CompletedWithinNext ==
  ASSUME Calm, Cpus # {}
  PROVE  \A r \in Requests, n \in Nat : CompletedWithin(r, n) => CompletedWithin(r, n + 1)
<1> SUFFICES ASSUME NEW r \in Requests, NEW n \in Nat
             PROVE  CompletedWithin(r, n) => CompletedWithin(r, n + 1)
  OBVIOUS
<1>1. Live => (Owned(r, n + 1) ~> Reached(r, n))
  BY TurnIsTaken
<1>2. Reached(r, n) => Owned(r, n) \/ req[r] # "driver"
  BY DEF Reached
<1>3. Live => []Live
  BY PTL DEF Live
<1>4. QED
  BY <1>1, <1>2, <1>3, PTL DEF CompletedWithin

LEMMA CompletedWithinAny ==
  ASSUME Calm, Cpus # {}
  PROVE  \A r \in Requests, n \in Nat : CompletedWithin(r, n)
<1> SUFFICES ASSUME NEW r \in Requests PROVE \A n \in Nat : CompletedWithin(r, n)
  OBVIOUS
<1>1. \E f : (Shown(f) <=> Shown([n \in Nat |-> CompletedWithin(r, n)]))
             /\ \A n \in Nat : f[n] <=> CompletedWithin(r, n)
  BY SMT
<1>2. PICK f : \A n \in Nat : f[n] <=> CompletedWithin(r, n)
  BY <1>1
<1>3. f[0] /\ \A n \in Nat : f[n] => f[n + 1]
  BY <1>2, CompletedWithinZero, CompletedWithinNext
<1>4. QED
  BY <1>2, <1>3, InductionRule

LEMMA OwnedIsCompleted ==
  ASSUME Calm, Cpus # {}, NEW r \in Requests
  PROVE  Live => (req[r] = "driver" ~> req[r] # "driver")
<1>1. \A n \in Nat : Live => (Owned(r, n) => <>(req[r] # "driver"))
  <2> SUFFICES ASSUME NEW n \in Nat PROVE Live => (Owned(r, n) => <>(req[r] # "driver"))
    OBVIOUS
  <2>1. CompletedWithin(r, n)
    BY CompletedWithinAny
  <2>2. QED
    BY <2>1, PTL DEF CompletedWithin
<1>2. Sound /\ NoTimeOut /\ req[r] = "driver" => \E n \in Nat : Owned(r, n)
  <2> SUFFICES ASSUME Sound, NoTimeOut, req[r] = "driver" PROVE \E n \in Nat : TurnsLeft <= n
    BY DEF Owned
  <2>1. TurnsLeft \in Nat \ {0}
    BY TurnsCount
  <2>2. QED
    BY <2>1
<1>3. Live => Sound /\ NoTimeOut
  BY PTL DEF Live
<1>4. Live => (req[r] = "driver" => <>(req[r] # "driver"))
  BY <1>1, <1>2, <1>3
<1>5. QED
  BY <1>4, PTL DEF Live

LEMMA NoTimeOutStep == Sound' /\ ~hung' /\ NoTimeOut /\ [Next]_vars => NoTimeOut'
<1> SUFFICES ASSUME Sound', ~hung', NoTimeOut, [Next]_vars PROVE NoTimeOut'
  OBVIOUS
<1>1. thread' # "timedOut"
  BY DEF Sound, CalmInv, Watching
<1>2. thread' = "abort" => thread \in {"timedOut", "abort"}
  <2>1. CASE ThreadStep
    BY <2>1 DEF ThreadStep, ThreadWakes, ThreadChecksPending, WaitSatisfied, WaitTimesOut,
       AlreadyProcessed, ReallyTimedOut, AbortRequest, ClearSignal
  <2>2. ASSUME NEW c \in Cpus, DpcBegin(c) \/ DpcStep(c) PROVE thread' = thread
    BY <2>2 DEF DpcBegin, DpcStep, SpuriousInterrupt, ProcessTransfer, DmaCompleted,
       DmaCompletedFinal, DpcProgram, DpcStart, SignalThread, CompleteRequest, threadVars
  <2>3. ASSUME NEW s \in Requests, Dispatch(s) \/ DispatchFails(s) PROVE thread' = thread
    BY <2>3 DEF Dispatch, DispatchFails, threadVars
  <2>4. CASE \/ QueueGoesOn \/ HwStep \/ HwHang \/ Isr \/ FileCreate \/ DeviceClose \/ Closed
             \/ UNCHANGED vars
    BY <2>4 DEF QueueGoesOn, QueueProgram, QueueStart, WakeThread, HwStep, HwFinish, HwError,
       HwHang, Isr, FileCreate, DeviceClose, Closed, vars, threadVars
  <2>5. QED
    BY <2>1, <2>2, <2>3, <2>4 DEF Next, QueueStep, DpcIsRun, DpcGoesOn
<1>3. QED
  BY <1>1, <1>2 DEF NoTimeOut

\* While the engine answers, every request is completed by its interrupts, without
\* the thread's help: every part of it takes seven turns at most, each of them is
\* somebody's, and whoever has it takes it (as long as the handlers go
\* on, `HandlersGoOn`, which TLC checks).
THEOREM AlwaysCompletesUnlessHung ==
  ASSUME Calm, Cpus # {}
  PROVE  FairSpec /\ []HandlersGoOn => CompletesUnlessHung
<1>1. Init => NoTimeOut
  BY DEF Init, NoTimeOut
<1>2. FairSpec /\ []HandlersGoOn /\ []~hung => Live
  BY <1>1, NoTimeOutStep, SoundInvariant, PTL DEF FairSpec, Fairness, Spec, Live
<1>3. Live => \A r \in Requests : (req[r] = "driver" ~> req[r] # "driver")
  BY OwnedIsCompleted
<1>4. Completes <=> \A r \in Requests : (req[r] = "driver" ~> req[r] # "driver")
  BY DEF Completes, Service!Answered
<1>5. FairSpec /\ []HandlersGoOn /\ []~hung => Completes
  BY <1>2, <1>3, <1>4
<1>6. QED
  BY <1>5, PTL DEF CompletesUnlessHung
=============================================================================

-------------------------- MODULE PollEngineProofs --------------------------
(***************************************************************************)
(* What holds of PollEngine for every set of requests, every way of        *)
(* splitting them into chains of descriptors, every request and page size, *)
(* and every place of the descriptor buffer.                               *)
(***************************************************************************)
EXTENDS PollEngine, DescriptorsProofs

\* The queue's callback only programs a part there is.
ProgramsAPart == pc = "program" => split < Len(Lists[txn])

\* The callback's part of the inductive invariant.
Control ==
  DriverTypes /\ AnsweredBeforeReturn /\ PendingWhilePolled /\ ProgramsAPart

\* A part of a request has a list of 1 to Capacity descriptors.
LEMMA ListLengths ==
  \A r \in Requests :
    /\ Len(Lists[r]) \in Nat \ {0}
    /\ \A i \in Nat : i < Len(Lists[r]) => Lists[r][i + 1] \in 1..Capacity
<1> SUFFICES ASSUME NEW r \in Requests
             PROVE /\ Len(Lists[r]) \in Nat \ {0}
                   /\ \A i \in Nat : i < Len(Lists[r]) => Lists[r][i + 1] \in 1..Capacity
  OBVIOUS
<1>1. Lists[r] \in Seq(1..Capacity) /\ Lists[r] # << >>
  BY ListsAssumption
<1>2. Len(Lists[r]) \in Nat /\ \A k \in 1..Len(Lists[r]) : Lists[r][k] \in 1..Capacity
  <2>1. \A S, q : q \in Seq(S) => Len(q) \in Nat /\ \A k \in 1..Len(q) : q[k] \in S
    OBVIOUS
  <2>2. QED
    BY <1>1, <2>1
<1>3. Len(Lists[r]) # 0
  BY <1>1
<1>4. \A i \in Nat : i < Len(Lists[r]) => i + 1 \in 1..Len(Lists[r])
  BY <1>2
<1>5. QED
  BY <1>2, <1>3, <1>4

LEMMA ControlInit == Init => Control
<1> SUFFICES ASSUME Init PROVE Control
  OBVIOUS
<1> USE DEF Init
<1>1. DriverTypes
  <2>1. req \in [Requests -> {"queued", "driver"} \cup Outcomes]
    OBVIOUS
  <2>2. numDescriptors \in 1..Capacity
    BY PollAssumption
  <2>3. QED
    BY <2>1, <2>2 DEF DriverTypes
<1>2. AnsweredBeforeReturn /\ PendingWhilePolled /\ ProgramsAPart
  BY DEF AnsweredBeforeReturn, Busy, PendingWhilePolled, ProgramsAPart
<1>3. QED
  BY <1>1, <1>2 DEF Control

LEMMA ControlStep == Control /\ [Next]_vars => Control'
<1> SUFFICES ASSUME Control, [Next]_vars PROVE Control'
  OBVIOUS
<1> USE PollAssumption
    DEF Control, DriverTypes, AnsweredBeforeReturn, Busy, PendingWhilePolled, ProgramsAPart,
        Outcomes, driverVars, txnVars
<1>1. ASSUME NEW r \in Requests, Dispatch(r) PROVE Control'
  BY <1>1, ListLengths DEF Dispatch, Presents
<1>2. ASSUME NEW r \in Requests, DispatchFails(r) PROVE Control'
  BY <1>2 DEF DispatchFails, Presents, ReleaseAndComplete
<1>3. CASE Program
  <2>1. txn \in Requests /\ Lists[txn][split + 1] \in 1..Capacity
    BY <1>3, ListLengths DEF Program
  <2>2. QED
    BY <1>3, <2>1 DEF Program
<1>4. CASE Start
  BY <1>4 DEF Start
<1>5. CASE PollError
  BY <1>5 DEF PollError
<1>6. CASE PollTimesOut
  BY <1>6 DEF PollTimesOut
<1>7. CASE PollDone
  BY <1>7 DEF PollDone
<1>8. CASE ProcessTransfer
  BY <1>8 DEF ProcessTransfer
<1>9. CASE DmaCompleted
  BY <1>9, ListLengths DEF DmaCompleted
<1>10. CASE Complete
  BY <1>10 DEF Complete, ReleaseAndComplete
<1>11. CASE ErrExit
  BY <1>11 DEF ErrExit, ReleaseAndComplete
<1>12. CASE HwFetch
  BY <1>12 DEF HwFetch
<1>13. CASE HwError
  BY <1>13 DEF HwError
<1>14. CASE HwHang
  BY <1>14 DEF HwHang
<1>15. CASE UNCHANGED vars
  BY <1>15 DEF vars
<1>16. QED
  BY <1>1, <1>2, <1>3, <1>4, <1>5, <1>6, <1>7, <1>8, <1>9, <1>10, <1>11, <1>12, <1>13,
     <1>14, <1>15 DEF Next, CallbackStep

\* The callback's invariant holds throughout.
THEOREM CallbackInvariant == Spec => []Control
<1>1. QED
  BY ControlInit, ControlStep, PTL DEF Spec

\* The callback never returns with its request unanswered, nor answers one and
\* goes on.
THEOREM AlwaysAnsweredBeforeReturn == Spec => []AnsweredBeforeReturn
<1>1. Control => AnsweredBeforeReturn
  BY DEF Control
<1>2. QED
  BY <1>1, CallbackInvariant, PTL

\* isReqPending is up exactly while the engine is started and polled.
THEOREM AlwaysPendingWhilePolled == Spec => []PendingWhilePolled
<1>1. Control => PendingWhilePolled
  BY DEF Control
<1>2. QED
  BY <1>1, CallbackInvariant, PTL

\* No step changes the outcome of a completed request.
LEMMA OutcomeKept ==
  Control /\ [Next]_vars => \A r \in Requests : req[r] \in Outcomes => req'[r] = req[r]
<1> SUFFICES ASSUME Control, [Next]_vars, NEW r \in Requests, req[r] \in Outcomes
             PROVE req'[r] = req[r]
  OBVIOUS
<1>0. /\ req[r] \notin {"queued", "driver"} /\ (Busy => txn # r)
      /\ req \in [Requests -> {"queued", "driver"} \cup Outcomes]
  BY DEF Control, AnsweredBeforeReturn, Outcomes, DriverTypes
<1>1. ASSUME NEW q \in Requests, Dispatch(q) \/ DispatchFails(q) PROVE req'[r] = req[r]
  BY <1>0, <1>1 DEF Dispatch, DispatchFails, Presents, ReleaseAndComplete
<1>2. CASE Complete \/ ErrExit
  BY <1>0, <1>2 DEF Complete, ErrExit, ReleaseAndComplete, Busy
<1>3. CASE UNCHANGED req
  BY <1>3
<1>4. QED
  BY <1>1, <1>2, <1>3 DEF Next, CallbackStep, vars, txnVars, Program, Start, PollError,
     PollTimesOut, PollDone, ProcessTransfer, DmaCompleted, HwFetch, HwError, HwHang

\* A completed request is never completed again.
THEOREM NeverCompletedAgain == Spec => CompletedOnce
<1>1. Control /\ [Next]_vars => [\A r \in Requests : req[r] \in Outcomes => req'[r] = req[r]]_vars
  BY OutcomeKept
<1>2. QED
  BY <1>1, CallbackInvariant, PTL DEF CompletedOnce, Spec

-----------------------------------------------------------------------------
(* The type invariant *)

\* The last descriptor of the buffer, if it is one, stops the engine.
BufferEnds == descBuffer[Capacity - 1] # Zeroed => descBuffer[Capacity - 1].stop

\* A running engine is to read a descriptor of the buffer.
FetchInBuffer == fetch # Idle => fetch.next \in Indices /\ fetch.adj \in Nat

Typed == Control /\ EngineTypes /\ BufferEnds /\ FetchInBuffer

\* What the engine heeds of a block: all of it up to the last, which is the first
\* with a stop bit or the last of the block.
LEMMA HeedsUpToLast ==
  ASSUME fetch.next \in Indices, fetch.adj \in Nat
  PROVE  /\ Last \in Heeded /\ Last \in Indices
         /\ \A i \in Heeded : i <= Last
         /\ \A i \in Block : i <= Last => i \in Heeded
         /\ Stops # {} => Last \in Stops
         /\ Stops = {} => Last = fetch.next + fetch.adj \/ Last = Capacity - 1
<1> DEFINE end == fetch.next + fetch.adj
           e == IF end <= Capacity - 1 THEN end ELSE Capacity - 1
<1>1. Capacity \in Nat \ {0} /\ end \in Nat /\ e \in Nat /\ fetch.next \in Nat
  BY PollAssumption DEF Indices
<1>2. e \in Block /\ \A i \in Block : i <= e
  BY <1>1 DEF Block, Indices
<1>3. Block \subseteq Nat /\ Stops \subseteq Block /\ Heeded \subseteq Block
      /\ Block \subseteq Indices
  BY <1>1 DEF Block, Stops, Heeded, Indices
\* The greatest of what is heeded is Last.
<1>4. ASSUME NEW m \in Heeded, \A i \in Heeded : i <= m PROVE Last = m
  <2>1. m \in Nat /\ Heeded \subseteq Nat
    BY <1>3
  <2>2. Last \in Heeded /\ \A i \in Heeded : Last >= i
    BY <1>4, <2>1 DEF Last, Max
  <2>3. QED
    BY <1>4, <2>1, <2>2
<1>5. CASE Stops = {}
  <2>1. Heeded = Block
    BY <1>5 DEF Heeded
  <2>2. Last = e
    BY <1>2, <1>4, <2>1
  <2>3. QED
    BY <1>2, <1>3, <1>5, <2>1, <2>2
<1>6. CASE Stops # {}
  <2>1. PICK m \in Stops : \A i \in Stops : m <= i
    <3>1. Stops \subseteq Nat
      BY <1>3
    <3>2. QED
      BY <1>6, <3>1, LeastNumber
  <2>2. m \in Heeded /\ \A i \in Heeded : i <= m
    BY <1>3, <2>1 DEF Heeded
  <2>3. Last = m
    BY <1>4, <2>2
  <2>4. \A i \in Block : i <= m => i \in Heeded
    BY <1>3, <2>1 DEF Heeded
  <2>5. QED
    BY <1>3, <1>6, <2>1, <2>2, <2>3, <2>4
<1>7. QED
  BY <1>5, <1>6

\* The cleared buffers have their types.
LEMMA ZeroedTyped ==
  /\ NoCount \in [count : 0..Capacity, err : BOOLEAN]
  /\ Idle \in [next : 0..Capacity, adj : Nat \cup {-1}]
BY PollAssumption DEF NoCount, Idle

\* The descriptors of a chain have their type.
LEMMA ChainTyped ==
  ASSUME NEW r \in Requests, NEW j \in Nat, NEW n \in 1..Capacity, NEW first \in Nat,
         NEW i \in Nat, i < n
  PROVE  Descriptor(<<r, j>>, n, first, i) \in Described
<1>1. n \in Nat \ {0}
  BY PollAssumption
<1>2. NextAdj(n, first, i) \in Nat
  BY <1>1, NextAdjTyped
<1>3. <<<<r, j>>, i>> \in Parts \X Nat
  BY DEF Parts
<1>4. QED
  BY <1>2, <1>3 DEF Descriptor, Described

LEMMA TypedInit == Init => Typed
<1> SUFFICES ASSUME Init PROVE Typed
  OBVIOUS
<1>1. Control
  BY ControlInit
<1>2. EngineTypes
  BY ZeroedTyped DEF Init, EngineTypes
<1>3. BufferEnds /\ FetchInBuffer
  BY PollAssumption DEF Init, BufferEnds, FetchInBuffer, Indices
<1>4. QED
  BY <1>1, <1>2, <1>3 DEF Typed

\* The engine's steps keep the types.
LEMMA TypedFetch ==
  ASSUME Typed, HwFetch
  PROVE  EngineTypes' /\ BufferEnds' /\ FetchInBuffer'
<1>1. fetch # Idle /\ fetch.next \in Indices /\ fetch.adj \in Nat
  BY DEF HwFetch, Moving, Typed, FetchInBuffer
<1>2. Last \in Heeded /\ Last \in Indices /\ Heeded \subseteq Indices /\ Capacity \in Nat
  BY <1>1, HeedsUpToLast, PollAssumption DEF Heeded, Block
<1>3. descBuffer \in [Indices -> Described \cup {Zeroed}]
  BY DEF Typed, EngineTypes
<1>4. moved' \subseteq Parts \X Nat
  <2>1. \A i \in Heeded : descBuffer[i] # Zeroed => descBuffer[i].data \in Parts \X Nat
    BY <1>2, <1>3 DEF Described
  <2>2. QED
    BY <2>1 DEF HwFetch, Typed, EngineTypes
<1>5. /\ UNCHANGED <<bufferVars, run, hung>>
      /\ firstDesc' = firstDesc /\ firstDescAdj' = firstDescAdj /\ descBuffer' = descBuffer
  BY DEF HwFetch, bufferVars
<1>6. CASE Fail
  BY <1>4, <1>5, <1>6, <1>1, ZeroedTyped
     DEF Fail, Typed, EngineTypes, BufferEnds, FetchInBuffer, Idle, Indices
<1>7. CASE /\ \A i \in Heeded : descBuffer[i] # Zeroed
           /\ Stops # {}
           /\ fetch' = Idle
           /\ engineStatus' = "completed"
           /\ writeBack' = [count |-> Last + 1, err |-> FALSE]
  <2>1. Last + 1 \in 0..Capacity
    BY <1>2 DEF Indices
  <2>2. QED
    BY <2>1, <1>4, <1>5, <1>7, ZeroedTyped
       DEF Typed, EngineTypes, BufferEnds, FetchInBuffer
<1>8. CASE /\ \A i \in Heeded : descBuffer[i] # Zeroed
           /\ Stops = {}
           /\ fetch' = [next |-> Last + 1, adj |-> descBuffer[Last].nextAdj]
           /\ UNCHANGED <<engineStatus, writeBack>>
  <2>1. descBuffer[Last] \in Described /\ ~descBuffer[Last].stop
    <3>1. Last \notin Stops /\ Last \in Block
      BY <1>2, <1>8 DEF Heeded
    <3>2. QED
      BY <3>1, <1>2, <1>3, <1>8 DEF Stops
  <2>2. descBuffer[Last].nextAdj \in Nat
    BY <2>1 DEF Described
  <2>3. Last # Capacity - 1
    BY <2>1, <1>2, <1>8 DEF Typed, BufferEnds
  <2>4. Last + 1 \in Indices /\ Last + 1 \in 0..Capacity
    BY <1>2, <2>3 DEF Indices
  <2>5. fetch' \in [next : 0..Capacity, adj : Nat \cup {-1}]
    BY <1>8, <2>2, <2>4
  <2>6. QED
    BY <1>4, <1>5, <1>8, <2>2, <2>4, <2>5
       DEF Typed, EngineTypes, BufferEnds, FetchInBuffer
<1>9. QED
  BY <1>6, <1>7, <1>8 DEF HwFetch

LEMMA TypedStep == Typed /\ [Next]_vars => Typed'
<1> SUFFICES ASSUME Typed, [Next]_vars PROVE EngineTypes' /\ BufferEnds' /\ FetchInBuffer'
  BY ControlStep DEF Typed
<1> USE DEF Typed, EngineTypes, BufferEnds, FetchInBuffer
<1>e. ASSUME UNCHANGED <<bufferVars, writeBack, hwVars, moved>>
      PROVE  EngineTypes' /\ BufferEnds' /\ FetchInBuffer'
  BY <1>e DEF bufferVars, hwVars
<1>1. CASE Program
  <2> DEFINE n == Lists[txn][split + 1]
  <2>1. txn \in Requests /\ split \in Nat /\ n \in 1..Capacity
    BY <1>1, ListLengths
       DEF Program, Control, ProgramsAPart, AnsweredBeforeReturn, Busy, DriverTypes
  <2>2. firstDesc \in Nat /\ Capacity \in Nat \ {0} /\ n \in Nat \ {0}
    BY <2>1, PollAssumption
  <2>3. FirstAdj(n, firstDesc) \in Nat
    BY <2>2, FirstRead
  <2>4. \A i \in Indices : i < n => Descriptor(<<txn, split>>, n, firstDesc, i) \in Described
    BY <2>1, <2>2, ChainTyped DEF Indices
  <2>5. /\ descBuffer' = [i \in Indices |->
               IF i < n THEN Descriptor(<<txn, split>>, n, firstDesc, i) ELSE descBuffer[i]]
        /\ firstDescAdj' = FirstAdj(n, firstDesc)
        /\ UNCHANGED <<firstDesc, writeBack, hwVars, moved>>
    BY <1>1 DEF Program
  <2>6. descBuffer' \in [Indices -> Described \cup {Zeroed}]
    <3> HIDE DEF n
    <3>1. QED
      BY <2>4, <2>5
  <2>7. BufferEnds'
    <3>1. CASE Capacity - 1 < n
      <4>1. Capacity - 1 = n - 1 /\ Capacity - 1 \in Indices
        BY SMTT(30), <3>1, <2>1, <2>2 DEF Indices
      <4>2. descBuffer'[Capacity - 1].stop
        BY <3>1, <4>1, <2>5 DEF Descriptor
      <4>3. QED
        BY <4>2
    <3>2. CASE ~(Capacity - 1 < n)
      <4>1. Capacity - 1 \in Indices
        BY <2>2 DEF Indices
      <4>2. descBuffer'[Capacity - 1] = descBuffer[Capacity - 1]
        BY <3>2, <4>1, <2>5
      <4>3. QED
        BY <4>2
    <3>3. QED
      BY <3>1, <3>2
  <2>8. QED
    BY <2>3, <2>5, <2>6, <2>7 DEF hwVars
<1>2. CASE Start
  <2>1. 0 \in Indices /\ 0 \in 0..Capacity
    BY PollAssumption DEF Indices
  <2>2. QED
    BY <1>2, <2>1 DEF Start, bufferVars
<1>3. CASE ProcessTransfer
  <2>1. /\ descBuffer' = [i \in Indices |-> Zeroed] /\ writeBack' = NoCount
        /\ engineStatus' = "clear" /\ run' = FALSE /\ fetch' = Idle /\ hung' = FALSE
        /\ UNCHANGED <<firstDesc, firstDescAdj, moved>>
    BY <1>3 DEF ProcessTransfer, ClearBuffers
  <2>2. descBuffer' \in [Indices -> Described \cup {Zeroed}]
    BY <2>1
  <2>3. descBuffer'[Capacity - 1] = Zeroed
    BY <2>1, PollAssumption DEF Indices
  <2>4. QED
    BY <2>1, <2>2, <2>3, ZeroedTyped
<1>4. CASE HwFetch
  BY <1>4, TypedFetch
<1>5. CASE HwError
  <2>1. fetch.next \in 0..Capacity
    BY <1>5, PollAssumption DEF HwError, Moving, Indices
  <2>2. QED
    BY <1>5, <2>1, ZeroedTyped DEF HwError, Fail, bufferVars
<1>6. CASE HwHang
  BY <1>6 DEF HwHang, bufferVars
<1>7. CASE UNCHANGED vars
  BY <1>7 DEF vars, bufferVars, hwVars
<1>8. ASSUME NEW r \in Requests, Dispatch(r) \/ DispatchFails(r)
      PROVE  EngineTypes' /\ BufferEnds' /\ FetchInBuffer'
  BY <1>8, <1>e DEF Dispatch, DispatchFails
<1>9. CASE PollError \/ PollTimesOut \/ PollDone \/ DmaCompleted \/ Complete \/ ErrExit
  BY <1>9, <1>e DEF PollError, PollTimesOut, PollDone, DmaCompleted, Complete, ErrExit
<1>10. QED
  BY <1>1, <1>2, <1>3, <1>4, <1>5, <1>6, <1>7, <1>8, <1>9 DEF Next, CallbackStep

\* Every variable keeps its type.
THEOREM TypeCorrect == Spec => []TypeOK
<1>1. Typed => TypeOK
  BY DEF Typed, TypeOK, Control
<1>2. QED
  BY TypedInit, TypedStep, <1>1, PTL DEF Spec

-----------------------------------------------------------------------------
(* What holds until a request has failed *)

\* A part is in the buffer.
Chained == pc \in {"start", "poll", "process", "errExit"}

Quiet ==
  ~run /\ fetch = Idle /\ ~hung /\ engineStatus = "clear" /\ writeBack = NoCount

\* Only a started engine runs or has written back, and only a programmed part is
\* in the buffer.
Slate ==
  /\ pc \notin {"poll", "process", "errExit"} => Quiet
  /\ ~Chained => \A i \in Indices : descBuffer[i] = Zeroed

\* The buffer holds the whole chain of the current part.
Chain ==
  Chained =>
    /\ split < Len(Lists[txn]) /\ numDescriptors = Lists[txn][split + 1]
    /\ firstDescAdj = FirstAdj(numDescriptors, firstDesc)
    /\ \A i \in 0..(numDescriptors - 1) :
         descBuffer[i] = Descriptor(<<txn, split>>, numDescriptors, firstDesc, i)

\* The engine's next read is one that the limits allow.
Reading ==
  fetch # Idle =>
    LET to == fetch.next + fetch.adj
    IN /\ WithinLimits(numDescriptors, firstDesc, fetch.next, to)
       /\ AsLongAsAllowed(numDescriptors, firstDesc, fetch.next, to)

\* An engine that has written a count back has stopped, and the transfer is
\* processed after that only.
Counted ==
  /\ ~writeBack.err /\ writeBack.count > 0 => fetch = Idle
  /\ pc = "process" => ~writeBack.err /\ writeBack.count > 0

Clean == Slate /\ Chain /\ Reading /\ Counted
CleanUntilFailure == Failed \/ Clean

\* A failed request stays failed.
LEMMA FailedStays == Control /\ [Next]_vars /\ Failed => Failed'
BY OutcomeKept DEF Failed, Outcomes

\* A descriptor of a chain is not a zeroed one.
LEMMA DescriptorNotZeroed ==
  \A q, n, first, i : Descriptor(q, n, first, i) # Zeroed
<1> SUFFICES ASSUME NEW q, NEW n, NEW first, NEW i, Descriptor(q, n, first, i) = Zeroed
             PROVE FALSE
  OBVIOUS
<1>1. Descriptor(q, n, first, i).data = <<q, i>> /\ Zeroed.data = << >>
  BY DEF Descriptor, Zeroed
<1>2. <<q, i>> # << >>
  <2>1. Len(<<q, i>>) = 2 /\ Len(<< >>) = 0
    OBVIOUS
  <2>2. QED
    BY <2>1
<1>3. QED
  BY <1>1, <1>2

\* A read of a chain within the limits is heeded whole, and holds the descriptor
\* with the stop bit if it ends the chain.
LEMMA ChainFetch ==
  ASSUME Typed, Clean, fetch # Idle
  PROVE  /\ Chained /\ pc # "start" /\ pc # "process"
         /\ fetch.next \in Nat /\ fetch.adj \in Nat /\ Last \in Nat /\ numDescriptors \in Nat
         /\ \A i \in Heeded : descBuffer[i] =
                Descriptor(<<txn, split>>, numDescriptors, firstDesc, i)
         /\ \A i : i \in Heeded <=> i \in fetch.next..Last
         /\ Stops # {} => Last = numDescriptors - 1
         /\ Stops = {} => Last < numDescriptors - 1
<1> DEFINE n == numDescriptors
           end == fetch.next + fetch.adj
<1>1. Chained /\ pc # "start" /\ pc # "process"
  BY DEF Clean, Slate, Quiet, Counted, Chained
<1>2. /\ fetch.next \in Indices /\ fetch.adj \in Nat
      /\ n \in 1..Capacity /\ Capacity \in Nat \ {0}
  BY PollAssumption DEF Typed, FetchInBuffer, Control, DriverTypes
<1>3. end <= n - 1
  BY DEF Clean, Reading, WithinLimits
<1>4. fetch.next \in Nat /\ n \in Nat /\ end \in Nat
  BY <1>2 DEF Indices
<1>5. Block = fetch.next..end
  BY <1>2, <1>3, <1>4 DEF Block, Indices
<1>6. \A i \in Block : /\ i \in 0..(n - 1)
                       /\ descBuffer[i] = Descriptor(<<txn, split>>, n, firstDesc, i)
                       /\ descBuffer[i].stop <=> i = n - 1
  <2>1. \A i \in Block : i \in 0..(n - 1)
    BY <1>3, <1>4, <1>5
  <2>2. \A i \in Block : descBuffer[i] = Descriptor(<<txn, split>>, n, firstDesc, i)
    BY <1>1, <2>1 DEF Clean, Chain
  <2>3. \A i : Descriptor(<<txn, split>>, n, firstDesc, i).stop = (i = n - 1)
    BY DEF Descriptor
  <2>4. QED
    BY <2>1, <2>2, <2>3
<1>7. /\ Last \in Heeded /\ \A i \in Heeded : i <= Last
      /\ \A i \in Block : i <= Last => i \in Heeded
      /\ Stops # {} => Last \in Stops
      /\ Stops = {} => Last = end \/ Last = Capacity - 1
  BY <1>2, HeedsUpToLast
<1>8. Heeded \subseteq Block /\ Stops \subseteq Block
  BY DEF Heeded, Stops
<1>9. Last \in Nat /\ Last <= end
  BY <1>4, <1>5, <1>7, <1>8
<1>10. \A i : i \in Heeded <=> i \in fetch.next..Last
  <2> SUFFICES ASSUME NEW i PROVE i \in Heeded <=> i \in fetch.next..Last
    OBVIOUS
  <2>1. ASSUME i \in Heeded PROVE i \in fetch.next..Last
    <3>1. i \in fetch.next..end /\ i <= Last
      BY <1>5, <1>7, <1>8, <2>1
    <3>2. QED
      BY <3>1, <1>4, <1>9
  <2>2. ASSUME i \in fetch.next..Last PROVE i \in Heeded
    <3>1. i \in fetch.next..end /\ i <= Last
      BY <1>4, <1>9, <2>2
    <3>2. QED
      BY <3>1, <1>5, <1>7
  <2>3. QED
    BY <2>1, <2>2
<1>11. Stops # {} => Last = n - 1
  BY <1>6, <1>7, <1>8 DEF Stops
<1>12. ASSUME Stops = {} PROVE Last < n - 1
  <2>1. Last # n - 1
    BY <1>6, <1>7, <1>8, <1>12 DEF Stops
  <2>2. QED
    BY <1>3, <1>4, <1>9, <2>1
<1>13. QED
  BY <1>1, <1>2, <1>4, <1>6, <1>8, <1>9, <1>10, <1>11, <1>12

LEMMA CleanInit == Init => CleanUntilFailure
BY DEF Init, CleanUntilFailure, Clean, Slate, Quiet, Chained, Chain, Reading, Counted, NoCount

\* The steps of the engine keep a clean slate.
LEMMA CleanFetch == ASSUME Typed, Clean, HwFetch PROVE Clean'
<1> DEFINE n == numDescriptors
<1>1. fetch # Idle /\ UNCHANGED <<req, txn, split, numDescriptors, pc, bufferVars, run, hung>>
  BY DEF HwFetch, Moving, txnVars, driverVars
<1>2. UNCHANGED <<descBuffer, firstDesc, firstDescAdj>>
  BY <1>1 DEF bufferVars
<1>3. pc \in {"poll", "errExit"}
  BY <1>1, ChainFetch DEF Chained
<1>4. Slate' /\ Chain'
  BY <1>1, <1>2, <1>3 DEF Clean, Slate, Chain, Chained
<1>5. CASE Fail
  BY <1>1, <1>2, <1>3, <1>4, <1>5 DEF Fail, Clean, Reading, Counted
<1>6. CASE fetch' = Idle
  BY <1>1, <1>2, <1>3, <1>4, <1>6 DEF Clean, Reading, Counted
<1>7. CASE /\ Stops = {}
           /\ fetch' = [next |-> Last + 1, adj |-> descBuffer[Last].nextAdj]
           /\ UNCHANGED <<engineStatus, writeBack>>
  <2>1. Last \in Nat /\ n \in Nat /\ Last < n - 1 /\ Last \in Heeded
    BY <1>1, <1>7, ChainFetch, HeedsUpToLast DEF Typed, FetchInBuffer
  <2>2. descBuffer[Last] = Descriptor(<<txn, split>>, n, firstDesc, Last)
    BY <1>1, <2>1, ChainFetch
  <2>3. descBuffer[Last].nextAdj = NextAdj(n, firstDesc, Last)
    BY <2>2 DEF Descriptor
  <2>4. n \in Nat \ {0} /\ Last + 1 < n /\ firstDesc \in Nat
    BY <2>1, PollAssumption DEF Typed, EngineTypes
  <2>5. /\ WithinLimits(n, firstDesc, Last + 1, Last + 1 + NextAdj(n, firstDesc, Last))
        /\ AsLongAsAllowed(n, firstDesc, Last + 1, Last + 1 + NextAdj(n, firstDesc, Last))
    BY <2>1, <2>4, NextRead
  <2>6. fetch'.next = Last + 1 /\ fetch'.adj = NextAdj(n, firstDesc, Last)
    BY <1>7, <2>3
  <2>7. Reading'
    BY <1>1, <1>2, <2>5, <2>6 DEF Reading
  <2>8. Counted'
    BY <1>1, <1>3, <1>7 DEF Clean, Counted
  <2>9. QED
    BY <1>4, <2>7, <2>8 DEF Clean
<1>8. QED
  BY <1>5, <1>6, <1>7 DEF HwFetch

LEMMA CleanStep ==
  Typed /\ CleanUntilFailure /\ [Next]_vars => CleanUntilFailure'
<1> SUFFICES ASSUME Typed, CleanUntilFailure, [Next]_vars, ~Failed' PROVE Clean'
  BY DEF CleanUntilFailure
<1>0. Clean /\ Control
  BY FailedStays DEF Typed, CleanUntilFailure
<1> USE <1>0
<1>1. ASSUME NEW r \in Requests, Dispatch(r) PROVE Clean'
  BY <1>1 DEF Dispatch, Presents, Clean, Slate, Quiet, Chained, Chain, Reading, Counted,
     driverVars, bufferVars, hwVars
<1>2. ASSUME NEW r \in Requests, DispatchFails(r) PROVE Clean'
  BY <1>2 DEF DispatchFails, Presents, Clean, Slate, Quiet, Chained, Chain, Reading, Counted,
     driverVars, bufferVars, hwVars
<1>3. CASE Program
  <2> DEFINE n == Lists[txn][split + 1]
  <2>1. txn \in Requests /\ split \in Nat /\ split < Len(Lists[txn]) /\ n \in 1..Capacity
    BY <1>3, ListLengths
       DEF Program, Control, ProgramsAPart, AnsweredBeforeReturn, Busy, DriverTypes
  <2>2. /\ descBuffer' = [i \in Indices |->
               IF i < n THEN Descriptor(<<txn, split>>, n, firstDesc, i) ELSE descBuffer[i]]
        /\ firstDescAdj' = FirstAdj(n, firstDesc) /\ numDescriptors' = n
        /\ pc = "program" /\ pc' = "start"
        /\ UNCHANGED <<txn, split, firstDesc, writeBack, run, fetch, hung, engineStatus>>
    BY <1>3 DEF Program, txnVars, hwVars
  <2>3. Slate' /\ Reading' /\ Counted'
    BY <2>2 DEF Clean, Slate, Quiet, Chained, Reading, Counted
  <2>4. \A i \in 0..(n - 1) : descBuffer'[i] = Descriptor(<<txn, split>>, n, firstDesc, i)
    <3>1. \A i \in 0..(n - 1) : i \in Indices /\ i < n
      BY <2>1, PollAssumption DEF Indices
    <3> HIDE DEF n
    <3>2. QED
      BY <2>2, <3>1
  <2>5. Chain'
    BY <2>1, <2>2, <2>4 DEF Chain
  <2>6. QED
    BY <2>3, <2>5 DEF Clean
<1>4. CASE Start
  <2>1. /\ pc = "start" /\ pc' = "poll" /\ ~run /\ fetch = Idle /\ writeBack = NoCount
        /\ fetch' = [next |-> 0, adj |-> firstDescAdj]
        /\ UNCHANGED <<txn, split, numDescriptors, descBuffer, firstDesc, firstDescAdj,
                       writeBack>>
    BY <1>4 DEF Start, Clean, Slate, Quiet, txnVars, driverVars, bufferVars
  <2>2. Slate' /\ Chain'
    BY <2>1 DEF Clean, Slate, Chained, Chain
  <2>3. numDescriptors \in Nat \ {0} /\ firstDesc \in Nat
    BY PollAssumption DEF Typed, Control, DriverTypes, EngineTypes
  <2>4. firstDescAdj = FirstAdj(numDescriptors, firstDesc)
    BY <2>1 DEF Clean, Chain, Chained
  <2>5. /\ FirstAdj(numDescriptors, firstDesc) \in Nat
        /\ WithinLimits(numDescriptors, firstDesc, 0, FirstAdj(numDescriptors, firstDesc))
        /\ AsLongAsAllowed(numDescriptors, firstDesc, 0, FirstAdj(numDescriptors, firstDesc))
    BY <2>3, FirstRead
  <2>6. fetch'.next = 0 /\ fetch'.adj = firstDescAdj /\ 0 + firstDescAdj = firstDescAdj
    BY <2>1, <2>4, <2>5
  <2>7. Reading'
    BY <2>1, <2>4, <2>5, <2>6 DEF Reading
  <2>8. Counted'
    BY <2>1 DEF Counted, NoCount
  <2>9. QED
    BY <2>2, <2>7, <2>8 DEF Clean
<1>5. CASE PollError \/ PollTimesOut
  BY <1>5 DEF PollError, PollTimesOut, Clean, Slate, Quiet, Chained, Chain, Reading, Counted,
     txnVars, bufferVars, hwVars
<1>6. CASE PollDone
  <2>1. writeBack.count > 0
    BY <1>6, PollAssumption DEF PollDone, Control, DriverTypes
  <2>2. QED
    BY <1>6, <2>1 DEF PollDone, Clean, Slate, Quiet, Chained, Chain, Reading, Counted,
       txnVars, driverVars, bufferVars, hwVars
<1>7. CASE ProcessTransfer
  BY <1>7 DEF ProcessTransfer, ClearBuffers, NoCount, Clean, Slate, Quiet, Chained, Chain,
     Reading, Counted
<1>8. CASE DmaCompleted
  BY <1>8 DEF DmaCompleted, Clean, Slate, Quiet, Chained, Chain, Reading, Counted, driverVars,
     bufferVars, hwVars
<1>9. CASE Complete
  BY <1>9 DEF Complete, ReleaseAndComplete, Clean, Slate, Quiet, Chained, Chain, Reading,
     Counted, driverVars, bufferVars, hwVars
<1>10. CASE ErrExit
  <2>1. txn \in Requests /\ req' = [req EXCEPT ![txn] = "UNSUCCESSFUL"]
        /\ req \in [Requests -> {"queued", "driver"} \cup Outcomes]
    BY <1>10 DEF ErrExit, ReleaseAndComplete, Control, AnsweredBeforeReturn, Busy, DriverTypes
  <2>2. Failed'
    BY <2>1 DEF Failed
  <2>3. QED
    BY <2>2
<1>11. CASE HwFetch
  BY <1>11, CleanFetch
<1>12. CASE HwError
  <2>1. pc \in {"poll", "errExit"}
    BY <1>12, ChainFetch DEF HwError, Moving, Chained
  <2>2. QED
    BY <1>12, <2>1 DEF HwError, Fail, Clean, Slate, Quiet, Chained, Chain, Reading, Counted,
       txnVars, driverVars, bufferVars
<1>13. CASE HwHang
  <2>1. pc \in {"poll", "errExit"}
    BY <1>13, ChainFetch DEF HwHang, Moving, Chained
  <2>2. QED
    BY <1>13, <2>1 DEF HwHang, Clean, Slate, Quiet, Chained, Chain, Reading, Counted,
       txnVars, driverVars, bufferVars
<1>14. CASE UNCHANGED vars
  BY <1>14 DEF vars, Clean, Slate, Quiet, Chained, Chain, Reading, Counted,
     txnVars, driverVars, bufferVars, hwVars
<1>15. QED
  BY <1>1, <1>2, <1>3, <1>4, <1>5, <1>6, <1>7, <1>8, <1>9, <1>10, <1>11, <1>12, <1>13,
     <1>14 DEF Next, CallbackStep

\* Until a request fails, the invariant of the engine and the buffers holds too.
THEOREM CleanInvariant == Spec => [](Typed /\ CleanUntilFailure)
<1>1. QED
  BY TypedInit, TypedStep, CleanInit, CleanStep, PTL DEF Spec

\* Until a request fails, every part begins with a stopped engine and cleared buffers.
THEOREM AlwaysCleanStart == Spec => []CleanStart
<1>1. Typed /\ CleanUntilFailure => CleanStart
  BY DEF CleanUntilFailure, Clean, Slate, Quiet, Chained, CleanStart
<1>2. QED
  BY <1>1, CleanInvariant, PTL

\* Until a request fails, every read of descriptors keeps to the limits of the
\* request size, the page and the list, and none is shorter than they demand.
THEOREM AlwaysWithinLimits == Spec => []FetchesWithinLimits
<1>1. Typed /\ CleanUntilFailure => FetchesWithinLimits
  BY DEF CleanUntilFailure, Clean, Reading, FetchesWithinLimits
<1>2. QED
  BY <1>1, CleanInvariant, PTL
-----------------------------------------------------------------------------
(* Every request is answered *)

\* Where the callback works on a part, and how far from the end of it.
Place == [program |-> 5, start |-> 4, poll |-> 3, process |-> 2, completed |-> 1]

AtPart == pc \in {"program", "start", "poll", "process", "completed"}

\* The part the callback works on is one of the request's.
WorksOnAPart == AtPart => split < Len(Lists[txn])

\* How many steps the callback takes at most until it returns.
StepsLeft == IF AtPart THEN 5 * (Len(Lists[txn]) - split) + Place[pc] ELSE 1

\* The driver owns the request r for n more steps of the callback at most.
Owned(r, n) == req[r] = "driver" /\ StepsLeft <= n

\* What is assumed of the behaviours to come.
Live ==
  /\ [][Next]_vars /\ WF_vars(CallbackStep)
  /\ []Control /\ []WorksOnAPart /\ []NeverStuck

\* r is answered if it takes n steps at most.
AnsweredWithin(r, n) == [](Live => (Owned(r, n) => <>(req[r] # "driver")))

LEMMA WorksOnAPartStep == Control /\ WorksOnAPart /\ [Next]_vars => WorksOnAPart'
<1> SUFFICES ASSUME Control, WorksOnAPart, [Next]_vars PROVE WorksOnAPart'
  OBVIOUS
<1> USE DEF Control, DriverTypes, AnsweredBeforeReturn, Busy, ProgramsAPart, WorksOnAPart, AtPart,
            driverVars, txnVars
<1>1. ASSUME NEW r \in Requests, Dispatch(r) PROVE WorksOnAPart'
  <2>1. Len(Lists[r]) \in Nat \ {0}
    BY ListLengths
  <2>2. QED
    BY <1>1, <2>1 DEF Dispatch
<1>2. ASSUME NEW r \in Requests, DispatchFails(r) PROVE WorksOnAPart'
  BY <1>2 DEF DispatchFails, Presents
<1>3. CASE CallbackStep
  BY <1>3 DEF CallbackStep, Program, Start, PollError, PollTimesOut, PollDone, ProcessTransfer,
     DmaCompleted, Complete, ErrExit
<1>4. CASE HwFetch \/ HwError \/ HwHang \/ UNCHANGED vars
  BY <1>4 DEF HwFetch, HwError, HwHang, vars
<1>5. QED
  BY <1>1, <1>2, <1>3, <1>4 DEF Next

\* While the driver owns a request there is at least one step to be taken.
LEMMA StepsCount ==
  ASSUME Control, WorksOnAPart, NEW r \in Requests, req[r] = "driver"
  PROVE  StepsLeft \in Nat \ {0}
<1>1. txn = r /\ Len(Lists[r]) \in Nat /\ split \in Nat
  BY ListLengths DEF Control, DriverTypes, AnsweredBeforeReturn
<1>2. QED
  BY <1>1 DEF StepsLeft, AtPart, Place, WorksOnAPart

\* A step of the callback brings it closer to its end, or is its end.
LEMMA CallbackCountsDown ==
  ASSUME Control, WorksOnAPart, CallbackStep, NEW r \in Requests, req[r] = "driver"
  PROVE  req'[r] # "driver" \/ (StepsLeft' \in Int /\ StepsLeft' <= StepsLeft - 1)
<1>1. /\ txn = r /\ Len(Lists[r]) \in Nat /\ split \in Nat
      /\ req \in [Requests -> {"queued", "driver"} \cup Outcomes]
  BY ListLengths DEF Control, DriverTypes, AnsweredBeforeReturn
<1> USE DEF StepsLeft, AtPart, Place, WorksOnAPart
<1>2. CASE Program \/ Start \/ PollDone
  <2>1. UNCHANGED <<txn, split>>
    BY <1>2 DEF Program, Start, PollDone, txnVars
  <2>2. CASE pc = "program" /\ pc' = "start"
    <3>1. Place[pc] = 5 /\ Place[pc'] = 4 /\ AtPart /\ AtPart'
      BY <2>2
    <3>2. QED
      BY <1>1, <2>1, <3>1
  <2>3. CASE pc = "start" /\ pc' = "poll"
    <3>1. Place[pc] = 4 /\ Place[pc'] = 3 /\ AtPart /\ AtPart'
      BY <2>3
    <3>2. QED
      BY <1>1, <2>1, <3>1
  <2>4. CASE pc = "poll" /\ pc' = "process"
    <3>1. Place[pc] = 3 /\ Place[pc'] = 2 /\ AtPart /\ AtPart'
      BY <2>4
    <3>2. QED
      BY <1>1, <2>1, <3>1
  <2>5. QED
    BY <1>2, <2>2, <2>3, <2>4 DEF Program, Start, PollDone
<1>3. CASE PollError \/ PollTimesOut \/ ProcessTransfer
  BY <1>1, <1>3 DEF PollError, PollTimesOut, ProcessTransfer, txnVars
<1>4. CASE DmaCompleted
  BY <1>1, <1>4 DEF DmaCompleted
<1>5. CASE Complete \/ ErrExit
  BY <1>1, <1>5 DEF Complete, ErrExit, ReleaseAndComplete
<1>6. QED
  BY <1>2, <1>3, <1>4, <1>5 DEF CallbackStep

\* The engine and the queue leave the callback alone.
LEMMA OthersWait ==
  ASSUME Control, [Next]_vars, ~CallbackStep, NEW r \in Requests, req[r] = "driver"
  PROVE  req'[r] = "driver" /\ StepsLeft' = StepsLeft
<1>1. Busy /\ \A s \in Requests : ~Dispatch(s) /\ ~DispatchFails(s)
  BY DEF Control, AnsweredBeforeReturn, Busy, Dispatch, DispatchFails, Presents
<1>2. UNCHANGED <<req, txn, split, pc>>
  BY <1>1 DEF Next, HwFetch, HwError, HwHang, vars, txnVars
<1>3. QED
  BY <1>2 DEF StepsLeft, AtPart

LEMMA AnsweredWithinZero == \A r \in Requests : AnsweredWithin(r, 0)
<1> SUFFICES ASSUME NEW r \in Requests PROVE AnsweredWithin(r, 0)
  OBVIOUS
<1>1. Control /\ WorksOnAPart => ~Owned(r, 0)
  <2> SUFFICES ASSUME Control, WorksOnAPart, Owned(r, 0) PROVE FALSE
    OBVIOUS
  <2>1. StepsLeft \in Nat \ {0}
    BY StepsCount DEF Owned
  <2>2. QED
    BY <2>1 DEF Owned
<1>2. QED
  BY <1>1, PTL DEF AnsweredWithin, Live

LEMMA AnsweredWithinNext ==
  \A r \in Requests, n \in Nat : AnsweredWithin(r, n) => AnsweredWithin(r, n + 1)
<1> SUFFICES ASSUME NEW r \in Requests, NEW n \in Nat
             PROVE  AnsweredWithin(r, n) => AnsweredWithin(r, n + 1)
  OBVIOUS
<1>1. Control => (Owned(r, n + 1) => Busy)
  BY DEF Control, AnsweredBeforeReturn, Owned
<1>2. Control /\ WorksOnAPart /\ Owned(r, n + 1) /\ [Next]_vars
        => Owned(r, n + 1)' \/ (req[r] # "driver")'
  <2> SUFFICES ASSUME Control, WorksOnAPart, Owned(r, n + 1), [Next]_vars, req'[r] = "driver"
               PROVE  StepsLeft' <= n + 1
    BY DEF Owned
  <2>1. req[r] = "driver" /\ StepsLeft <= n + 1
    BY DEF Owned
  <2>2. CASE CallbackStep
    <3>1. StepsLeft' \in Int /\ StepsLeft' <= StepsLeft - 1
      BY <2>1, <2>2, CallbackCountsDown
    <3>2. QED
      BY <2>1, <3>1, StepsCount
  <2>3. CASE ~CallbackStep
    BY <2>1, <2>3, OthersWait
  <2>4. QED
    BY <2>2, <2>3
<1>3. Control /\ WorksOnAPart /\ Owned(r, n + 1) /\ <<CallbackStep>>_vars
        => Owned(r, n)' \/ (req[r] # "driver")'
  <2> SUFFICES ASSUME Control, WorksOnAPart, Owned(r, n + 1), CallbackStep, req'[r] = "driver"
               PROVE  StepsLeft' <= n
    BY DEF Owned
  <2>1. req[r] = "driver" /\ StepsLeft <= n + 1
    BY DEF Owned
  <2>2. StepsLeft' \in Int /\ StepsLeft' <= StepsLeft - 1
    BY <2>1, CallbackCountsDown
  <2>3. QED
    BY <2>1, <2>2, StepsCount
<1>4. QED
  BY <1>1, <1>2, <1>3, PTL DEF AnsweredWithin, Live, NeverStuck

LEMMA AnsweredWithinAny == \A r \in Requests, n \in Nat : AnsweredWithin(r, n)
<1> SUFFICES ASSUME NEW r \in Requests PROVE \A n \in Nat : AnsweredWithin(r, n)
  OBVIOUS
<1>1. \E f : (Shown(f) <=> Shown([n \in Nat |-> AnsweredWithin(r, n)]))
             /\ \A n \in Nat : f[n] <=> AnsweredWithin(r, n)
  BY SMT
<1>2. PICK f : \A n \in Nat : f[n] <=> AnsweredWithin(r, n)
  BY <1>1
<1>3. f[0] /\ \A n \in Nat : f[n] => f[n + 1]
  BY <1>2, AnsweredWithinZero, AnsweredWithinNext
<1>4. QED
  BY <1>2, <1>3, InductionRule

LEMMA OwnedIsAnswered == ASSUME NEW r \in Requests PROVE Live => (req[r] = "driver" ~> req[r] # "driver")
<1>1. \A n \in Nat : Live => (Owned(r, n) => <>(req[r] # "driver"))
  <2> SUFFICES ASSUME NEW n \in Nat PROVE Live => (Owned(r, n) => <>(req[r] # "driver"))
    OBVIOUS
  <2>1. AnsweredWithin(r, n)
    BY AnsweredWithinAny
  <2>2. QED
    BY <2>1, PTL DEF AnsweredWithin
<1>2. Control /\ WorksOnAPart /\ req[r] = "driver" => \E n \in Nat : Owned(r, n)
  <2> SUFFICES ASSUME Control, WorksOnAPart, req[r] = "driver" PROVE \E n \in Nat : StepsLeft <= n
    BY DEF Owned
  <2>1. StepsLeft \in Nat \ {0}
    BY StepsCount
  <2>2. QED
    BY <2>1
<1>3. Live => Control /\ WorksOnAPart
  BY PTL DEF Live
<1>4. Live => (req[r] = "driver" => <>(req[r] # "driver"))
  BY <1>1, <1>2, <1>3
<1>5. QED
  BY <1>4, PTL DEF Live

\* Every request handed to the driver in poll mode is answered, however many parts
\* it has and whatever the engine does, because the callback is run on and is
\* never stuck (TLC checks NeverStuck).
THEOREM PolledAlwaysAnswered == FairSpec /\ []NeverStuck => AlwaysAnswered
<1>1. Init => WorksOnAPart
  BY DEF Init, WorksOnAPart, AtPart
<1>2. FairSpec /\ []NeverStuck => Live
  BY <1>1, WorksOnAPartStep, CallbackInvariant, PTL DEF FairSpec, Spec, Live
<1>3. Live => \A r \in Requests : (req[r] = "driver" ~> req[r] # "driver")
  BY OwnedIsAnswered
<1>4. AlwaysAnswered <=> \A r \in Requests : (req[r] = "driver" ~> req[r] # "driver")
  BY DEF AlwaysAnswered, Service!Answered
<1>5. QED
  BY <1>2, <1>3, <1>4
=============================================================================

-------------------------- MODULE FileNodesProofs --------------------------
(***************************************************************************)
(* Starts and stops of any core, and requests on any handles, keep what    *)
(* DeviceSetup and FileNodes promise.                                      *)
(***************************************************************************)
EXTENDS FileNodes, TLAPS

\* The interrupts and engines are set up, and nothing has failed.
Running == stage \in {"engines", "queues", "started"}

\* The BARs have been mapped and identified.
Identified == stage = "interrupts" \/ Running

\* What XDMA_DeviceOpen makes of what it is asked for.
Wanted == [user |-> Maximum(limit.user, MaxUser), h2c |-> Maximum(limit.h2c, MaxChannels),
           c2h |-> Maximum(limit.c2h, MaxChannels)]

\* The core has as many messages as that takes.
Vectored == device.table >= Required(Wanted) \/ device.msi >= Required(Wanted)

\* The place of an engine among those that are created, and its request bit.
Position(e) == IF e[1] = "h2c" THEN e[2] ELSE maxima.h2c + e[2]
BitOf(e)    == IF e[1] = "h2c" THEN e[2] ELSE device.h2c + e[2]

-----------------------------------------------------------------------------
(* The invariant of starts and stops *)

\* The variables that SetupTypeOK leaves out.
ProbeTypes ==
  /\ granted \in Nat /\ staleObject \in BOOLEAN
  /\ stage # "stopped" => starts > 0
  /\ probe \in [next : 0..(2 * MaxChannels), index : 0..(2 * MaxChannels)]

\* The mapped BARs are those that xdma->bar names; once identified they are all
\* there, with the control BAR where the core has it.
BarsInOrder ==
  /\ \A p \in (1..MaxStarts) \X BarIdx :
       p \in mapped <=> stage # "stopped" /\ \E i \in BarIdx : i < numBars /\ bar[i] = p
  /\ stage = "bars" => numBars <= device.bars
  /\ stage = "bars" \/ Identified => \A i \in BarIdx : i < numBars => bar[i] = <<starts, i>>
  /\ Identified =>
       /\ numBars = device.bars /\ device.config < device.bars
       /\ barIdx.config = device.config
       /\ barIdx.user = IF device.config = 1 THEN 0 ELSE NoBar
       /\ barIdx.bypass = IF device.bars - device.config = 2 THEN device.bars - 1 ELSE NoBar

\* The engines created are those before the probe, each with a live thread, and
\* a live thread is one that closeEngines will end.
EnginesInOrder ==
  /\ Running =>
       /\ maxima = Wanted /\ maxima.h2c <= device.h2c /\ maxima.c2h <= device.c2h
       /\ \A e \in Engines : e \in enabled <=> e \in Closed /\ Position(e) < probe.index
       /\ \A e \in enabled : thread[e] = "live"
  /\ stage \in {"bars", "interrupts"} => enabled = {}
  /\ stage = "engines" => probe.next = probe.index
  /\ stage \in {"queues", "started"} => probe.index = Probed
  /\ \A e \in Engines : thread[e] = "live" =>
       e \in Closed /\ stage \notin {"stopped", "bars", "interrupts"}

\* The queues created are those of this start.
QueuesInOrder ==
  /\ stage = "queues" => \A e \in enabled : Position(e) < probe.next => queue[e] = starts
  /\ stage = "started" => \A e \in enabled : queue[e] = starts

\* Request bits, vectors, interrupt objects and engines correspond.
VectorsInOrder ==
  /\ stage \in {"stopped", "bars", "interrupts"} => \A i \in Bits : channelVector[i] = 0
  /\ ~Vectored => \A i \in Bits : channelInterrupts[i] = NoObject
  /\ Running => /\ delivery = "vectors" <=> Vectored
                /\ \A e \in enabled : irqBit[e] = BitOf(e)
  /\ Running /\ Vectored => \A i \in Bits : channelVector[i] = VectorOf(i, maxima)
  /\ Running /\ Vectored /\ Enough =>
       /\ \A i \in Bits : i < Probed => channelInterrupts[i] = maxima.user + i
       /\ \A e \in enabled : irqEngine[Position(e)] = e

\* Only a stop leaves the handle of a thread or an interrupt object behind.
GoneAfterStop ==
  (\E e \in Engines : thread[e] = "gone") \/ (\E i \in Bits : channelInterrupts[i] = Released)
    => starts > IF stage = "stopped" THEN 0 ELSE 1

SetupInv ==
  /\ SetupTypeOK /\ ProbeTypes
  /\ BarsInOrder /\ EnginesInOrder /\ QueuesInOrder /\ VectorsInOrder /\ GoneAfterStop

-----------------------------------------------------------------------------
(* Types *)

LEMMA DeviceTypes ==
  ASSUME SetupTypeOK
  PROVE  /\ device.bars \in 1..MaxBars /\ device.config \in 0..MaxBars
         /\ device.h2c \in 0..MaxChannels /\ device.c2h \in 0..MaxChannels
         /\ device.table \in Nat /\ device.msi \in Nat
         /\ limit.user \in Nat /\ limit.h2c \in Nat /\ limit.c2h \in Nat
BY SetupAssumption DEF SetupTypeOK, Device, Limit

LEMMA MaximumBounds ==
  ASSUME NEW asked \in Nat, NEW most \in Nat
  PROVE  Maximum(asked, most) \in 0..most
BY DEF Maximum

LEMMA MaximaTypes ==
  ASSUME SetupTypeOK
  PROVE  /\ maxima.user \in 0..MaxUser /\ maxima.h2c \in 0..MaxChannels
         /\ maxima.c2h \in 0..MaxChannels /\ Probed \in 0..(2 * MaxChannels)
BY SetupAssumption DEF SetupTypeOK, Probed

LEMMA WantedTypes ==
  ASSUME SetupTypeOK
  PROVE  /\ Wanted \in [user : 0..MaxUser, h2c : 0..MaxChannels, c2h : 0..MaxChannels]
         /\ Wanted.user \in 0..MaxUser /\ Wanted.h2c \in 0..MaxChannels
         /\ Wanted.c2h \in 0..MaxChannels
BY DeviceTypes, MaximumBounds, SetupAssumption DEF Wanted

LEMMA ProbedEngines ==
  ASSUME SetupTypeOK, NEW n \in 0..(2 * MaxChannels), n < Probed
  PROVE  /\ EngineAt(n) \in Engines /\ EngineAt(n) \in Closed /\ Position(EngineAt(n)) = n
         /\ \A e \in Closed : Position(e) = n => e = EngineAt(n)
         /\ n \in Bits
<1>1. /\ maxima.h2c \in 0..MaxChannels /\ maxima.c2h \in 0..MaxChannels /\ MaxChannels \in Nat
      /\ Probed = maxima.h2c + maxima.c2h
  BY MaximaTypes, SetupAssumption DEF Probed
<1>2. EngineAt(n) \in Engines /\ EngineAt(n) \in Closed /\ Position(EngineAt(n)) = n
  <2>1. CASE n < maxima.h2c
    BY <1>1, <2>1 DEF EngineAt, Engines, Dirs, Closed, ChannelMax, Position
  <2>2. CASE ~(n < maxima.h2c)
    BY <1>1, <2>2 DEF EngineAt, Engines, Dirs, Closed, ChannelMax, Position
  <2>3. QED
    BY <2>1, <2>2
<1>3. ASSUME NEW e \in Closed, Position(e) = n PROVE e = EngineAt(n)
  <2>1. PICK d \in Dirs, k \in 0..(MaxChannels - 1) : e = <<d, k>>
    BY DEF Closed, Engines
  <2>2. CASE d = "h2c"
    BY <1>1, <1>3, <2>1, <2>2 DEF Closed, ChannelMax, Position, EngineAt
  <2>3. CASE d = "c2h"
    BY <1>1, <1>3, <2>1, <2>3 DEF Closed, ChannelMax, Position, EngineAt
  <2>4. QED
    BY <2>2, <2>3 DEF Dirs
<1>4. QED
  BY <1>1, <1>2, <1>3 DEF Bits

LEMMA InitTyped == SetupInit => SetupTypeOK /\ ProbeTypes
<1> SUFFICES ASSUME SetupInit PROVE SetupTypeOK /\ ProbeTypes
  OBVIOUS
<1> USE SetupAssumption
<1>1. device \in Devices /\ limit \in Limits /\ stage = "stopped" /\ starts \in 0..MaxStarts
      /\ mapped \subseteq (1..MaxStarts) \X BarIdx /\ numBars \in 0..MaxBars
  BY DEF SetupInit
<1>2. bar \in [BarIdx -> ((1..MaxStarts) \X BarIdx) \cup {Null}]
  BY DEF SetupInit
<1>3. 0 \in 0..MaxBars /\ 0 \in BarIdx
  BY DEF BarIdx
<1>4. barIdx.user \in {0, NoBar} /\ barIdx.config \in 0..MaxBars
      /\ barIdx.bypass \in BarIdx \cup {NoBar}
  BY <1>3 DEF SetupInit
<1>5. maxima \in [user : 0..MaxUser, h2c : 0..MaxChannels, c2h : 0..MaxChannels]
  BY DEF SetupInit
<1>6. channelVector \in [Bits -> 0..31] /\ channelInterrupts \in [Bits -> Nat \cup {NoObject, Released}]
      /\ irqEngine \in [Bits -> Engines \cup {NoEngine}]
  BY DEF SetupInit
<1>7. 0 \in Bits
  BY DEF Bits
<1>8. irqBit \in [Engines -> Bits] /\ thread \in [Engines -> {"none", "live", "gone"}]
      /\ queue \in [Engines -> 0..MaxStarts]
      /\ control \in [Engines -> 0..1] /\ addressMode \in [Engines -> 0..1]
  BY <1>7 DEF SetupInit
<1>9. ProbeTypes
  <2>1. 0 \in 0..(2 * MaxChannels)
    OBVIOUS
  <2>2. QED
    BY <2>1 DEF SetupInit, ProbeTypes
<1>10. QED
  BY <1>1, <1>2, <1>4, <1>5, <1>6, <1>8, <1>9 DEF SetupInit, SetupTypeOK

\* An engine that is created.
LEMMA CreatedEngine ==
  ASSUME SetupTypeOK, NEW n \in 0..(2 * MaxChannels), n < Probed,
         Probed <= device.h2c + device.c2h, maxima.h2c <= device.h2c, maxima.c2h <= device.c2h
  PROVE  LET e == EngineAt(n) IN
           /\ e[2] \in Nat /\ BitOf(e) \in Bits
           /\ e[1] = "h2c" => e[2] = n /\ n < maxima.h2c
           /\ e[1] # "h2c" => e[2] = n - maxima.h2c /\ n >= maxima.h2c /\ e[2] < maxima.c2h
<1>1. /\ maxima.h2c \in 0..MaxChannels /\ maxima.c2h \in 0..MaxChannels /\ MaxChannels \in Nat
      /\ Probed = maxima.h2c + maxima.c2h
      /\ device.h2c \in 0..MaxChannels /\ device.c2h \in 0..MaxChannels
  BY MaximaTypes, DeviceTypes, SetupAssumption DEF Probed
<1>2. CASE n < maxima.h2c
  BY <1>1, <1>2 DEF EngineAt, BitOf, Bits
<1>3. CASE ~(n < maxima.h2c)
  BY <1>1, <1>3 DEF EngineAt, BitOf, Bits
<1>4. QED
  BY <1>2, <1>3

LEMMA VectorTypes ==
  ASSUME SetupTypeOK, NEW i \in Bits
  PROVE  VectorOf(i, Wanted) \in 0..31
<1>1. /\ Wanted.user \in Nat /\ Wanted.h2c \in Nat /\ device.h2c \in Nat /\ i \in Nat
      /\ Wanted.c2h \in Nat
  BY WantedTypes, DeviceTypes, SetupAssumption DEF Bits
<1>2. \A x \in Int : x % 32 \in 0..31
  OBVIOUS
<1>3. QED
  BY <1>1, <1>2 DEF VectorOf

LEMMA ObjectTypes ==
  ASSUME SetupTypeOK, NEW i \in Bits, NEW messages \in Nat
  PROVE  InterruptObject(i, Wanted, messages) \in Nat \cup {NoObject, Released}
<1>1. Wanted.user + i \in Nat
  BY WantedTypes, SetupAssumption DEF Bits
<1>2. channelInterrupts[i] \in Nat \cup {NoObject, Released}
  BY DEF SetupTypeOK
<1>3. QED
  BY <1>1, <1>2 DEF InterruptObject

\* What SetupInterrupts does, with the maxima named.
LEMMA SetupChoices ==
  ASSUME SetupInterrupts
  PROVE  /\ maxima' = Wanted
         /\ \/ /\ Wanted.h2c > device.h2c \/ Wanted.c2h > device.c2h
               /\ stage' = "failed"
               /\ UNCHANGED <<delivery, channelVector, channelInterrupts>>
            \/ /\ ~(Wanted.h2c > device.h2c \/ Wanted.c2h > device.c2h) /\ Vectored
               /\ \E messages \in {granted, device.msi, 0} :
                    /\ SetupVectors(Wanted, messages)
                    /\ device.table >= Required(Wanted) => messages = granted
                    /\ ~(device.table >= Required(Wanted)) /\ granted > 0 => messages = device.msi
               /\ stage' \in {"engines", "failed"}
            \/ /\ ~(Wanted.h2c > device.h2c \/ Wanted.c2h > device.c2h) /\ ~Vectored
               /\ SetupSingle
               /\ stage' \in {"engines", "failed"}
BY DEF SetupInterrupts, Wanted, Vectored, NumMsixVectors, NumMsiVectors, NumIrqResources

LEMMA TypeStep ==
  ASSUME SetupInv, SetupNext \/ Release
  PROVE  SetupTypeOK' /\ ProbeTypes'
<1> USE SetupAssumption
<1> DEFINE Goal == SetupTypeOK' /\ ProbeTypes'
<1>0. SetupTypeOK /\ ProbeTypes
  BY DEF SetupInv
<1>1. ASSUME NEW n \in Grants, Prepare(n) PROVE Goal
  <2>1. /\ bar' \in [BarIdx -> ((1..MaxStarts) \X BarIdx) \cup {Null}]
        /\ starts' \in 0..MaxStarts /\ starts' > 0 /\ numBars' \in 0..MaxBars /\ granted' \in Nat
    BY <1>0, <1>1 DEF Prepare, SetupTypeOK
  <2>2. barIdx'.user \in {0, NoBar} /\ barIdx'.config \in 0..MaxBars
        /\ barIdx'.bypass \in BarIdx \cup {NoBar}
    BY <1>1 DEF Prepare
  <2>3. SetupTypeOK'
    BY <1>0, <1>1, <2>1, <2>2 DEF Prepare, SetupTypeOK, modeVars
  <2>4. ProbeTypes'
    BY <1>0, <1>1, <2>1 DEF Prepare, ProbeTypes
  <2>5. QED
    BY <2>3, <2>4
<1>2. ASSUME NEW ok \in BOOLEAN, MapBar(ok) PROVE Goal
  <2>1. numBars \in BarIdx /\ numBars + 1 \in 0..MaxBars
    <3>1. numBars \in 0..MaxBars /\ device.bars \in 1..MaxBars /\ numBars < device.bars
      BY <1>0, <1>2, DeviceTypes DEF MapBar, SetupTypeOK
    <3>2. QED
      BY <3>1 DEF BarIdx
  <2>2. starts \in 1..MaxStarts
    BY <1>0, <1>2 DEF MapBar, SetupTypeOK, ProbeTypes
  <2>3. <<starts, numBars>> \in (1..MaxStarts) \X BarIdx
    BY <2>1, <2>2
  <2>4. /\ bar' \in [BarIdx -> ((1..MaxStarts) \X BarIdx) \cup {Null}]
        /\ mapped' \subseteq (1..MaxStarts) \X BarIdx
    BY <1>0, <1>2, <2>3 DEF MapBar, SetupTypeOK
  <2>5. numBars' \in 0..MaxBars /\ stage' \in {"bars", "failed"}
    BY <1>0, <1>2, <2>1 DEF MapBar, SetupTypeOK
  <2>6. SetupTypeOK'
    BY <1>0, <1>2, <2>4, <2>5 DEF MapBar, SetupTypeOK, irqVars, engineVars, modeVars
  <2>7. ProbeTypes'
    BY <1>0, <1>2, <2>2 DEF MapBar, ProbeTypes, irqVars, engineVars
  <2>8. QED
    BY <2>6, <2>7
<1>3. CASE IdentifyBars
  <2>1. barIdx'.user \in {0, NoBar} /\ barIdx'.config \in 0..MaxBars
        /\ barIdx'.bypass \in BarIdx \cup {NoBar} /\ stage' \in {"failed", "interrupts"}
    <3>1. numBars \in 0..MaxBars /\ device.config \in 0..MaxBars /\ numBars = device.bars
          /\ device.bars \in 1..MaxBars
      BY <1>0, <1>3, DeviceTypes DEF IdentifyBars, SetupTypeOK
    <3>2. CASE device.config < numBars
      <4>1. /\ barIdx' = [user   |-> IF device.config = 1 THEN 0 ELSE NoBar,
                          config |-> device.config,
                          bypass |-> IF numBars - device.config = 2 THEN numBars - 1 ELSE NoBar]
            /\ stage' = "interrupts"
        BY <1>3, <3>1, <3>2 DEF IdentifyBars
      <4>2. QED
        BY <3>1, <4>1 DEF BarIdx, NoBar
    <3>3. CASE ~(device.config < numBars)
      <4>1. barIdx' = [barIdx EXCEPT !.config = numBars] /\ stage' = "failed"
        BY <1>3, <3>3 DEF IdentifyBars
      <4>2. QED
        BY <1>0, <3>1, <4>1 DEF SetupTypeOK, SetupInv, IdentifyBars
    <3>4. QED
      BY <3>2, <3>3
  <2>2. SetupTypeOK'
    BY <1>0, <1>3, <2>1 DEF IdentifyBars, SetupTypeOK, irqVars, engineVars, modeVars
  <2>3. ProbeTypes'
    BY <1>0, <1>3 DEF IdentifyBars, ProbeTypes, irqVars, engineVars
  <2>4. QED
    BY <2>2, <2>3
<1>4. CASE SetupInterrupts
  <2>1. maxima' = Wanted /\ stage' \in {"engines", "failed"}
    BY <1>4, SetupChoices
  <2>2. /\ delivery' \in {"none", "vectors", "single"}
        /\ channelVector' \in [Bits -> 0..31]
        /\ channelInterrupts' \in [Bits -> Nat \cup {NoObject, Released}]
    <3>1. CASE UNCHANGED <<delivery, channelVector, channelInterrupts>>
      BY <1>0, <3>1 DEF SetupTypeOK
    <3>2. ASSUME NEW messages \in {granted, device.msi, 0}, SetupVectors(Wanted, messages)
          PROVE  <2>2!1 /\ <2>2!2 /\ <2>2!3
      <4>1. messages \in Nat
        BY <1>0, DeviceTypes DEF ProbeTypes
      <4>2. QED
        BY <1>0, <3>2, <4>1, VectorTypes, ObjectTypes DEF SetupVectors
    <3>3. CASE SetupSingle
      BY <1>0, <3>3 DEF SetupSingle, SetupTypeOK
    <3>4. QED
      BY <1>4, <3>1, <3>2, <3>3, SetupChoices
  <2>3. irqEngine' \in [Bits -> Engines \cup {NoEngine}]
    BY <1>4 DEF SetupInterrupts
  <2>4. SetupTypeOK'
    BY <1>0, <1>4, <2>1, <2>2, <2>3, WantedTypes DEF SetupInterrupts, SetupTypeOK, barVars, modeVars
  <2>5. 0 \in 0..(2 * MaxChannels)
    OBVIOUS
  <2>6. ProbeTypes'
    BY <1>0, <1>4, <2>5 DEF SetupInterrupts, ProbeTypes
  <2>7. QED
    BY <2>4, <2>6
<1>5. ASSUME NEW ok \in BOOLEAN, CreateEngine(ok) PROVE Goal
  <2>1. /\ probe.next = probe.index /\ probe.next \in 0..(2 * MaxChannels) /\ probe.next < Probed
        /\ maxima.h2c <= device.h2c /\ maxima.c2h <= device.c2h
    BY <1>0, <1>5 DEF CreateEngine, SetupInv, EnginesInOrder, ProbeTypes, Running
  <2>2. Probed \in 0..(2 * MaxChannels) /\ Probed <= device.h2c + device.c2h
    BY <1>0, <2>1, MaximaTypes, DeviceTypes DEF Probed
  <2> DEFINE e == EngineAt(probe.next)
  <2>3. e \in Engines /\ e \in Closed /\ probe.next \in Bits
    BY <1>0, <2>1, ProbedEngines
  <2>4. EngineId(e) = BitOf(e) /\ BitOf(e) \in Bits
    BY <1>0, <2>1, <2>2, CreatedEngine DEF EngineId, BitOf
  <2> HIDE DEF e
  <2>5. /\ irqBit' = [irqBit EXCEPT ![e] = EngineId(e)]
        /\ irqEngine' \in {irqEngine, [irqEngine EXCEPT ![probe.index] = e]}
        /\ thread' \in {thread, [thread EXCEPT ![e] = "live"]}
        /\ enabled' \in {enabled, enabled \cup {e}}
        /\ addressMode' = [addressMode EXCEPT ![e] = control[e]]
        /\ stage' \in {"engines", "failed"} /\ staleObject' \in BOOLEAN
        /\ probe' = [next |-> probe.next + 1, index |-> probe.index + 1]
    BY <1>0, <1>5 DEF CreateEngine, TakeAddressMode, ConfigureInterrupt, InitThread, e, ProbeTypes
  <2>6. UNCHANGED <<device, limit, starts, mapped, numBars, bar, barIdx, granted, maxima, delivery,
                    channelVector, channelInterrupts, poll, queue, control>>
    BY <1>5 DEF CreateEngine, barVars
  <2>7. irqBit' \in [Engines -> Bits] /\ thread' \in [Engines -> {"none", "live", "gone"}]
    BY <1>0, <2>3, <2>4, <2>5 DEF SetupTypeOK
  <2>8. irqEngine' \in [Bits -> Engines \cup {NoEngine}] /\ enabled' \subseteq Engines
        /\ poll' \subseteq enabled'
    BY <1>0, <2>1, <2>3, <2>5, <2>6 DEF SetupTypeOK
  <2>9. addressMode' \in [Engines -> 0..1]
    BY <1>0, <2>3, <2>5 DEF SetupTypeOK
  <2>10. SetupTypeOK'
    BY <1>0, <2>5, <2>6, <2>7, <2>8, <2>9 DEF SetupTypeOK
  <2>11. ProbeTypes'
    <3>1. probe.next + 1 \in 0..(2 * MaxChannels) /\ probe.index + 1 \in 0..(2 * MaxChannels)
      BY <2>1, <2>2
    <3>2. starts > 0
      BY <1>0, <1>5 DEF ProbeTypes, CreateEngine
    <3>3. QED
      BY <1>0, <2>5, <2>6, <3>1, <3>2 DEF ProbeTypes
  <2>12. QED
    BY <2>10, <2>11
<1>6. ASSUME NEW mode \in PollModes, SetPollMode(mode) PROVE Goal
  <2>1. poll' \subseteq enabled' /\ stage' \in {"queues", "failed"} /\ enabled' = enabled
    BY <1>0, <1>6 DEF SetPollMode, SetupTypeOK
  <2>2. SetupTypeOK'
    BY <1>0, <1>6, <2>1 DEF SetPollMode, SetupTypeOK, barVars, irqVars, modeVars
  <2>3. 0 \in 0..(2 * MaxChannels)
    OBVIOUS
  <2>4. ProbeTypes'
    BY <1>0, <1>6, <2>3 DEF SetPollMode, ProbeTypes, irqVars
  <2>5. QED
    BY <2>2, <2>4
<1>7. ASSUME NEW ok \in BOOLEAN, CreateQueue(ok) PROVE Goal
  <2>1. probe.next + 1 \in 0..(2 * MaxChannels)
    BY <1>0, <1>7, MaximaTypes DEF CreateQueue, ProbeTypes
  <2>2. EngineAt(probe.next) \in Engines
    BY <1>0, <1>7, ProbedEngines DEF CreateQueue, ProbeTypes
  <2>3. queue' \in [Engines -> 0..MaxStarts] /\ stage' \in {"queues", "failed"}
    BY <1>0, <1>7, <2>2 DEF CreateQueue, SetupTypeOK
  <2>4. SetupTypeOK'
    BY <1>0, <1>7, <2>3 DEF CreateQueue, SetupTypeOK, barVars, irqVars, modeVars
  <2>5. probe' = [probe EXCEPT !.next = probe.next + 1] /\ starts > 0
    BY <1>0, <1>7 DEF CreateQueue, ProbeTypes
  <2>6. ProbeTypes'
    BY <1>0, <1>7, <2>1, <2>5 DEF CreateQueue, ProbeTypes, irqVars
  <2>7. QED
    BY <2>4, <2>6
<1>8. CASE PrepareEnds
  <2>1. SetupTypeOK'
    BY <1>0, <1>8 DEF PrepareEnds, SetupTypeOK, barVars, irqVars, engineVars, modeVars
  <2>2. ProbeTypes'
    BY <1>0, <1>8 DEF PrepareEnds, ProbeTypes, barVars, irqVars, engineVars
  <2>3. QED
    BY <2>1, <2>2
<1>9. CASE Release
  <2>1. /\ bar' \in [BarIdx -> ((1..MaxStarts) \X BarIdx) \cup {Null}]
        /\ mapped' \subseteq (1..MaxStarts) \X BarIdx
    BY <1>0, <1>9 DEF Release, SetupTypeOK
  <2>2. /\ channelVector' \in [Bits -> 0..31]
        /\ channelInterrupts' \in [Bits -> Nat \cup {NoObject, Released}]
    BY <1>0, <1>9 DEF Release, SetupTypeOK
  <2>3. thread' \in [Engines -> {"none", "live", "gone"}]
    BY <1>0, <1>9 DEF Release, CloseEngines, SetupTypeOK
  <2>4. SetupTypeOK'
    BY <1>0, <1>9, <2>1, <2>2, <2>3 DEF Release, SetupTypeOK, modeVars
  <2>5. ProbeTypes'
    BY <1>0, <1>9 DEF Release, CloseEngines, ProbeTypes
  <2>6. QED
    BY <2>4, <2>5
<1>10. QED
  BY <1>1, <1>2, <1>3, <1>4, <1>5, <1>6, <1>7, <1>8, <1>9 DEF SetupNext

-----------------------------------------------------------------------------
(* BARs *)

LEMMA BarsStep ==
  ASSUME SetupInv, SetupNext \/ Release
  PROVE  BarsInOrder'
<1>0. /\ BarsInOrder /\ numBars \in 0..MaxBars /\ MaxBars \in Nat
      /\ bar \in [BarIdx -> ((1..MaxStarts) \X BarIdx) \cup {Null}]
      /\ device.bars \in 1..MaxBars /\ device.config \in 0..MaxBars
  BY DeviceTypes, SetupAssumption DEF SetupInv, SetupTypeOK
<1>1. ASSUME NEW n \in Grants, Prepare(n) PROVE BarsInOrder'
  <2>1. stage = "stopped" /\ stage' = "bars" /\ numBars' = 0 /\ mapped' = mapped /\ device' = device
    BY <1>1 DEF Prepare
  <2>2. \A i \in BarIdx : ~(i < 0)
    BY DEF BarIdx
  <2>3. QED
    BY <1>0, <2>1, <2>2 DEF BarsInOrder, Identified, Running
<1>2. ASSUME NEW ok \in BOOLEAN, MapBar(ok) PROVE BarsInOrder'
  <2>1. /\ stage = "bars" /\ numBars < device.bars /\ numBars \in BarIdx
        /\ starts' = starts /\ device' = device
    BY <1>0, <1>2 DEF MapBar, BarIdx
  <2>2. CASE ok
    <3>1. /\ bar' = [bar EXCEPT ![numBars] = <<starts, numBars>>]
          /\ mapped' = mapped \cup {<<starts, numBars>>}
          /\ numBars' = numBars + 1 /\ stage' = "bars"
      BY <1>2, <2>1, <2>2 DEF MapBar
    <3>2. \A i \in BarIdx : i < numBars + 1 => i < numBars \/ i = numBars
      BY <1>0 DEF BarIdx
    <3>3. \A i \in BarIdx : i < numBars => i < numBars + 1 /\ i # numBars
      BY <1>0 DEF BarIdx
    <3>4. \A i \in BarIdx : bar'[i] = IF i = numBars THEN <<starts, numBars>> ELSE bar[i]
      BY <1>0, <2>1, <3>1
    <3>5. \A i \in BarIdx : i < numBars + 1 => bar'[i] = <<starts, i>>
      BY <1>0, <2>1, <3>2, <3>4 DEF BarsInOrder
    <3>6. ASSUME NEW p \in (1..MaxStarts) \X BarIdx
          PROVE  p \in mapped' <=> \E i \in BarIdx : i < numBars + 1 /\ bar'[i] = p
      <4>1. p \in mapped <=> \E i \in BarIdx : i < numBars /\ bar[i] = p
        BY <1>0, <2>1 DEF BarsInOrder
      <4>2. numBars < numBars + 1
        BY <1>0
      <4>3. QED
        BY <2>1, <3>1, <3>2, <3>3, <3>4, <4>1, <4>2
    <3>7. numBars + 1 <= device.bars
      BY <1>0, <2>1
    <3>8. QED
      BY <2>1, <3>1, <3>5, <3>6, <3>7 DEF BarsInOrder, Identified, Running
  <2>3. CASE ~ok
    <3>1. /\ bar' = [bar EXCEPT ![numBars] = Null] /\ mapped' = mapped
          /\ numBars' = numBars /\ stage' = "failed"
      BY <1>2, <2>1, <2>3 DEF MapBar
    <3>2. \A i \in BarIdx : i < numBars => bar'[i] = bar[i]
      BY <1>0, <3>1 DEF BarIdx
    <3>3. QED
      BY <1>0, <2>1, <3>1, <3>2 DEF BarsInOrder, Identified, Running
  <2>4. QED
    BY <2>2, <2>3
<1>3. CASE IdentifyBars
  <2>1. /\ stage = "bars" /\ numBars = device.bars /\ stage' \in {"failed", "interrupts"}
        /\ UNCHANGED <<device, starts, mapped, numBars, bar>>
    BY <1>3 DEF IdentifyBars
  <2>2. stage' = "interrupts" =>
          /\ device.config < device.bars
          /\ barIdx' = [user   |-> IF device.config = 1 THEN 0 ELSE NoBar,
                        config |-> device.config,
                        bypass |-> IF numBars - device.config = 2 THEN numBars - 1 ELSE NoBar]
    BY <1>0, <1>3 DEF IdentifyBars
  <2>3. QED
    BY <1>0, <2>1, <2>2 DEF BarsInOrder, Identified, Running
<1>4. ASSUME UNCHANGED <<device, starts, mapped, numBars, bar, barIdx>>,
             stage \notin {"stopped", "bars"}, stage' \notin {"stopped", "bars"},
             Identified' => Identified
      PROVE  BarsInOrder'
  BY <1>0, <1>4 DEF BarsInOrder, Identified, Running
<1>5. CASE SetupInterrupts
  <2>1. stage = "interrupts" /\ stage' \in {"engines", "failed"}
    BY <1>5, SetupChoices DEF SetupInterrupts
  <2>2. UNCHANGED <<device, starts, mapped, numBars, bar, barIdx>>
    BY <1>5 DEF SetupInterrupts, barVars
  <2>3. QED
    BY <1>4, <2>1, <2>2 DEF Identified, Running
<1>6. ASSUME NEW ok \in BOOLEAN, CreateEngine(ok) \/ CreateQueue(ok) PROVE BarsInOrder'
  <2>1. UNCHANGED <<device, starts, mapped, numBars, bar, barIdx>>
    BY <1>6 DEF CreateEngine, CreateQueue, barVars
  <2>2. stage \in {"engines", "queues"} /\ stage' \in {stage, "failed"}
    BY <1>6 DEF CreateEngine, CreateQueue
  <2>3. QED
    BY <1>4, <2>1, <2>2 DEF Identified, Running
<1>7. ASSUME NEW mode \in PollModes, SetPollMode(mode) PROVE BarsInOrder'
  <2>1. UNCHANGED <<device, starts, mapped, numBars, bar, barIdx>>
    BY <1>7 DEF SetPollMode, barVars
  <2>2. stage = "engines" /\ stage' \in {"queues", "failed"}
    BY <1>7 DEF SetPollMode
  <2>3. QED
    BY <1>4, <2>1, <2>2 DEF Identified, Running
<1>8. CASE PrepareEnds
  <2>1. UNCHANGED <<device, starts, mapped, numBars, bar, barIdx>>
    BY <1>8 DEF PrepareEnds, barVars
  <2>2. QED
    BY <1>4, <1>8, <2>1 DEF PrepareEnds, Identified, Running
<1>9. CASE Release
  <2>1. stage' = "stopped" /\ mapped' = mapped \ {bar[i] : i \in 0..(numBars - 1)}
    BY <1>9 DEF Release
  <2>2. \A i \in BarIdx : i < numBars => i \in 0..(numBars - 1)
    BY <1>0 DEF BarIdx
  <2>3. \A p \in (1..MaxStarts) \X BarIdx : p \notin mapped'
    BY <1>0, <2>1, <2>2 DEF BarsInOrder
  <2>4. QED
    BY <2>1, <2>3 DEF BarsInOrder, Identified, Running
<1>10. QED
  BY <1>1, <1>2, <1>3, <1>5, <1>6, <1>7, <1>8, <1>9 DEF SetupNext

-----------------------------------------------------------------------------
(* Engines and their threads *)

LEMMA PositionTypes ==
  ASSUME SetupTypeOK, NEW e \in Engines
  PROVE  Position(e) \in Nat /\ e[2] \in Nat
<1>1. PICK d \in Dirs, k \in 0..(MaxChannels - 1) : e = <<d, k>>
  BY DEF Engines
<1>2. maxima.h2c \in Nat /\ MaxChannels \in Nat
  BY MaximaTypes, SetupAssumption
<1>3. QED
  BY <1>1, <1>2 DEF Position

LEMMA EnginesStep ==
  ASSUME SetupInv, SetupNext \/ Release
  PROVE  EnginesInOrder'
<1>0. EnginesInOrder /\ SetupTypeOK /\ ProbeTypes /\ enabled \subseteq Engines
  BY DEF SetupInv, SetupTypeOK
<1>1. ASSUME UNCHANGED <<device, limit, maxima, thread, enabled, probe>>,
             Running' => Running, stage' \in {"stopped", "bars", "interrupts"} => stage \in {"stopped", "bars"},
             stage' \in {"bars", "interrupts"} => enabled = {},
             stage' = "engines" => stage = "engines",
             stage' \in {"queues", "started"} => probe.index = Probed
      PROVE  EnginesInOrder'
  <2>1. Wanted' = Wanted /\ Closed' = Closed /\ Probed' = Probed /\ \A e : Position(e)' = Position(e)
    BY <1>1 DEF Wanted, Closed, ChannelMax, Probed, Position
  <2>2. QED
    BY <1>0, <1>1, <2>1 DEF EnginesInOrder, Running
<1>2. ASSUME NEW n \in Grants, Prepare(n) PROVE EnginesInOrder'
  <2>1. stage = "stopped" /\ stage' = "bars" /\ enabled' = {} /\ UNCHANGED thread
    BY <1>2 DEF Prepare
  <2>2. QED
    BY <1>0, <2>1 DEF EnginesInOrder, Running
<1>3. ASSUME NEW ok \in BOOLEAN, MapBar(ok) PROVE EnginesInOrder'
  <2>1. UNCHANGED <<device, limit, maxima, thread, enabled, probe>>
    BY <1>3 DEF MapBar, irqVars, engineVars
  <2>2. stage = "bars" /\ stage' \in {"bars", "failed"}
    BY <1>3 DEF MapBar
  <2>3. QED
    BY <1>0, <1>1, <2>1, <2>2 DEF EnginesInOrder, Running
<1>4. CASE IdentifyBars
  <2>1. UNCHANGED <<device, limit, maxima, thread, enabled, probe>>
    BY <1>4 DEF IdentifyBars, irqVars, engineVars
  <2>2. stage = "bars" /\ stage' \in {"interrupts", "failed"}
    BY <1>4 DEF IdentifyBars
  <2>3. QED
    BY <1>0, <1>1, <2>1, <2>2 DEF EnginesInOrder, Running
<1>5. CASE SetupInterrupts
  <2>1. /\ stage = "interrupts" /\ stage' \in {"engines", "failed"}
        /\ probe' = [next |-> 0, index |-> 0] /\ UNCHANGED <<device, limit, thread, enabled>>
        /\ maxima' = Wanted
    BY <1>5, SetupChoices DEF SetupInterrupts
  <2>2. stage' = "engines" => Wanted.h2c <= device.h2c /\ Wanted.c2h <= device.c2h
    <3>1. /\ Wanted.h2c \in Int /\ device.h2c \in Int /\ Wanted.c2h \in Int /\ device.c2h \in Int
      BY <1>0, WantedTypes, DeviceTypes, SetupAssumption
    <3>2. stage' = "engines" => ~(Wanted.h2c > device.h2c \/ Wanted.c2h > device.c2h)
      BY <1>5, SetupChoices
    <3>3. QED
      BY <3>1, <3>2
  <2>3. Wanted' = Wanted
    BY <2>1 DEF Wanted
  <2>4. enabled' = {} /\ \A e \in Engines : thread'[e] # "live"
    BY <1>0, <2>1 DEF EnginesInOrder
  <2>5. SetupTypeOK'
    BY <1>5, TypeStep DEF SetupNext
  <2>6. \A e \in Engines : ~(Position(e)' < 0)
    <3> SUFFICES ASSUME NEW e \in Engines PROVE ~(Position(e)' < 0)
      OBVIOUS
    <3>1. PICK d \in Dirs, k \in 0..(MaxChannels - 1) : e = <<d, k>>
      BY DEF Engines
    <3>2. maxima'.h2c \in Nat /\ MaxChannels \in Nat
      BY <1>0, <2>1, WantedTypes, SetupAssumption
    <3>3. QED
      BY <3>1, <3>2 DEF Position
  <2>7. probe'.next = 0 /\ probe'.index = 0
    BY <2>1
  <2>8. QED
    BY <2>1, <2>2, <2>3, <2>4, <2>6, <2>7 DEF EnginesInOrder, Running
<1>6. ASSUME NEW ok \in BOOLEAN, CreateEngine(ok) PROVE EnginesInOrder'
  <2> DEFINE e == EngineAt(probe.next)
  <2>1. /\ stage = "engines" /\ probe.next = probe.index /\ probe.next \in 0..(2 * MaxChannels)
        /\ probe.next < Probed /\ probe' = [next |-> probe.next + 1, index |-> probe.index + 1]
        /\ UNCHANGED <<device, limit, maxima>>
    BY <1>0, <1>6 DEF CreateEngine, EnginesInOrder, ProbeTypes
  <2>2. /\ e \in Engines /\ e \in Closed /\ Position(e) = probe.index
        /\ \A x \in Closed : Position(x) = probe.index => x = e
    BY <1>0, <2>1, ProbedEngines
  <2>3. Wanted' = Wanted /\ Closed' = Closed /\ Probed' = Probed /\ \A x : Position(x)' = Position(x)
    BY <2>1 DEF Wanted, Closed, ChannelMax, Probed, Position
  <2>4. CASE ok
    <3>1. /\ thread' = [thread EXCEPT ![e] = "live"] /\ enabled' = enabled \cup {e}
          /\ stage' = "engines"
      BY <1>6, <2>1, <2>4 DEF CreateEngine, InitThread
    <3> HIDE DEF e
    <3>2. \A x \in Engines : x \in enabled' <=> x \in Closed /\ Position(x) < probe.index + 1
      <4> SUFFICES ASSUME NEW x \in Engines
                   PROVE  x \in enabled' <=> x \in Closed /\ Position(x) < probe.index + 1
        OBVIOUS
      <4>1. x \in enabled <=> x \in Closed /\ Position(x) < probe.index
        BY <1>0, <2>1 DEF EnginesInOrder, Running
      <4>2. Position(x) \in Nat /\ probe.index \in Nat
        BY <1>0, <2>1, PositionTypes
      <4>3. Position(x) < probe.index + 1 <=> Position(x) < probe.index \/ Position(x) = probe.index
        BY <4>2
      <4>4. QED
        BY <2>2, <3>1, <4>1, <4>3
    <3>3. thread \in [Engines -> {"none", "live", "gone"}]
      BY <1>0 DEF SetupTypeOK
    <3>4. \A x \in Engines : thread'[x] = IF x = e THEN "live" ELSE thread[x]
      BY <2>2, <3>1, <3>3
    <3>5. \A x \in enabled' : thread'[x] = "live"
      BY <1>0, <2>1, <2>2, <3>1, <3>4 DEF EnginesInOrder, Running
    <3>6. \A x \in Engines : thread'[x] = "live" => x \in Closed
      BY <1>0, <2>2, <3>4 DEF EnginesInOrder
    <3>7. probe'.index = probe.index + 1 /\ probe'.next = probe'.index
      BY <2>1
    <3>8. QED
      BY <1>0, <2>1, <2>3, <3>1, <3>2, <3>5, <3>6, <3>7 DEF EnginesInOrder, Running
  <2>5. CASE ~ok
    <3>1. UNCHANGED <<thread, enabled>> /\ stage' = "failed"
      BY <1>6, <2>5 DEF CreateEngine
    <3>2. QED
      BY <1>0, <2>1, <2>3, <3>1 DEF EnginesInOrder, Running
  <2>6. QED
    BY <2>4, <2>5
<1>7. ASSUME NEW mode \in PollModes, SetPollMode(mode) PROVE EnginesInOrder'
  <2>1. /\ stage = "engines" /\ probe.next = Probed /\ stage' \in {"queues", "failed"}
        /\ probe' = [probe EXCEPT !.next = 0] /\ UNCHANGED <<device, limit, maxima, thread, enabled>>
    BY <1>7 DEF SetPollMode, irqVars
  <2>2. Wanted' = Wanted /\ Closed' = Closed /\ Probed' = Probed /\ \A e : Position(e)' = Position(e)
    BY <2>1 DEF Wanted, Closed, ChannelMax, Probed, Position
  <2>3. probe'.index = probe.index /\ probe.index = Probed
    BY <1>0, <2>1 DEF EnginesInOrder, ProbeTypes
  <2>4. QED
    BY <1>0, <2>1, <2>2, <2>3 DEF EnginesInOrder, Running
<1>8. ASSUME NEW ok \in BOOLEAN, CreateQueue(ok) PROVE EnginesInOrder'
  <2>1. /\ stage = "queues" /\ stage' \in {"queues", "failed"}
        /\ probe' = [probe EXCEPT !.next = @ + 1] /\ UNCHANGED <<device, limit, maxima, thread, enabled>>
    BY <1>8 DEF CreateQueue, irqVars
  <2>2. Wanted' = Wanted /\ Closed' = Closed /\ Probed' = Probed /\ \A e : Position(e)' = Position(e)
    BY <2>1 DEF Wanted, Closed, ChannelMax, Probed, Position
  <2>3. probe'.index = probe.index
    BY <1>0, <2>1 DEF ProbeTypes
  <2>4. QED
    BY <1>0, <2>1, <2>2, <2>3 DEF EnginesInOrder, Running
<1>9. CASE PrepareEnds
  <2>1. /\ stage = "queues" /\ stage' = "started"
        /\ UNCHANGED <<device, limit, maxima, thread, enabled, probe>>
    BY <1>9 DEF PrepareEnds, irqVars, engineVars
  <2>2. QED
    BY <1>0, <1>1, <2>1 DEF EnginesInOrder, Running
<1>10. CASE Release
  <2>1. /\ stage' = "stopped"
        /\ thread' = [e \in Engines |-> IF e \in Closed /\ thread[e] = "live" THEN "gone" ELSE thread[e]]
    BY <1>10 DEF Release, CloseEngines
  <2>2. \A e \in Engines : thread'[e] # "live"
    BY <1>0, <2>1 DEF EnginesInOrder
  <2>3. QED
    BY <2>1, <2>2 DEF EnginesInOrder, Running
<1>11. QED
  BY <1>2, <1>3, <1>4, <1>5, <1>6, <1>7, <1>8, <1>9, <1>10 DEF SetupNext

-----------------------------------------------------------------------------
(* Queues, vectors and what a stop leaves behind *)

\* A step of the start after the engines have been created.
LEMMA LaterStep ==
  ASSUME \/ \E mode \in PollModes : SetPollMode(mode)
         \/ \E ok \in BOOLEAN : CreateQueue(ok)
         \/ PrepareEnds
  PROVE  /\ stage \in {"engines", "queues"} /\ stage' \in {"queues", "started", "failed"}
         /\ UNCHANGED <<device, limit, starts, granted, maxima, delivery, channelVector>>
         /\ UNCHANGED <<channelInterrupts, irqEngine, irqBit, thread, enabled>>
BY DEF SetPollMode, CreateQueue, PrepareEnds, irqVars, engineVars

\* A step of the start before that.
LEMMA EarlierStep ==
  ASSUME (\E ok \in BOOLEAN : MapBar(ok)) \/ IdentifyBars
  PROVE  /\ stage = "bars" /\ stage' \in {"bars", "interrupts", "failed"}
         /\ UNCHANGED <<device, limit, starts, granted, maxima, delivery, channelVector>>
         /\ UNCHANGED <<channelInterrupts, irqEngine, irqBit, thread, enabled>>
BY DEF MapBar, IdentifyBars, irqVars, engineVars

LEMMA QueuesStep ==
  ASSUME SetupInv, SetupNext \/ Release
  PROVE  QueuesInOrder'
<1>0. QueuesInOrder /\ EnginesInOrder /\ SetupTypeOK /\ ProbeTypes /\ enabled \subseteq Engines
  BY DEF SetupInv, SetupTypeOK
<1>1. CASE stage' \notin {"queues", "started"}
  BY <1>1 DEF QueuesInOrder
<1>2. ASSUME NEW mode \in PollModes, SetPollMode(mode), stage' = "queues" PROVE QueuesInOrder'
  <2>1. probe' = [probe EXCEPT !.next = 0] /\ UNCHANGED <<maxima, enabled>>
    BY <1>2 DEF SetPollMode, irqVars
  <2>2. probe'.next = 0 /\ \A e \in enabled' : ~(Position(e)' < 0)
    <3>1. \A e \in enabled : Position(e)' = Position(e) /\ Position(e) \in Nat
      BY <1>0, <2>1, PositionTypes DEF Position
    <3>2. QED
      BY <1>0, <2>1, <3>1 DEF ProbeTypes
  <2>3. QED
    BY <1>2, <2>2 DEF QueuesInOrder
<1>3. ASSUME NEW ok \in BOOLEAN, CreateQueue(ok), stage' = "queues" PROVE QueuesInOrder'
  <2> DEFINE e == EngineAt(probe.next)
  <2>1. /\ stage = "queues" /\ probe.next < Probed /\ probe.next \in 0..(2 * MaxChannels)
        /\ queue' = [queue EXCEPT ![e] = starts] /\ probe' = [probe EXCEPT !.next = @ + 1]
        /\ UNCHANGED <<maxima, enabled, starts>>
    BY <1>0, <1>3 DEF CreateQueue, irqVars, ProbeTypes
  <2>2. e \in Engines /\ \A x \in Closed : Position(x) = probe.next => x = e
    BY <1>0, <2>1, ProbedEngines
  <2> HIDE DEF e
  <2>3. queue \in [Engines -> 0..MaxStarts] /\ probe'.next = probe.next + 1
    BY <1>0, <2>1 DEF SetupTypeOK, ProbeTypes
  <2>4. ASSUME NEW x \in enabled, Position(x) < probe.next + 1 PROVE queue'[x] = starts
    <3>1. x \in Engines /\ x \in Closed
      BY <1>0, <2>1 DEF EnginesInOrder, Running
    <3>2. Position(x) < probe.next \/ Position(x) = probe.next
      BY <1>0, <2>1, <2>4, <3>1, PositionTypes
    <3>3. QED
      BY <1>0, <2>1, <2>2, <2>3, <3>1, <3>2 DEF QueuesInOrder
  <2>5. \A x : Position(x)' = Position(x)
    BY <2>1 DEF Position
  <2>6. QED
    BY <1>3, <2>1, <2>3, <2>4, <2>5 DEF QueuesInOrder
<1>4. CASE PrepareEnds
  <2>1. /\ stage = "queues" /\ stage' = "started" /\ probe.next = Probed
        /\ UNCHANGED <<enabled, queue, starts>>
    BY <1>4 DEF PrepareEnds, engineVars
  <2>2. \A e \in enabled : Position(e) < probe.next
    BY <1>0, <2>1 DEF EnginesInOrder, Running
  <2>3. QED
    BY <1>0, <2>1, <2>2 DEF QueuesInOrder
<1>5. stage' \in {"queues", "started"} =>
        \/ \E mode \in PollModes : SetPollMode(mode)
        \/ (\E ok \in BOOLEAN : CreateQueue(ok)) /\ stage' = "queues"
        \/ PrepareEnds
  <2>1. SetupInterrupts => stage' \in {"engines", "failed"}
    BY SetupChoices
  <2>2. QED
    BY <2>1 DEF SetupNext, Release, Prepare, MapBar, IdentifyBars, CreateEngine, CreateQueue
<1>6. (\E mode \in PollModes : SetPollMode(mode)) => stage' # "started"
  BY DEF SetPollMode
<1>7. QED
  BY <1>1, <1>2, <1>3, <1>4, <1>5, <1>6

LEMMA VectorsStep ==
  ASSUME SetupInv, SetupNext \/ Release
  PROVE  VectorsInOrder'
<1>0. /\ VectorsInOrder /\ EnginesInOrder /\ SetupTypeOK /\ ProbeTypes /\ enabled \subseteq Engines
      /\ maxima.user \in Nat
  BY MaximaTypes, SetupAssumption DEF SetupInv, SetupTypeOK
<1>1. ASSUME UNCHANGED <<device, limit, granted, maxima, delivery, channelVector>>,
             UNCHANGED <<channelInterrupts, irqEngine, irqBit, enabled>>,
             Running' => Running,
             stage' \in {"stopped", "bars", "interrupts"} => stage \in {"stopped", "bars", "interrupts"}
      PROVE  VectorsInOrder'
  <2>1. /\ Vectored' = Vectored /\ Enough' = Enough /\ Probed' = Probed
        /\ \A e : BitOf(e)' = BitOf(e) /\ Position(e)' = Position(e)
        /\ \A i : VectorOf(i, maxima)' = VectorOf(i, maxima)
    BY <1>1 DEF Vectored, Wanted, Enough, Probed, BitOf, Position, VectorOf
  <2>2. QED
    BY <1>0, <1>1, <2>1 DEF VectorsInOrder
<1>2. CASE (\E ok \in BOOLEAN : MapBar(ok)) \/ IdentifyBars
  BY <1>1, <1>2, EarlierStep DEF Running
<1>3. CASE \/ \E mode \in PollModes : SetPollMode(mode)
           \/ \E ok \in BOOLEAN : CreateQueue(ok)
           \/ PrepareEnds
  BY <1>1, <1>3, LaterStep DEF Running
<1>4. ASSUME NEW n \in Grants, Prepare(n) PROVE VectorsInOrder'
  <2>1. /\ stage = "stopped" /\ stage' = "bars"
        /\ UNCHANGED <<device, limit, channelVector, channelInterrupts>>
    BY <1>4 DEF Prepare
  <2>2. Vectored' = Vectored
    BY <2>1 DEF Vectored, Wanted
  <2>3. QED
    BY <1>0, <2>1, <2>2 DEF VectorsInOrder, Running
<1>5. CASE SetupInterrupts
  <2>1. /\ stage = "interrupts" /\ maxima' = Wanted
        /\ UNCHANGED <<device, limit, granted, enabled, irqBit>>
    BY <1>5, SetupChoices DEF SetupInterrupts
  <2>2. Vectored' = Vectored /\ Wanted' = Wanted
    BY <2>1 DEF Vectored, Wanted
  <2>3. enabled' = {}
    BY <1>0, <2>1 DEF EnginesInOrder
  <2>4. CASE Wanted.h2c > device.h2c \/ Wanted.c2h > device.c2h
    <3>1. stage' = "failed" /\ channelInterrupts' = channelInterrupts
      BY <1>5, <2>4, SetupChoices
    <3>2. QED
      BY <1>0, <2>2, <3>1 DEF VectorsInOrder, Running
  <2>5. CASE ~(Wanted.h2c > device.h2c \/ Wanted.c2h > device.c2h) /\ ~Vectored
    <3>1. stage' \in {"engines", "failed"} /\ delivery' = "single"
          /\ channelInterrupts' = channelInterrupts
      BY <1>5, <2>5, SetupChoices DEF SetupSingle
    <3>2. QED
      BY <1>0, <2>2, <2>3, <2>5, <3>1 DEF VectorsInOrder, Running
  <2>6. CASE ~(Wanted.h2c > device.h2c \/ Wanted.c2h > device.c2h) /\ Vectored
    <3>1. PICK messages \in {granted, device.msi, 0} :
            /\ SetupVectors(Wanted, messages)
            /\ device.table >= Required(Wanted) => messages = granted
            /\ ~(device.table >= Required(Wanted)) /\ granted > 0 => messages = device.msi
      BY <1>5, <2>6, SetupChoices
    <3>2. stage' \in {"engines", "failed"}
      BY <1>5, <2>6, SetupChoices
    <3>3. /\ delivery' = "vectors" /\ channelVector' = [i \in Bits |-> VectorOf(i, Wanted)]
          /\ channelInterrupts' = [i \in Bits |-> InterruptObject(i, Wanted, messages)]
      BY <3>1 DEF SetupVectors
    <3>4. \A i \in Bits : channelVector'[i] = VectorOf(i, maxima)'
      BY <2>1, <3>3 DEF VectorOf
    <3>5. ASSUME Enough', NEW i \in Bits, i < Probed'
          PROVE  channelInterrupts'[i] = maxima'.user + i
      <4>1. /\ Wanted.user \in Nat /\ Wanted.h2c \in Nat /\ Wanted.c2h \in Nat /\ i \in Nat
            /\ granted \in Nat /\ device.msi \in Nat /\ device.table \in Nat
        BY <1>0, WantedTypes, DeviceTypes, SetupAssumption DEF Bits, ProbeTypes
      <4>2. i < Wanted.h2c + Wanted.c2h
        BY <2>1, <3>5 DEF Probed
      <4>3. messages >= Required(Wanted)
        <5>1. CASE device.table >= Required(Wanted)
          BY <2>1, <3>1, <3>5, <5>1 DEF Enough, Required
        <5>2. CASE ~(device.table >= Required(Wanted))
          BY <2>1, <2>6, <3>1, <3>5, <5>2 DEF Enough, Required, Vectored
        <5>3. QED
          BY <5>1, <5>2
      <4>4. Wanted.user + i < messages
        BY <3>1, <4>1, <4>2, <4>3 DEF Required
      <4>5. InterruptObject(i, Wanted, messages) = Wanted.user + i
        BY <4>2, <4>4 DEF InterruptObject
      <4>6. QED
        BY <2>1, <3>3, <4>5
    <3>6. QED
      BY <2>2, <2>3, <2>6, <3>2, <3>3, <3>4, <3>5 DEF VectorsInOrder, Running
  <2>7. QED
    BY <2>4, <2>5, <2>6
<1>6. ASSUME NEW ok \in BOOLEAN, CreateEngine(ok) PROVE VectorsInOrder'
  <2> DEFINE e == EngineAt(probe.next)
  <2>1. /\ stage = "engines" /\ probe.next = probe.index /\ probe.next \in 0..(2 * MaxChannels)
        /\ probe.next < Probed /\ maxima.h2c <= device.h2c /\ maxima.c2h <= device.c2h
        /\ maxima = Wanted
    BY <1>0, <1>6 DEF CreateEngine, EnginesInOrder, ProbeTypes, Running
  <2>2. /\ UNCHANGED <<device, limit, granted, maxima, delivery, channelVector, channelInterrupts>>
        /\ irqBit' = [irqBit EXCEPT ![e] = EngineId(e)]
        /\ irqEngine' = IF channelInterrupts[probe.index] >= 0
                        THEN [irqEngine EXCEPT ![probe.index] = e] ELSE irqEngine
        /\ enabled' \in {enabled, enabled \cup {e}} /\ stage' \in {"engines", "failed"}
    BY <1>6, <2>1 DEF CreateEngine, ConfigureInterrupt
  <2>3. e \in Engines /\ probe.next \in Bits /\ Position(e) = probe.index
    BY <1>0, <2>1, ProbedEngines
  <2>4. EngineId(e) = BitOf(e)
    <3>1. Probed <= device.h2c + device.c2h
      BY <1>0, <2>1, MaximaTypes, DeviceTypes DEF Probed
    <3>2. QED
      BY <1>0, <2>1, <3>1, CreatedEngine DEF EngineId, BitOf
  <2> HIDE DEF e
  <2>5. /\ irqBit \in [Engines -> Bits] /\ irqEngine \in [Bits -> Engines \cup {NoEngine}]
    BY <1>0 DEF SetupTypeOK
  <2>6. /\ Vectored' = Vectored /\ Enough' = Enough /\ Probed' = Probed
        /\ \A x : BitOf(x)' = BitOf(x) /\ Position(x)' = Position(x)
        /\ \A i : VectorOf(i, maxima)' = VectorOf(i, maxima)
    BY <2>2 DEF Vectored, Wanted, Enough, Probed, BitOf, Position, VectorOf
  <2>7. \A x \in enabled' : irqBit'[x] = BitOf(x)
    BY <1>0, <2>1, <2>2, <2>3, <2>4, <2>5 DEF VectorsInOrder, Running
  <2>8. ASSUME Vectored, Enough, NEW x \in enabled' PROVE irqEngine'[Position(x)] = x
    <3>1. channelInterrupts[probe.index] = maxima.user + probe.index
      BY <1>0, <2>1, <2>3, <2>8 DEF VectorsInOrder, Running
    <3>2. irqEngine' = [irqEngine EXCEPT ![probe.index] = e]
      BY <1>0, <2>1, <2>2, <3>1
    <3>3. CASE x = e
      BY <2>1, <2>3, <2>5, <3>2, <3>3
    <3>4. CASE x # e
      <4>1. x \in enabled
        BY <2>2, <2>8, <3>4
      <4>2. irqEngine[Position(x)] = x /\ Position(x) < probe.index /\ Position(x) \in Nat
        BY <1>0, <2>1, <2>8, <4>1, PositionTypes DEF VectorsInOrder, EnginesInOrder, Running
      <4>3. Position(x) \in Bits /\ Position(x) # probe.index
        BY <2>1, <2>3, <4>2, SetupAssumption DEF Bits
      <4>4. QED
        BY <2>5, <3>2, <4>2, <4>3
    <3>5. QED
      BY <3>3, <3>4
  <2>9. QED
    BY <1>0, <2>1, <2>2, <2>6, <2>7, <2>8 DEF VectorsInOrder, Running
<1>7. CASE Release
  <2>1. /\ stage' = "stopped" /\ channelVector' = [i \in Bits |-> 0]
        /\ channelInterrupts' = [i \in Bits |-> IF channelInterrupts[i] >= 0 THEN Released
                                                ELSE channelInterrupts[i]]
        /\ UNCHANGED <<device, limit>>
    BY <1>7 DEF Release
  <2>2. Vectored' = Vectored
    BY <2>1 DEF Vectored, Wanted
  <2>3. ~Vectored => \A i \in Bits : channelInterrupts'[i] = NoObject
    BY <1>0, <2>1 DEF VectorsInOrder, NoObject
  <2>4. QED
    BY <2>1, <2>2, <2>3 DEF VectorsInOrder, Running
<1>8. QED
  BY <1>2, <1>3, <1>4, <1>5, <1>6, <1>7 DEF SetupNext

LEMMA GoneStep ==
  ASSUME SetupInv, SetupNext \/ Release
  PROVE  GoneAfterStop'
<1>0. GoneAfterStop /\ SetupTypeOK /\ ProbeTypes /\ starts \in Nat
  BY SetupAssumption DEF SetupInv, SetupTypeOK
<1>1. CASE Release
  <2>1. starts > 0 /\ starts' = starts /\ stage' = "stopped"
    BY <1>0, <1>1 DEF Release, ProbeTypes
  <2>2. QED
    BY <2>1 DEF GoneAfterStop
<1>2. ASSUME NEW n \in Grants, Prepare(n) PROVE GoneAfterStop'
  <2>1. /\ stage = "stopped" /\ stage' = "bars" /\ starts' = starts + 1
        /\ UNCHANGED <<thread, channelInterrupts>>
    BY <1>2 DEF Prepare
  <2>2. QED
    BY <1>0, <2>1 DEF GoneAfterStop
<1>3. ASSUME stage # "stopped", starts' = starts,
             \A e \in Engines : thread'[e] = "gone" => thread[e] = "gone",
             \A i \in Bits : channelInterrupts'[i] = Released => channelInterrupts[i] = Released
      PROVE  GoneAfterStop'
  BY <1>0, <1>3 DEF GoneAfterStop
<1>4. CASE (\E ok \in BOOLEAN : MapBar(ok)) \/ IdentifyBars
  BY <1>3, <1>4, EarlierStep
<1>5. CASE \/ \E mode \in PollModes : SetPollMode(mode)
           \/ \E ok \in BOOLEAN : CreateQueue(ok)
           \/ PrepareEnds
  BY <1>3, <1>5, LaterStep
<1>6. CASE SetupInterrupts
  <2>1. stage = "interrupts" /\ UNCHANGED <<starts, thread>>
    BY <1>6 DEF SetupInterrupts
  <2>2. \A i \in Bits : channelInterrupts'[i] = Released => channelInterrupts[i] = Released
    <3>1. ASSUME NEW messages, SetupVectors(Wanted, messages), NEW i \in Bits
          PROVE  channelInterrupts'[i] = Released => channelInterrupts[i] = Released
      <4>1. channelInterrupts'[i] = InterruptObject(i, Wanted, messages)
        BY <3>1 DEF SetupVectors
      <4>2. Wanted.user + i \in Nat
        BY <1>0, WantedTypes, SetupAssumption DEF Bits
      <4>3. Wanted.user + i # Released
        BY <4>2 DEF Released
      <4>4. QED
        BY <4>1, <4>3 DEF InterruptObject
    <3>2. QED
      BY <1>6, <3>1, SetupChoices DEF SetupSingle
  <2>3. QED
    BY <1>3, <2>1, <2>2
<1>7. ASSUME NEW ok \in BOOLEAN, CreateEngine(ok) PROVE GoneAfterStop'
  <2>1. /\ stage = "engines" /\ UNCHANGED <<starts, channelInterrupts>>
        /\ thread' \in {thread, [thread EXCEPT ![EngineAt(probe.next)] = "live"]}
    BY <1>7 DEF CreateEngine, InitThread
  <2>2. thread \in [Engines -> {"none", "live", "gone"}]
    BY <1>0 DEF SetupTypeOK
  <2>3. \A e \in Engines : thread'[e] = "gone" => thread[e] = "gone"
    BY <2>1, <2>2
  <2>4. QED
    BY <1>3, <2>1, <2>3
<1>8. QED
  BY <1>1, <1>2, <1>4, <1>5, <1>6, <1>7 DEF SetupNext

LEMMA InitInOrder == SetupInit => SetupInv
<1> SUFFICES ASSUME SetupInit PROVE SetupInv
  OBVIOUS
<1>1. SetupTypeOK /\ ProbeTypes
  BY InitTyped
<1>2. stage = "stopped" /\ mapped = {} /\ \A i \in Bits : channelVector[i] = 0 /\ channelInterrupts[i] = NoObject
  BY DEF SetupInit
<1>3. \A e \in Engines : thread[e] = "none"
  BY DEF SetupInit
<1>4. BarsInOrder /\ EnginesInOrder /\ QueuesInOrder /\ VectorsInOrder
  BY <1>2, <1>3 DEF BarsInOrder, EnginesInOrder, QueuesInOrder, VectorsInOrder, Identified, Running
<1>5. GoneAfterStop
  BY <1>2, <1>3 DEF GoneAfterStop, NoObject, Released
<1>6. QED
  BY <1>1, <1>4, <1>5 DEF SetupInv

LEMMA SetupStep ==
  ASSUME SetupInv, SetupNext \/ Release
  PROVE  SetupInv'
BY TypeStep, BarsStep, EnginesStep, QueuesStep, VectorsStep, GoneStep DEF SetupInv

-----------------------------------------------------------------------------
(* What follows for the starts and stops *)

LEMMA StoppedIsUndone == SetupInv => Undone
<1> SUFFICES ASSUME SetupInv, stage = "stopped"
             PROVE  /\ mapped = {}
                    /\ \A e \in Engines : thread[e] # "live"
                    /\ \A i \in Bits : channelVector[i] = 0
  BY DEF Undone
<1>1. mapped \subseteq (1..MaxStarts) \X BarIdx
  BY DEF SetupInv, SetupTypeOK
<1>2. mapped = {}
  BY <1>1 DEF SetupInv, BarsInOrder
<1>3. QED
  BY <1>2 DEF SetupInv, EnginesInOrder, VectorsInOrder

\* Two engines have two places and two request bits.
LEMMA VectorOfEngine ==
  ASSUME SetupInv, stage = "started", delivery = "vectors", NEW e \in enabled
  PROVE  /\ channelVector[irqBit[e]] = maxima.user + Position(e)
         /\ Position(e) \in Bits /\ Position(e) < Probed
<1>1. /\ SetupTypeOK /\ Vectored /\ irqBit[e] = BitOf(e) /\ e \in Engines /\ e \in Closed
      /\ maxima.h2c <= device.h2c /\ maxima.c2h <= device.c2h
      /\ \A i \in Bits : channelVector[i] = VectorOf(i, maxima)
  BY DEF SetupInv, SetupTypeOK, VectorsInOrder, EnginesInOrder, Running
<1>2. /\ maxima.user \in 0..MaxUser /\ maxima.h2c \in 0..MaxChannels /\ maxima.c2h \in 0..MaxChannels
      /\ device.h2c \in 0..MaxChannels /\ device.c2h \in 0..MaxChannels
      /\ MaxChannels \in Nat \ {0} /\ MaxUser \in Nat /\ MaxUser + 2 * MaxChannels <= 32
      /\ Probed = maxima.h2c + maxima.c2h
  BY <1>1, MaximaTypes, DeviceTypes, SetupAssumption DEF Probed
<1>3. PICK d \in Dirs, k \in 0..(MaxChannels - 1) : e = <<d, k>>
  BY <1>1 DEF Engines
<1>4. \A x \in 0..31 : x % 32 = x
  OBVIOUS
<1>5. CASE d = "h2c"
  <2>1. BitOf(e) = k /\ Position(e) = k /\ k < maxima.h2c
    BY <1>1, <1>3, <1>5 DEF BitOf, Position, Closed, ChannelMax
  <2>2. k \in Bits /\ k < Probed /\ maxima.user + k \in 0..31
    BY <1>2, <1>3, <2>1 DEF Bits
  <2>3. VectorOf(k, maxima) = (maxima.user + k) % 32
    <3>1. k < maxima.h2c /\ ~(k >= device.h2c)
      BY <1>1, <1>2, <1>3, <2>1
    <3>2. QED
      BY <3>1 DEF VectorOf
  <2>4. QED
    BY <1>1, <1>4, <2>1, <2>2, <2>3
<1>6. CASE d = "c2h"
  <2>1. BitOf(e) = device.h2c + k /\ Position(e) = maxima.h2c + k /\ k < maxima.c2h
    BY <1>1, <1>3, <1>6 DEF BitOf, Position, Closed, ChannelMax
  <2>2. /\ device.h2c + k \in Bits /\ maxima.h2c + k \in Bits /\ maxima.h2c + k < Probed
        /\ maxima.user + maxima.h2c + k \in 0..31
    <3>1. device.h2c + k \in Bits /\ maxima.h2c + k \in Bits
      BY <1>2, <1>3 DEF Bits
    <3>2. maxima.h2c + k < Probed
      BY <1>2, <1>3, <2>1
    <3>3. maxima.user + maxima.h2c + k \in 0..31
      <4>1. /\ maxima.user \in Nat /\ maxima.h2c \in Nat /\ k \in Nat
            /\ maxima.user <= MaxUser /\ maxima.h2c <= MaxChannels /\ k + 1 <= MaxChannels
        BY <1>2
      <4>2. MaxUser \in Nat /\ MaxChannels \in Nat /\ MaxUser + MaxChannels + MaxChannels <= 32
        BY <1>2
      <4> DEFINE u == maxima.user
                 h == maxima.h2c
      <4>3. u \in Nat /\ h \in Nat /\ u <= MaxUser /\ h <= MaxChannels
        BY <4>1
      <4> HIDE DEF u, h
      <4>4. u + h + k <= MaxUser + MaxChannels + (MaxChannels - 1)
        BY <4>1, <4>2, <4>3
      <4>5. u + h + k \in 0..31
        BY <4>1, <4>2, <4>3, <4>4
      <4>6. QED
        BY <4>5 DEF u, h
    <3>4. QED
      BY <3>1, <3>2, <3>3
  <2>3. VectorOf(device.h2c + k, maxima) = (maxima.user + maxima.h2c + k) % 32
    <3>1. ~(device.h2c + k < maxima.h2c) /\ device.h2c + k >= device.h2c
          /\ device.h2c + k < device.h2c + maxima.c2h
      BY <1>1, <1>2, <1>3, <2>1
    <3>2. maxima.user + maxima.h2c + (device.h2c + k) - device.h2c = maxima.user + maxima.h2c + k
      BY <1>2, <1>3
    <3>3. QED
      BY <3>1, <3>2 DEF VectorOf
  <2>4. maxima.user + maxima.h2c + k = maxima.user + Position(e)
    BY <1>2, <1>3, <2>1
  <2>5. QED
    BY <1>1, <1>4, <2>1, <2>2, <2>3, <2>4
<1>7. QED
  BY <1>3, <1>5, <1>6 DEF Dirs

LEMMA StartedIsRouted == SetupInv => Routed
<1> SUFFICES ASSUME SetupInv, stage = "started", delivery = "vectors", Enough, NEW e \in enabled
             PROVE  /\ \E i \in Bits : irqEngine[i] = e /\ channelInterrupts[i] = channelVector[irqBit[e]]
                    /\ channelVector[irqBit[e]] >= maxima.user
                    /\ \A f \in enabled \ {e} : channelVector[irqBit[f]] # channelVector[irqBit[e]]
  BY DEF Routed
<1>1. /\ SetupTypeOK /\ Vectored /\ enabled \subseteq Engines /\ enabled \subseteq Closed
      /\ \A i \in Bits : i < Probed => channelInterrupts[i] = maxima.user + i
      /\ \A f \in enabled : irqEngine[Position(f)] = f
  BY DEF SetupInv, SetupTypeOK, VectorsInOrder, EnginesInOrder, Running
<1>2. /\ channelVector[irqBit[e]] = maxima.user + Position(e)
      /\ Position(e) \in Bits /\ Position(e) < Probed
  BY VectorOfEngine
<1>3. maxima.user \in Nat /\ Position(e) \in Nat
  BY <1>1, <1>2, MaximaTypes, SetupAssumption DEF Bits
<1>4. \E i \in Bits : irqEngine[i] = e /\ channelInterrupts[i] = channelVector[irqBit[e]]
  BY <1>1, <1>2
<1>5. ASSUME NEW f \in enabled \ {e} PROVE channelVector[irqBit[f]] # channelVector[irqBit[e]]
  <2>1. channelVector[irqBit[f]] = maxima.user + Position(f) /\ Position(f) \in Nat
    BY <1>1, VectorOfEngine, PositionTypes
  <2>2. Position(f) # Position(e)
    BY <1>1
  <2>3. QED
    BY <1>2, <1>3, <2>1, <2>2
<1>6. QED
  BY <1>2, <1>3, <1>4, <1>5

LEMMA StaleStep ==
  ASSUME SetupInv, SetupNext \/ Release, ~staleObject, staleObject'
  PROVE  starts > 1 /\ (stage = "failed" \/ ~Enough)
<1>0. SetupTypeOK /\ ProbeTypes /\ EnginesInOrder /\ VectorsInOrder /\ GoneAfterStop
  BY DEF SetupInv
<1>1. CASE Release
  <2>1. PICK e \in Closed : thread[e] = "gone"
    BY <1>1 DEF Release, CloseEngines
  <2>2. stage \in {"started", "failed"} /\ e \in Engines
    BY <1>1, <2>1 DEF Release, Closed
  <2>3. starts > 1
    BY <1>0, <2>1, <2>2 DEF GoneAfterStop
  <2>4. stage # "started"
    <3> SUFFICES ASSUME stage = "started" PROVE FALSE
      OBVIOUS
    <3>1. Position(e) < Probed
      <4>1. PICK d \in Dirs, k \in 0..(MaxChannels - 1) : e = <<d, k>>
        BY <2>2 DEF Engines
      <4>2. maxima.h2c \in Nat /\ maxima.c2h \in Nat /\ MaxChannels \in Nat
            /\ Probed = maxima.h2c + maxima.c2h
        BY <1>0, MaximaTypes, SetupAssumption DEF Probed
      <4>3. k < ChannelMax(d)
        BY <2>1, <4>1 DEF Closed
      <4>4. QED
        BY <4>1, <4>2, <4>3 DEF Position, ChannelMax, Dirs
    <3>2. e \in enabled
      BY <1>0, <2>1, <2>2, <3>1 DEF EnginesInOrder, Running
    <3>3. QED
      BY <1>0, <2>1, <3>2 DEF EnginesInOrder, Running
  <2>5. QED
    BY <2>2, <2>3, <2>4
<1>2. ASSUME NEW ok \in BOOLEAN, CreateEngine(ok) PROVE starts > 1 /\ ~Enough
  <2>1. /\ stage = "engines" /\ probe.next = probe.index /\ probe.next \in 0..(2 * MaxChannels)
        /\ probe.next < Probed /\ channelInterrupts[probe.index] = Released
    BY <1>0, <1>2 DEF CreateEngine, ConfigureInterrupt, EnginesInOrder, ProbeTypes
  <2>2. probe.index \in Bits
    BY <1>0, <2>1, ProbedEngines
  <2>3. starts > 1
    BY <1>0, <2>1, <2>2 DEF GoneAfterStop
  <2>4. Vectored
    BY <1>0, <2>1, <2>2 DEF VectorsInOrder, NoObject, Released
  <2>5. ~Enough
    <3> SUFFICES ASSUME Enough PROVE FALSE
      OBVIOUS
    <3>1. channelInterrupts[probe.index] = maxima.user + probe.index
      BY <1>0, <2>1, <2>2, <2>4 DEF VectorsInOrder, Running
    <3>2. maxima.user + probe.index \in Nat
      BY <1>0, <2>2, MaximaTypes, SetupAssumption DEF Bits
    <3>3. QED
      BY <2>1, <3>1, <3>2 DEF Released
  <2>6. QED
    BY <2>3, <2>5
<1>3. Release \/ \E ok \in BOOLEAN : CreateEngine(ok)
  BY DEF SetupNext, Prepare, MapBar, IdentifyBars, SetupInterrupts, SetPollMode, CreateQueue,
     PrepareEnds
<1>4. QED
  BY <1>1, <1>2, <1>3

-----------------------------------------------------------------------------
(* The invariant of handles and requests *)

\* The part of the type invariant that DeviceSetup leaves to FileNodes.
FileTypes ==
  /\ handle \in [Files -> [node : Nodes \cup {None}, queue : 0..MaxStarts, start : 0..MaxStarts,
                           bar : ((1..MaxStarts) \X BarIdx) \cup {Null}]]
  /\ state \in [Files -> {"closed", "open", "cleaned"}]
  /\ mdl \in [Files -> ((1..MaxStarts) \X BarIdx) \cup {Null, Wild, None}]
  /\ virtAddress \in [Files -> Requests \cup {None}]
  /\ mappings \in [Files -> SUBSET Requests]
  /\ request \in [Requests -> [file : Files \cup {None}, op : Ops]]
  /\ at \in [Requests -> Places]
  /\ status \in [Requests -> {"none", "success", "error"}]
  /\ answers \in [Requests -> 0..2]
  /\ overlapped \subseteq Engines

\* A handle that has been opened is of a node; a request is one on such a handle.
\* No request sets a register unless the device is started, and only one to map a
\* BAR maps it.
HandlesKept ==
  /\ \A f \in Files : state[f] # "closed" => handle[f].node \in Nodes
  /\ \A r \in Requests :
       at[r] # "idle" => request[r].file \in Files /\ state[request[r].file] # "closed"
  /\ \A r \in Requests :
       at[r] = "registerSet" => stage = "started" /\ Type(r) \in Dirs /\ request[r].op # "map"
  /\ \A r \in Requests : /\ at[r] \in {"mdlSet", "mapped"} => MapsBar(r)
                         /\ at[r] \in {"queued", "engine"} => ~MapsBar(r)

\* A request is not completed before its handler is through with it.
Counted ==
  /\ \A r \in Requests : at[r] \in {"idle", "caller"} => answers[r] = 0
  /\ \A r \in Requests : at[r] # "answered" => answers[r] <= 1

\* A handle is of this start only while the device is started, or has been.
HandleStarts ==
  \A f \in Files :
    /\ handle[f].start <= starts
    /\ stage \in {"bars", "interrupts", "engines", "queues"} => handle[f].start < starts

\* One request at most sets an engine's address mode, and its register has it.
OneSetter ==
  \A e \in enabled \ overlapped :
    /\ \A r, q \in Requests :
         (at[r] = "registerSet" /\ EngineOf(r) = e /\ at[q] = "registerSet" /\ EngineOf(q) = e)
           => r = q
    /\ \A r \in Requests : at[r] = "registerSet" /\ EngineOf(r) = e => control[e] = Mode(r)

\* A mapping is of a call that has got as far.  Until the handle is cleaned up,
\* file->virtAddress names one as soon as a call has finished it, and file->mdl is set
\* unless a call has failed.
NoneFailed(f) ==
  MapCalls(f) # {} /\ \A r \in MapCalls(f) : at[r] = "mdlSet" \/ r \in mappings[f]

MappingOf(f) ==
  /\ \A r \in mappings[f] : r \in MapCalls(f) /\ at[r] # "mdlSet"
  /\ state[f] # "cleaned" =>
       /\ virtAddress[f] # None => virtAddress[f] \in mappings[f]
       /\ \A r \in MapCalls(f) : at[r] = "mapped" => r \in mappings[f]
       /\ \A r \in mappings[f] : at[r] # "mapped" => virtAddress[f] # None
       /\ NoneFailed(f) => mdl[f] # None

MappingKept == \A f \in Files : MappingOf(f)

FileInv ==
  /\ FileTypes /\ HandlesKept /\ Counted /\ HandleStarts
  /\ OneSetter /\ MappingKept /\ AnsweredOnce /\ FreshHandles /\ AddressModeAgrees

\* The inductive invariant.
IInv == SetupInv /\ FileInv

-----------------------------------------------------------------------------

\* The handle of a request is of a node.
LEMMA RequestNode ==
  ASSUME IInv, NEW r \in Requests, at[r] # "idle"
  PROVE  /\ request[r].file \in Files /\ state[request[r].file] # "closed"
         /\ handle[request[r].file].node \in Nodes
         /\ Type(r) \in Types
         /\ Type(r) \in Dirs => EngineOf(r) \in Engines
<1>1. request[r].file \in Files /\ handle[request[r].file].node \in Nodes
      /\ state[request[r].file] # "closed"
  BY DEF IInv, FileInv, HandlesKept
<1>2. QED
  BY <1>1, NodesAssumption DEF Type, EngineOf

LEMMA StartsTypes ==
  ASSUME IInv
  PROVE  /\ starts \in Nat
         /\ \A f \in Files : handle[f].start \in Nat /\ handle[f].start <= starts
<1>1. starts \in Nat /\ MaxStarts \in Nat
  BY SetupAssumption DEF IInv, SetupInv, SetupTypeOK
<1>2. \A f \in Files : handle[f].start \in 0..MaxStarts
  BY DEF IInv, FileInv, FileTypes
<1>3. \A f \in Files : handle[f].start <= starts
  BY DEF IInv, FileInv, HandleStarts
<1>4. QED
  BY <1>1, <1>2, <1>3

\* While the device starts or stops, no request is setting a register.
LEMMA NoSetter ==
  ASSUME IInv, SetupNext \/ Stop, NEW r \in Requests
  PROVE  at[r] # "registerSet"
<1>1. SetupNext => stage # "started"
  BY DEF SetupNext, Prepare, MapBar, IdentifyBars, SetupInterrupts, CreateEngine, SetPollMode,
     CreateQueue, PrepareEnds
<1>2. QED
  BY <1>1 DEF IInv, FileInv, HandlesKept, Stop

\* Starts and stops leave the handles and requests alone.
LEMMA FilesAlone ==
  ASSUME IInv, \/ SetupNext /\ UNCHANGED <<fileVars, requestVars>>
               \/ Stop
  PROVE  FileInv'
<1>1. /\ UNCHANGED <<handle, state, mdl, virtAddress, mappings, request, at, status, answers,
                      overlapped>>
      /\ \A r \in Requests : at[r] # "registerSet"
  BY NoSetter DEF Stop, fileVars, mapVars, requestVars
<1>2. (\A r : Type(r)' = Type(r)) /\ (\A f : MapCalls(f)' = MapCalls(f))
      /\ (\A r : Misdirected(r)' = Misdirected(r)) /\ \A r : MapsBar(r)' = MapsBar(r)
  BY <1>1 DEF Type, MapCalls, Misdirected, MapsBar
<1>3. FileTypes' /\ HandlesKept' /\ Counted' /\ MappingKept' /\ AnsweredOnce' /\ OneSetter'
  BY ZenonT(60), <1>1, <1>2 DEF IInv, FileInv, FileTypes, HandlesKept, Counted, MappingKept, MappingOf,
     NoneFailed, AnsweredOnce,
     OneSetter
<1>4. HandleStarts'
  <2>1. starts \in Nat /\ \A f \in Files : handle[f].start \in Nat /\ handle[f].start <= starts
    BY StartsTypes
  <2>2. CASE \E n \in Grants : Prepare(n)
    <3>1. starts' = starts + 1
      BY <2>2 DEF Prepare
    <3>2. QED
      <4>1. \A f \in Files : handle[f].start <= starts + 1 /\ handle[f].start < starts + 1
        BY <2>1
      <4>2. QED
        BY <1>1, <3>1, <4>1 DEF HandleStarts
  <2>3. CASE ~\E n \in Grants : Prepare(n)
    <3>1. starts' = starts
          /\ (stage' \in {"bars", "interrupts", "engines", "queues"}
                => stage \in {"bars", "interrupts", "engines", "queues"})
      BY <2>3, EarlierStep, LaterStep DEF SetupNext, Stop, Release, SetupInterrupts, CreateEngine,
         SetPollMode, CreateQueue, PrepareEnds
    <3>2. QED
      BY <1>1, <3>1 DEF IInv, FileInv, HandleStarts
  <2>4. QED
    BY <2>2, <2>3
<1>5. FreshHandles'
  <2>1. stage' = "started" => PrepareEnds
    <3>1. SetupInterrupts => stage' \in {"engines", "failed"}
      BY SetupChoices
    <3>2. QED
      BY <3>1 DEF SetupNext, Stop, Release, Prepare, MapBar, IdentifyBars, CreateEngine,
         SetPollMode, CreateQueue
  <2>2. PrepareEnds => stage = "queues" /\ starts' = starts
    BY DEF PrepareEnds
  <2>3. stage' = "started" => \A f \in Files : handle'[f].start # starts'
    <3>1. stage = "queues" => \A f \in Files : handle[f].start < starts
      BY DEF IInv, FileInv, HandleStarts
    <3>2. stage = "queues" => \A f \in Files : handle[f].start # starts
      BY <3>1, StartsTypes
    <3>3. QED
      BY <1>1, <2>1, <2>2, <3>2
  <2>4. QED
    BY <2>3 DEF FreshHandles
<1>6. AddressModeAgrees'
  <2>1. AddressModeAgrees /\ enabled \subseteq Engines
        /\ addressMode \in [Engines -> 0..1]
    BY DEF IInv, FileInv, SetupInv, SetupTypeOK
  <2>2. ASSUME NEW e \in enabled', e \notin overlapped PROVE control'[e] = addressMode'[e]
    <3>1. ASSUME NEW ok \in BOOLEAN, CreateEngine(ok) PROVE control'[e] = addressMode'[e]
      <4> DEFINE x == EngineAt(probe.next)
      <4>1. /\ control' = control /\ addressMode' = [addressMode EXCEPT ![x] = control[x]]
            /\ enabled' \in {enabled, enabled \cup {x}} /\ stage = "engines" /\ probe.next < Probed
        BY <3>1 DEF CreateEngine, TakeAddressMode
      <4>2. x \in Engines
        BY <4>1, ProbedEngines DEF IInv, SetupInv, ProbeTypes
      <4> HIDE DEF x
      <4>3. QED
        BY <1>1, <2>1, <2>2, <4>1, <4>2 DEF AddressModeAgrees
    <3>2. CASE ~\E ok \in BOOLEAN : CreateEngine(ok)
      <4>1. control' = control /\ addressMode' = addressMode
        BY <3>2 DEF SetupNext, Stop, Release, Prepare, MapBar, IdentifyBars, SetupInterrupts,
           SetPollMode, CreateQueue, PrepareEnds, modeVars
      <4>2. enabled' \in {enabled, {}}
        BY <3>2, EarlierStep, LaterStep DEF SetupNext, Stop, Release, Prepare, SetupInterrupts
      <4>3. QED
        BY <1>1, <2>1, <2>2, <4>1, <4>2 DEF AddressModeAgrees
    <3>3. QED
      BY <3>1, <3>2
  <2>3. QED
    BY <1>1, <2>2 DEF AddressModeAgrees
<1>7. QED
  BY <1>3, <1>4, <1>5, <1>6 DEF FileInv


\* Handles and requests leave starts and stops alone.
LEMMA SetupAlone ==
  ASSUME IInv, UNCHANGED setupVars,
         control' \in [Engines -> 0..1], addressMode' \in [Engines -> 0..1]
  PROVE  SetupInv'
<1>1. /\ UNCHANGED <<device, limit, stage, starts, mapped, numBars, bar, barIdx, granted, maxima>>
      /\ UNCHANGED <<delivery, channelVector, channelInterrupts, irqEngine, probe, irqBit, thread>>
      /\ UNCHANGED <<enabled, poll, queue, staleObject>>
  BY DEF setupVars, barVars, irqVars, engineVars
<1>2. SetupTypeOK' /\ ProbeTypes'
  BY <1>1 DEF IInv, SetupInv, SetupTypeOK, ProbeTypes
<1>3. BarsInOrder' /\ GoneAfterStop'
  BY <1>1 DEF IInv, SetupInv, BarsInOrder, GoneAfterStop, Identified, Running
<1>4. /\ Vectored' = Vectored /\ Wanted' = Wanted /\ Enough' = Enough /\ Probed' = Probed
      /\ Closed' = Closed /\ Running' = Running
      /\ \A x : BitOf(x)' = BitOf(x) /\ Position(x)' = Position(x)
      /\ \A i : VectorOf(i, maxima)' = VectorOf(i, maxima)
  BY <1>1 DEF Vectored, Wanted, Enough, Probed, Closed, ChannelMax, Running, BitOf, Position, VectorOf
<1>5. EnginesInOrder' /\ QueuesInOrder' /\ VectorsInOrder'
  BY <1>1, <1>4 DEF IInv, SetupInv, EnginesInOrder, QueuesInOrder, VectorsInOrder
<1>6. QED
  BY <1>2, <1>3, <1>5 DEF SetupInv

-----------------------------------------------------------------------------
(* Handles *)

\* A handle opened on a BAR has the BAR that the control handlers find.
LEMMA FreshBar ==
  ASSUME IInv, stage = "started", barIdx.config <= 1, NEW type \in BarTypes, NodeBar(type) # NoBar
  PROVE  bar[NodeBar(type)] \in mapped /\ bar[NodeBar(type)] = BarAt(BarIndex(type))
<1>1. /\ numBars = device.bars /\ device.config < device.bars /\ barIdx.config = device.config
      /\ \A i \in BarIdx : i < numBars => bar[i] = <<starts, i>>
      /\ barIdx.user = IF device.config = 1 THEN 0 ELSE NoBar
      /\ barIdx.bypass = IF device.bars - device.config = 2 THEN device.bars - 1 ELSE NoBar
      /\ \A p \in (1..MaxStarts) \X BarIdx :
           p \in mapped <=> \E i \in BarIdx : i < numBars /\ bar[i] = p
  BY DEF IInv, SetupInv, BarsInOrder, Identified, Running
<1>2. /\ device.bars \in 1..MaxBars /\ device.config \in 0..1 /\ starts \in 1..MaxStarts
      /\ MaxBars \in Nat
  BY <1>1, DeviceTypes, SetupAssumption DEF IInv, SetupInv, SetupTypeOK, ProbeTypes
<1>3. NodeBar(type) = BarIndex(type) /\ NodeBar(type) \in BarIdx /\ NodeBar(type) < numBars
  <2>1. CASE type = "control"
    BY <1>1, <1>2, <2>1 DEF NodeBar, BarIndex, BarIdx, NoBar
  <2>2. CASE type = "user"
    BY <1>1, <1>2, <2>2 DEF NodeBar, BarIndex, BarIdx, NoBar
  <2>3. CASE type = "bypass"
    BY <1>1, <1>2, <2>3 DEF NodeBar, BarIndex, BarIdx, NoBar
  <2>4. QED
    BY <2>1, <2>2, <2>3 DEF BarTypes
<1>4. bar[NodeBar(type)] \in (1..MaxStarts) \X BarIdx
  BY <1>1, <1>2, <1>3
<1>5. QED
  BY <1>1, <1>3, <1>4 DEF BarAt

LEMMA CreateStep ==
  ASSUME IInv, NEW f \in Files, NEW n \in Nodes, FileCreate(f, n)
  PROVE  FileInv'
<1>1. /\ stage = "started" /\ state[f] = "closed" /\ state' = [state EXCEPT ![f] = "open"]
      /\ UNCHANGED <<setupVars, modeVars, mdl, virtAddress, mappings, request, at, status, answers,
                      overlapped>>
  BY DEF FileCreate, mapVars, requestVars
<1>2. /\ UNCHANGED <<stage, starts, mapped, bar, barIdx, enabled, queue, control, addressMode>>
  BY <1>1 DEF setupVars, barVars, engineVars, modeVars
<1>3. /\ handle \in [Files -> [node : Nodes \cup {None}, queue : 0..MaxStarts, start : 0..MaxStarts,
                               bar : ((1..MaxStarts) \X BarIdx) \cup {Null}]]
      /\ state \in [Files -> {"closed", "open", "cleaned"}]
      /\ starts \in 0..MaxStarts /\ MaxStarts \in Nat
      /\ queue \in [Engines -> 0..MaxStarts]
      /\ bar \in [BarIdx -> ((1..MaxStarts) \X BarIdx) \cup {Null}]
  BY SetupAssumption DEF IInv, FileInv, FileTypes, SetupInv, SetupTypeOK
<1> DEFINE Rec == [node : Nodes \cup {None}, queue : 0..MaxStarts, start : 0..MaxStarts,
                   bar : ((1..MaxStarts) \X BarIdx) \cup {Null}]
<1>4. PICK h \in Rec :
        /\ handle' = [handle EXCEPT ![f] = h]
        /\ h.node = n /\ h.start = starts
        /\ n.type \in BarTypes => NodeBar(n.type) # NoBar /\ h.bar = bar[NodeBar(n.type)]
        /\ n.type \in Dirs => /\ <<n.type, n.channel>> \in enabled
                              /\ h.queue = queue[<<n.type, n.channel>>]
  <2>1. NoHandle \in Rec
    BY <1>3 DEF NoHandle
  <2>2. CASE n.type \in BarTypes
    <3>1. /\ NodeBar(n.type) # NoBar /\ n.type \notin Dirs
          /\ handle' = [handle EXCEPT ![f] = [NoHandle EXCEPT
                          !.node = n, !.start = starts, !.bar = bar[NodeBar(n.type)]]]
      BY <2>2 DEF FileCreate, BarTypes, Dirs
    <3>2. bar[NodeBar(n.type)] \in ((1..MaxStarts) \X BarIdx) \cup {Null}
      <4>1. NodeBar(n.type) \in BarIdx
        <5>1. /\ numBars = device.bars /\ barIdx.config = device.config
              /\ device.config < device.bars
              /\ barIdx.user \in {0, NoBar} /\ barIdx.bypass \in BarIdx \cup {NoBar}
              /\ device.bars \in 1..MaxBars /\ device.config \in 0..MaxBars /\ MaxBars \in Nat \ {0}
          BY <1>1, DeviceTypes, SetupAssumption
          DEF IInv, SetupInv, SetupTypeOK, BarsInOrder, Identified, Running
        <5>2. 0 \in BarIdx /\ device.config \in BarIdx
          BY <5>1 DEF BarIdx
        <5>3. QED
          BY <2>2, <3>1, <5>1, <5>2 DEF NodeBar, BarTypes
      <4>2. QED
        BY <1>3, <4>1
    <3> DEFINE h == [NoHandle EXCEPT !.node = n, !.start = starts, !.bar = bar[NodeBar(n.type)]]
    <3>3. h \in Rec
      BY <1>3, <2>1, <3>2
    <3>4. h.node = n /\ h.start = starts /\ h.bar = bar[NodeBar(n.type)]
      BY DEF NoHandle
    <3>5. QED
      BY <3>1, <3>3, <3>4
  <2>3. CASE n.type \in Dirs
    <3>1. /\ <<n.type, n.channel>> \in enabled /\ n.type \notin BarTypes
          /\ handle' = [handle EXCEPT ![f] = [NoHandle EXCEPT
                          !.node = n, !.start = starts, !.queue = queue[<<n.type, n.channel>>]]]
      BY <2>3 DEF FileCreate, BarTypes, Dirs
    <3>2. queue[<<n.type, n.channel>>] \in 0..MaxStarts
      BY <1>3, <2>3, NodesAssumption
    <3> DEFINE h == [NoHandle EXCEPT !.node = n, !.start = starts,
                                     !.queue = queue[<<n.type, n.channel>>]]
    <3>3. h \in Rec
      BY <1>3, <2>1, <3>2
    <3>4. h.node = n /\ h.start = starts /\ h.queue = queue[<<n.type, n.channel>>]
      BY DEF NoHandle
    <3>5. QED
      BY <3>1, <3>3, <3>4
  <2>4. CASE n.type \notin BarTypes /\ n.type \notin Dirs
    <3> DEFINE h == [NoHandle EXCEPT !.node = n, !.start = starts]
    <3>1. handle' = [handle EXCEPT ![f] = h]
      BY <2>4 DEF FileCreate
    <3>2. h \in Rec
      BY <1>3, <2>1
    <3>3. h.node = n /\ h.start = starts
      BY DEF NoHandle
    <3>4. QED
      BY <2>4, <3>1, <3>2, <3>3
  <2>5. QED
    BY <2>2, <2>3, <2>4
<1>5. /\ handle'[f] = h
      /\ \A g \in Files \ {f} : handle'[g] = handle[g]
      /\ state'[f] = "open" /\ \A g \in Files \ {f} : state'[g] = state[g]
  BY <1>1, <1>3, <1>4
<1>6. \A r \in Requests : at[r] # "idle" =>
        /\ request[r].file \in Files \ {f} /\ Type(r)' = Type(r) /\ EngineOf(r)' = EngineOf(r)
        /\ Misdirected(r)' = Misdirected(r) /\ MapsBar(r)' = MapsBar(r)
  BY <1>1, <1>5 DEF IInv, FileInv, HandlesKept, Type, EngineOf, Misdirected, MapsBar
<1>7. FileTypes'
  BY <1>1, <1>3, <1>4 DEF IInv, FileInv, FileTypes
<1>8. HandlesKept'
  <2>1. \A g \in Files : state'[g] # "closed" => handle'[g].node \in Nodes
    <3>1. handle'[f].node \in Nodes
      BY <1>4, <1>5
    <3>2. \A g \in Files \ {f} : state'[g] # "closed" => handle'[g].node \in Nodes
      BY <1>5 DEF IInv, FileInv, HandlesKept
    <3>3. QED
      BY <3>1, <3>2
  <2>2. \A r \in Requests :
          at'[r] # "idle" => request'[r].file \in Files /\ state'[request'[r].file] # "closed"
    <3>1. \A r \in Requests : at[r] # "idle" => state[request[r].file] # "closed"
      BY DEF IInv, FileInv, HandlesKept
    <3>2. QED
      BY <1>1, <1>5, <1>6, <3>1
  <2>3. \A r \in Requests :
          at'[r] = "registerSet" => stage' = "started" /\ Type(r)' \in Dirs /\ request'[r].op # "map"
    BY <1>1, <1>2, <1>6 DEF IInv, FileInv, HandlesKept
  <2>4. \A r \in Requests : /\ at'[r] \in {"mdlSet", "mapped"} => MapsBar(r)'
                            /\ at'[r] \in {"queued", "engine"} => ~MapsBar(r)'
    BY <1>1, <1>6 DEF IInv, FileInv, HandlesKept
  <2>5. QED
    BY <2>1, <2>2, <2>3, <2>4 DEF HandlesKept
<1>9. Counted' /\ AnsweredOnce'
  BY <1>1, <1>6 DEF IInv, FileInv, Counted, AnsweredOnce
<1>10. HandleStarts'
  BY <1>1, <1>2, <1>3, <1>4, <1>5 DEF IInv, FileInv, HandleStarts
<1>11. OneSetter' /\ AddressModeAgrees'
  <2>1. \A r \in Requests : Mode(r)' = Mode(r)
    BY <1>1 DEF Mode
  <2>2. \A r \in Requests : at[r] = "registerSet" => EngineOf(r)' = EngineOf(r)
    BY <1>6
  <2>3. OneSetter'
    <3> SUFFICES ASSUME NEW e \in (enabled \ overlapped)'
                 PROVE (/\ \A r, p \in Requests :
                             (/\ at[r] = "registerSet" /\ EngineOf(r) = e
                              /\ at[p] = "registerSet" /\ EngineOf(p) = e) => r = p
                        /\ \A r \in Requests :
                             at[r] = "registerSet" /\ EngineOf(r) = e => control[e] = Mode(r))'
      BY DEF OneSetter
    <3>1. e \in enabled \ overlapped
      BY <1>1, <1>2
    <3>2. /\ \A r, p \in Requests :
               (at[r] = "registerSet" /\ EngineOf(r) = e /\ at[p] = "registerSet" /\ EngineOf(p) = e)
                 => r = p
          /\ \A r \in Requests : at[r] = "registerSet" /\ EngineOf(r) = e => control[e] = Mode(r)
      BY <3>1 DEF IInv, FileInv, OneSetter
    <3>3. QED
      BY <1>1, <1>2, <2>1, <2>2, <3>2
  <2>4. AddressModeAgrees'
    BY <1>1, <1>2, <2>2 DEF IInv, FileInv, AddressModeAgrees
  <2>5. QED
    BY <2>3, <2>4
<1>12. MappingKept'
  <2>1. \A g : MapCalls(g)' = MapCalls(g)
    BY <1>1, <1>6 DEF MapCalls
  <2>2. \A g \in Files : state'[g] # "cleaned" => state[g] # "cleaned"
    BY <1>1, <1>5
  <2>3. QED
    BY <1>1, <2>1, <2>2 DEF IInv, FileInv, MappingKept, MappingOf, NoneFailed
<1>13. FreshHandles'
  <2>1. \A type : BarAt(BarIndex(type))' = BarAt(BarIndex(type))
    BY <1>2 DEF BarAt, BarIndex
  <2>2. barIdx.config <= 1 =>
          /\ n.type \in BarTypes => h.bar \in mapped /\ h.bar = BarAt(BarIndex(n.type))
          /\ n.type \in Dirs => <<n.type, n.channel>> \in enabled /\ h.queue = starts
    BY <1>1, <1>4, FreshBar DEF IInv, SetupInv, QueuesInOrder
  <2> SUFFICES ASSUME NEW g \in Files, state'[g] = "open", handle'[g].start = starts,
                      barIdx.config <= 1
               PROVE  LET m == handle'[g].node IN
                        /\ m.type \in BarTypes => /\ handle'[g].bar \in mapped
                                                  /\ handle'[g].bar = BarAt(BarIndex(m.type))
                        /\ m.type \in Dirs => /\ <<m.type, m.channel>> \in enabled
                                              /\ handle'[g].queue = starts
    BY <1>2, <2>1 DEF FreshHandles, BarAt, BarIndex
  <2>3. CASE g = f
    BY <1>4, <1>5, <2>2, <2>3
  <2>4. CASE g # f
    BY <1>1, <1>5, <2>4 DEF IInv, FileInv, FreshHandles
  <2>5. QED
    BY <2>3, <2>4
<1>14. QED
  BY <1>7, <1>8, <1>9, <1>10, <1>11, <1>12, <1>13 DEF FileInv


\* What does not touch a request that is setting an address mode.
LEMMA SettersKept ==
  ASSUME IInv, UNCHANGED <<enabled, overlapped, control, addressMode>>,
         \A r \in Requests : at'[r] = "registerSet" <=> at[r] = "registerSet",
         \A r \in Requests :
           at[r] = "registerSet" => EngineOf(r)' = EngineOf(r) /\ Mode(r)' = Mode(r)
  PROVE  OneSetter' /\ AddressModeAgrees'
<1>1. OneSetter'
  <2>1. OneSetter
    BY DEF IInv, FileInv
  <2>2. ASSUME NEW e \in enabled', e \notin overlapped', NEW r \in Requests, NEW p \in Requests,
               at'[r] = "registerSet", EngineOf(r)' = e, at'[p] = "registerSet", EngineOf(p)' = e
        PROVE  r = p
    <3>1. /\ e \in enabled \ overlapped /\ at[r] = "registerSet" /\ at[p] = "registerSet"
          /\ EngineOf(r) = e /\ EngineOf(p) = e
      BY <2>2
    <3>2. QED
      BY <2>1, <3>1 DEF OneSetter
  <2>3. ASSUME NEW e \in enabled', e \notin overlapped', NEW r \in Requests,
               at'[r] = "registerSet", EngineOf(r)' = e
        PROVE  control'[e] = Mode(r)'
    BY <2>1, <2>3 DEF OneSetter
  <2>4. QED
    BY ZenonT(60), <2>2, <2>3 DEF OneSetter
<1>2. AddressModeAgrees'
  <2> SUFFICES ASSUME NEW e \in enabled', e \notin overlapped',
                      \A r \in Requests : at'[r] = "registerSet" => EngineOf(r)' # e
               PROVE  control'[e] = addressMode'[e]
    BY DEF AddressModeAgrees
  <2>1. \A r \in Requests : at[r] = "registerSet" => EngineOf(r) # e
    OBVIOUS
  <2>2. QED
    BY <2>1 DEF IInv, FileInv, AddressModeAgrees
<1>3. QED
  BY <1>1, <1>2

LEMMA CleanupStep ==
  ASSUME IInv, NEW f \in Files, FileCleanup(f)
  PROVE  FileInv'
<1>1. /\ state[f] = "open" /\ state' = [state EXCEPT ![f] = "cleaned"]
      /\ \/ /\ mdl' = [mdl EXCEPT ![f] = None]
            /\ mappings' = [mappings EXCEPT ![f] = @ \ {virtAddress[f]}]
         \/ mdl' = mdl /\ mappings' = mappings
      /\ UNCHANGED <<setupVars, modeVars, handle, virtAddress, request, at, status, answers,
                      overlapped>>
  BY DEF FileCleanup, requestVars
<1>2. UNCHANGED <<stage, starts, mapped, bar, barIdx, enabled, control, addressMode>>
  BY <1>1 DEF setupVars, barVars, engineVars, modeVars
<1>3. FileTypes /\ MappingKept /\ HandlesKept
  BY DEF IInv, FileInv
<1>4. /\ state'[f] = "cleaned" /\ \A g \in Files \ {f} : state'[g] = state[g]
      /\ \A g \in Files \ {f} : mdl'[g] = mdl[g] /\ mappings'[g] = mappings[g]
      /\ mappings'[f] \subseteq mappings[f]
      /\ mappings' \in [Files -> SUBSET Requests]
      /\ mdl' \in [Files -> ((1..MaxStarts) \X BarIdx) \cup {Null, Wild, None}]
  BY <1>1, <1>3 DEF FileTypes
<1>5. (\A r : Type(r)' = Type(r)) /\ (\A r : EngineOf(r)' = EngineOf(r))
      /\ (\A r : Misdirected(r)' = Misdirected(r)) /\ (\A r : Mode(r)' = Mode(r))
      /\ (\A r : MapsBar(r)' = MapsBar(r)) /\ \A g : MapCalls(g)' = MapCalls(g)
  BY <1>1 DEF Type, EngineOf, Misdirected, Mode, MapsBar, MapCalls
<1>6. FileTypes'
  BY <1>1, <1>3, <1>4 DEF FileTypes
<1>7. HandlesKept'
  BY ZenonT(60), <1>1, <1>2, <1>3, <1>4, <1>5 DEF HandlesKept
<1>8. Counted' /\ AnsweredOnce' /\ HandleStarts' /\ OneSetter' /\ AddressModeAgrees'
  BY <1>1, <1>2, <1>5, SettersKept DEF IInv, FileInv, Counted, AnsweredOnce, HandleStarts
<1>9. MappingKept'
  <2>1. \A g \in Files : \A r \in mappings'[g] : r \in MapCalls(g) /\ at[r] # "mdlSet"
    BY <1>3, <1>4 DEF MappingKept, MappingOf
  <2>2. \A g \in Files : state'[g] # "cleaned" => g # f
    BY <1>4
  <2>3. QED
    BY <1>1, <1>3, <1>4, <1>5, <2>1, <2>2 DEF MappingKept, MappingOf, NoneFailed
<1>10. FreshHandles'
  <2>1. \A type : BarAt(BarIndex(type))' = BarAt(BarIndex(type))
    BY <1>2 DEF BarAt, BarIndex
  <2>2. \A g \in Files : state'[g] = "open" => state[g] = "open"
    BY <1>1, <1>4
  <2>3. QED
    BY <1>1, <1>2, <2>1, <2>2 DEF IInv, FileInv, FreshHandles
<1>11. QED
  BY <1>6, <1>7, <1>8, <1>9, <1>10 DEF FileInv

-----------------------------------------------------------------------------
(* Requests *)

\* Nothing but requests changes.
OnlyRequests ==
  UNCHANGED <<stage, starts, mapped, bar, barIdx, enabled, handle, state>>

\* What a request alone cannot disturb.
LEMMA HandlesAlone ==
  ASSUME IInv, OnlyRequests
  PROVE  HandleStarts' /\ FreshHandles'
<1>1. \A type : BarAt(BarIndex(type))' = BarAt(BarIndex(type))
  BY DEF OnlyRequests, BarAt, BarIndex
<1>2. HandleStarts' /\ FreshHandles'
  BY <1>1 DEF IInv, FileInv, HandleStarts, FreshHandles, OnlyRequests
<1>3. QED
  BY <1>2

\* What is not a call to map a BAR, or is one that is through, leaves mappings alone.
LEMMA MapsAlone ==
  ASSUME IInv, OnlyRequests, UNCHANGED <<mdl, virtAddress, mappings, request>>,
         NEW r \in Requests, NEW p, at' = [at EXCEPT ![r] = p],
         MapsBar(r) => at[r] = "returned" /\ p = "answered"
  PROVE  MappingKept'
<1>1. FileTypes /\ MappingKept
  BY DEF IInv, FileInv
<1>2. at'[r] = p /\ \A q \in Requests \ {r} : at'[q] = at[q]
  BY <1>1 DEF FileTypes
<1>3. \A q : MapsBar(q)' = MapsBar(q)
  BY DEF MapsBar, Type, OnlyRequests
<1>4. \A q \in Requests : MapsBar(q) =>
        \/ at'[q] = at[q]
        \/ at[q] = "returned" /\ at'[q] = "answered"
  BY <1>2
<1>5. \A f : MapCalls(f)' = MapCalls(f)
  BY <1>3, <1>4 DEF MapCalls
<1>6. \A f : \A q \in MapCalls(f) : /\ q \in Requests /\ MapsBar(q)
                                    /\ at'[q] = "mdlSet" <=> at[q] = "mdlSet"
                                    /\ at'[q] = "mapped" <=> at[q] = "mapped"
  BY <1>4 DEF MapCalls
<1>7. \A f \in Files : \A q \in mappings[f] : q \in MapCalls(f)
  BY <1>1 DEF MappingKept, MappingOf
<1> SUFFICES ASSUME NEW f \in Files PROVE MappingOf(f)'
    BY DEF MappingKept
<1>8. QED
  BY <1>1, <1>5, <1>6, <1>7 DEF MappingKept, MappingOf, NoneFailed, OnlyRequests

\* A request moves on and may be completed; it sets no address mode.
LEMMA MoveStep ==
  ASSUME IInv, OnlyRequests, UNCHANGED <<control, addressMode, request, overlapped>>,
         NEW r \in Requests, at[r] \notin {"idle", "registerSet"},
         NEW p \in Places \ {"idle", "caller", "registerSet"},
         NEW s \in {"none", "success", "error"}, NEW n \in 0..2,
         at' = [at EXCEPT ![r] = p], status' = [status EXCEPT ![r] = s],
         answers' = [answers EXCEPT ![r] = n],
         p \in {"mdlSet", "mapped"} => MapsBar(r), p \in {"queued", "engine"} => ~MapsBar(r),
         p # "answered" => n <= 1,
         ~Misdirected(r) => n = IF p = "answered" \/ (p = "returned" /\ s = "success") THEN 1 ELSE 0,
         mdl' \in [Files -> ((1..MaxStarts) \X BarIdx) \cup {Null, Wild, None}],
         virtAddress' \in [Files -> Requests \cup {None}],
         mappings' \in [Files -> SUBSET Requests],
         MappingKept'
  PROVE  FileInv'
<1>1. FileTypes /\ HandlesKept /\ Counted /\ OneSetter /\ AnsweredOnce /\ AddressModeAgrees
  BY DEF IInv, FileInv
<1>2. /\ at'[r] = p /\ answers'[r] = n /\ status'[r] = s
      /\ \A q \in Requests \ {r} :
           at'[q] = at[q] /\ answers'[q] = answers[q] /\ status'[q] = status[q]
  BY <1>1 DEF FileTypes
<1>3. (\A q : Type(q)' = Type(q)) /\ (\A q : EngineOf(q)' = EngineOf(q))
      /\ (\A q : Misdirected(q)' = Misdirected(q)) /\ (\A q : Mode(q)' = Mode(q))
      /\ \A q : MapsBar(q)' = MapsBar(q)
  BY DEF Type, EngineOf, Misdirected, Mode, MapsBar, OnlyRequests
<1>4. FileTypes'
  BY <1>1 DEF FileTypes, OnlyRequests
<1>5. HandlesKept'
  BY <1>1, <1>2, <1>3 DEF HandlesKept, OnlyRequests
<1>6. Counted' /\ AnsweredOnce'
  BY <1>1, <1>2, <1>3 DEF Counted, AnsweredOnce
<1>7. \A q \in Requests : at'[q] = "registerSet" <=> at[q] = "registerSet"
  BY <1>2
<1>8. OneSetter' /\ AddressModeAgrees'
  BY <1>3, <1>7, SettersKept DEF OnlyRequests
<1>9. QED
  BY <1>4, <1>5, <1>6, <1>8, HandlesAlone DEF FileInv

LEMMA IssueStep ==
  ASSUME IInv, NEW r \in Requests, NEW f \in Files, NEW op \in Ops, Issue(r, f, op)
  PROVE  FileInv'
<1>1. /\ at[r] = "idle" /\ state[f] = "open"
      /\ request' = [request EXCEPT ![r] = [file |-> f, op |-> op]]
      /\ at' = [at EXCEPT ![r] = "caller"]
      /\ UNCHANGED <<setupVars, modeVars, fileVars, status, answers, overlapped>>
  BY DEF Issue
<1>2. OnlyRequests /\ UNCHANGED <<control, addressMode, mdl, virtAddress, mappings, status, answers,
                                   overlapped>>
  BY <1>1 DEF OnlyRequests, setupVars, barVars, engineVars, modeVars, fileVars, mapVars
<1>3. FileTypes /\ HandlesKept /\ Counted /\ OneSetter /\ MappingKept /\ AnsweredOnce
      /\ AddressModeAgrees
  BY DEF IInv, FileInv
<1>4. /\ at'[r] = "caller" /\ request'[r].file = f
      /\ \A q \in Requests \ {r} : at'[q] = at[q] /\ request'[q] = request[q]
  BY <1>1, <1>3 DEF FileTypes
<1>5. \A q \in Requests \ {r} :
        /\ Type(q)' = Type(q) /\ EngineOf(q)' = EngineOf(q)
        /\ Misdirected(q)' = Misdirected(q) /\ Mode(q)' = Mode(q) /\ MapsBar(q)' = MapsBar(q)
  BY <1>2, <1>4 DEF Type, EngineOf, Misdirected, Mode, MapsBar, OnlyRequests
<1>6. FileTypes'
  BY <1>1, <1>2, <1>3 DEF FileTypes, OnlyRequests, Places
<1>7. HandlesKept'
  BY <1>1, <1>2, <1>3, <1>4, <1>5 DEF HandlesKept, OnlyRequests
<1>8. Counted' /\ AnsweredOnce'
  BY <1>1, <1>2, <1>3, <1>4, <1>5 DEF Counted, AnsweredOnce
<1>9. \A q \in Requests : at'[q] = "registerSet" => q # r /\ at[q] = "registerSet"
  BY <1>4
<1>10. \A q \in Requests : at[q] = "registerSet" => q # r /\ at'[q] = "registerSet"
  BY <1>1, <1>4
<1>11. OneSetter' /\ AddressModeAgrees'
  BY <1>2, <1>5, <1>9, <1>10, SettersKept DEF OnlyRequests
<1>12. MappingKept'
  <2>1. \A g : MapCalls(g)' = MapCalls(g)
    BY <1>1, <1>4, <1>5 DEF MapCalls
  <2>2. \A g \in Files : r \notin mappings[g]
    BY <1>1, <1>3 DEF MappingKept, MappingOf, MapCalls
  <2>3. \A g : \A q \in MapCalls(g) : at'[q] = at[q]
    BY <1>1, <1>4 DEF MapCalls
  <2>4. \A g \in Files : \A q \in mappings[g] : at'[q] = at[q]
    BY <1>3, <2>3 DEF MappingKept, MappingOf
  <2>5. QED
    BY <1>2, <1>3, <2>1, <2>3, <2>4 DEF MappingKept, MappingOf, NoneFailed, OnlyRequests
<1>13. QED
  BY <1>2, <1>6, <1>7, <1>8, <1>11, <1>12, HandlesAlone DEF FileInv

\* xdma->bar[i], or what lies before the array, describes something.
LEMMA BarAtType ==
  ASSUME IInv, NEW i
  PROVE  BarAt(i) \in ((1..MaxStarts) \X BarIdx) \cup {Null, Wild} /\ BarAt(i) # None
<1>1. BarAt(i) \in ((1..MaxStarts) \X BarIdx) \cup {Null, Wild}
  BY DEF IInv, SetupInv, SetupTypeOK, BarAt
<1>2. ((1..MaxStarts) \X BarIdx) \cup {Null, Wild} \subseteq Int \X Int
  BY SetupAssumption DEF BarIdx, Null, Wild
<1>3. QED
  BY <1>1, <1>2, NodesAssumption

\* A call to map a BAR moves on: it is one of the handle's calls, the others stay.
LEMMA CallMoves ==
  ASSUME IInv, OnlyRequests, UNCHANGED request,
         NEW r \in Requests, MapsBar(r), NEW p, p \notin {"idle", "caller"},
         at' = [at EXCEPT ![r] = p]
  PROVE  /\ at'[r] = p /\ \A q \in Requests \ {r} : at'[q] = at[q]
         /\ \A g : r \in MapCalls(g)' <=> request[r].file = g
         /\ \A g : \A q : q # r => (q \in MapCalls(g)' <=> q \in MapCalls(g))
         /\ \A g : request[r].file # g => /\ MapCalls(g)' = MapCalls(g)
                                          /\ r \notin MapCalls(g)
<1>1. at'[r] = p /\ \A q \in Requests \ {r} : at'[q] = at[q]
  BY DEF IInv, FileInv, FileTypes
<1>2. \A q : MapsBar(q)' = MapsBar(q)
  BY DEF MapsBar, Type, OnlyRequests
<1>3. \A g : MapCalls(g)' = {q \in Requests : request[q].file = g /\ MapsBar(q)
                                              /\ at'[q] \notin {"idle", "caller"}}
  BY <1>2 DEF MapCalls
<1>4. QED
  BY <1>1, <1>3 DEF MapCalls

\* A call to map a BAR has set file->mdl, or it returns.
LEMMA CallEnds ==
  ASSUME IInv, OnlyRequests, UNCHANGED <<request, mappings>>,
         NEW r \in Requests, MapsBar(r), NEW f \in Files, request[r].file = f,
         NEW p \in {"returned", "mdlSet"}, at' = [at EXCEPT ![r] = p],
         \A g \in Files \ {f} : mdl'[g] = mdl[g] /\ virtAddress'[g] = virtAddress[g],
         p = "returned" =>
           \/ r \in mappings[f] /\ virtAddress'[f] = r /\ mdl'[f] = mdl[f]
           \/ r \notin mappings[f] /\ virtAddress'[f] = virtAddress[f]
           \/ at[r] = "mapped" /\ state[f] = "cleaned",
         p = "mdlSet" => at[r] = "caller" /\ mdl'[f] # None /\ virtAddress'[f] = virtAddress[f]
  PROVE  MappingKept'
<1>1. /\ at'[r] = p /\ \A q \in Requests \ {r} : at'[q] = at[q]
      /\ r \in MapCalls(f)' /\ \A q : q # r => (q \in MapCalls(f)' <=> q \in MapCalls(f))
      /\ \A g : f # g => MapCalls(g)' = MapCalls(g) /\ r \notin MapCalls(g)
  <2>1. p \notin {"idle", "caller"}
    OBVIOUS
  <2>2. QED
    BY <2>1, CallMoves
<1>2. \A g \in Files : MappingOf(g) /\ \A q \in mappings[g] : q \in MapCalls(g) /\ q \in Requests
  BY DEF IInv, FileInv, MappingKept, MappingOf, MapCalls
<1>3. at[r] = "caller" => r \notin mappings[f]
  BY <1>2 DEF MapCalls
<1>4. mappings' = mappings /\ state' = state
  BY DEF OnlyRequests
<1> SUFFICES ASSUME NEW g \in Files PROVE MappingOf(g)'
  BY DEF MappingKept
<1>5. CASE g # f
  <2>0. MapCalls(g)' = MapCalls(g) /\ r \notin MapCalls(g)
    BY <1>1, <1>5
  <2>1. MapCalls(g)' = MapCalls(g) /\ \A q \in MapCalls(g) : at'[q] = at[q]
    BY <1>1, <2>0 DEF MapCalls
  <2>2. mdl'[g] = mdl[g] /\ virtAddress'[g] = virtAddress[g]
    BY <1>5
  <2>3. QED
    BY <1>2, <1>4, <2>1, <2>2 DEF MappingOf, NoneFailed
<1>6. CASE g = f
  <2>1. \A q \in mappings[f] : q \in MapCalls(f)' /\ at'[q] # "mdlSet"
    <3>1. \A q \in mappings[f] : q # r => q \in MapCalls(f)' /\ at'[q] # "mdlSet"
      BY <1>1, <1>2 DEF MappingOf
    <3>2. r \in mappings[f] => r \in MapCalls(f)' /\ at'[r] # "mdlSet"
      BY <1>1, <1>3
    <3>3. QED
      BY <3>1, <3>2
  <2>2. CASE state[f] # "cleaned"
    <3>1. /\ virtAddress[f] # None => virtAddress[f] \in mappings[f]
          /\ \A q \in MapCalls(f) : at[q] = "mapped" => q \in mappings[f]
          /\ \A q \in mappings[f] : at[q] # "mapped" => virtAddress[f] # None
          /\ NoneFailed(f) => mdl[f] # None
      BY <1>2, <2>2 DEF MappingOf
    <3>2. \A q \in MapCalls(f)' : at'[q] = "mapped" => q \in mappings[f]
      BY <1>1, <3>1 DEF MapCalls
    <3>3. p = "returned" => \/ r \in mappings[f] /\ virtAddress'[f] = r /\ mdl'[f] = mdl[f]
                            \/ r \notin mappings[f] /\ virtAddress'[f] = virtAddress[f]
      BY <2>2
    <3>4. virtAddress'[f] # None => virtAddress'[f] \in mappings[f]
      BY <3>1, <3>3
    <3>5. \A q \in mappings[f] : at'[q] # "mapped" => virtAddress'[f] # None
      <4>1. \A q \in mappings[f] : (q # r /\ at'[q] # "mapped") => virtAddress'[f] # None
        BY <1>1, <1>2, <3>1, <3>3, NodesAssumption
      <4>2. r \in mappings[f] => virtAddress'[f] # None
        BY <1>3, <3>3, NodesAssumption
      <4>3. QED
        BY <4>1, <4>2
    <3>6. NoneFailed(f)' => mdl'[f] # None
      <4>1. CASE p = "mdlSet"
        BY <4>1
      <4>2. CASE p = "returned" /\ r \in mappings[f]
        <5>1. mdl'[f] = mdl[f] /\ r \in MapCalls(f) /\ \A q : q \in MapCalls(f)' <=> q \in MapCalls(f)
          BY <1>1, <1>2, <3>3, <4>2
        <5>2. NoneFailed(f)' => NoneFailed(f)
          BY <1>1, <1>4, <4>2, <5>1 DEF NoneFailed, MapCalls
        <5>3. QED
          BY <3>1, <5>1, <5>2
      <4>3. CASE p = "returned" /\ r \notin mappings[f]
        <5>1. ~NoneFailed(f)'
          BY <1>1, <1>4, <4>3 DEF NoneFailed
        <5>2. QED
          BY <5>1
      <4>4. QED
        BY <4>1, <4>2, <4>3
    <3>7. QED
      BY <1>4, <1>6, <2>1, <3>2, <3>4, <3>5, <3>6 DEF MappingOf
  <2>3. CASE state[f] = "cleaned"
    BY <1>4, <1>6, <2>1, <2>3 DEF MappingOf
  <2>4. QED
    BY <2>2, <2>3
<1>7. QED
  BY <1>5, <1>6

\* MoveStep for a call to map a BAR.
LEMMA CallStep ==
  ASSUME IInv, OnlyRequests, UNCHANGED <<control, addressMode, request, overlapped>>,
         NEW r \in Requests, MapsBar(r), at[r] \in {"caller", "mdlSet", "mapped"},
         NEW p \in {"mdlSet", "mapped", "returned"}, NEW s \in {"none", "success", "error"},
         NEW n \in {0, 1}, n = IF p = "returned" /\ s = "success" THEN 1 ELSE 0,
         at' = [at EXCEPT ![r] = p], status' = [status EXCEPT ![r] = s],
         answers' = [answers EXCEPT ![r] = n],
         mdl' \in [Files -> ((1..MaxStarts) \X BarIdx) \cup {Null, Wild, None}],
         virtAddress' \in [Files -> Requests \cup {None}],
         mappings' \in [Files -> SUBSET Requests],
         MappingKept'
  PROVE  FileInv'
<1>1. /\ at[r] \notin {"idle", "registerSet"} /\ p \in Places \ {"idle", "caller", "registerSet"}
      /\ n \in 0..2 /\ n <= 1 /\ p \notin {"queued", "engine", "answered"}
  BY DEF Places
<1>2. p # "answered" => n <= 1
  BY <1>1
<1>3. ~Misdirected(r) => n = IF p = "answered" \/ (p = "returned" /\ s = "success") THEN 1 ELSE 0
  BY <1>1
<1>4. /\ p \in {"mdlSet", "mapped"} => MapsBar(r)
      /\ p \in {"queued", "engine"} => ~MapsBar(r)
  BY <1>1
<1>5. QED
  BY <1>1, <1>2, <1>3, <1>4, MoveStep

\* A call to map a BAR, at any point of it, keeps the mappings in order.
LEMMA MapStep ==
  ASSUME IInv, NEW r \in Requests,
         CreateMdl(r) \/ MapPages(r) \/ MapPagesFails(r) \/ StoreAddress(r)
  PROVE  FileInv'
<1>0. PICK f : f = request[r].file
  OBVIOUS
<1>1. /\ OnlyRequests /\ UNCHANGED <<control, addressMode, request, overlapped>>
      /\ at[r] \in {"caller", "mdlSet", "mapped"}
  BY DEF CreateMdl, MapPages, MapPagesFails, StoreAddress, Succeed, Fail, Return, OnlyRequests,
     setupVars, barVars, engineVars, modeVars
<1>2. FileTypes /\ HandlesKept /\ MappingKept
      /\ mdl \in [Files -> ((1..MaxStarts) \X BarIdx) \cup {Null, Wild, None}]
      /\ virtAddress \in [Files -> Requests \cup {None}] /\ mappings \in [Files -> SUBSET Requests]
      /\ at \in [Requests -> Places] /\ answers \in [Requests -> 0..2]
      /\ status \in [Requests -> {"none", "success", "error"}]
  BY DEF IInv, FileInv, FileTypes
<1>3. f \in Files /\ MapsBar(r) /\ ~Misdirected(r) /\ answers[r] = 0
  <2>1. MapsBar(r)
    BY <1>2 DEF CreateMdl, MapPages, MapPagesFails, StoreAddress, HandlesKept
  <2>2. ~Misdirected(r)
    BY <2>1 DEF MapsBar, Misdirected
  <2>3. answers[r] = 0
    BY <1>1, <2>2 DEF IInv, FileInv, AnsweredOnce
  <2>4. QED
    BY <1>0, <1>1, <2>1, <2>2, <2>3, RequestNode
<1>4. (\A q : MapsBar(q)' = MapsBar(q))
  BY <1>1 DEF MapsBar, Type, OnlyRequests
<1>5. CASE CreateMdl(r)
  <2> DEFINE bars == BarAt(BarIndex(Type(r)))
  <2>1. bars \in ((1..MaxStarts) \X BarIdx) \cup {Null, Wild} /\ bars # None
    BY BarAtType
  <2>2. at[r] = "caller" /\ UNCHANGED <<virtAddress, mappings>>
    BY <1>5 DEF CreateMdl
  <2>3. r \notin mappings[f]
    BY <1>2, <1>3, <2>2 DEF MappingKept, MappingOf, MapCalls
  <2>4. CASE /\ mdl' = [mdl EXCEPT ![f] = bars] /\ at' = [at EXCEPT ![r] = "mdlSet"]
             /\ UNCHANGED <<status, answers>>
    <3> HIDE DEF bars
    <3>1. /\ mdl' \in [Files -> ((1..MaxStarts) \X BarIdx) \cup {Null, Wild, None}]
          /\ mdl'[f] # None /\ \A g \in Files \ {f} : mdl'[g] = mdl[g]
      BY <1>2, <1>3, <2>1, <2>4
    <3>2. MappingKept'
      BY <1>0, <1>1, <1>3, <2>2, <2>4, <3>1, CallEnds
    <3>3. /\ status' = [status EXCEPT ![r] = status[r]]
          /\ answers' = [answers EXCEPT ![r] = 0]
          /\ status[r] \in {"none", "success", "error"}
      BY <1>2, <1>3, <2>4
    <3>4. virtAddress' \in [Files -> Requests \cup {None}] /\ mappings' \in [Files -> SUBSET Requests]
      BY <1>2, <2>2
    <3>5. QED
      BY <1>1, <1>3, <2>2, <2>4, <3>1, <3>2, <3>3, <3>4, CallStep
  <2>5. CASE mdl' \in {mdl, [mdl EXCEPT ![f] = None]} /\ Fail(r)
    <3>1. /\ mdl' \in [Files -> ((1..MaxStarts) \X BarIdx) \cup {Null, Wild, None}]
          /\ \A g \in Files \ {f} : mdl'[g] = mdl[g]
      BY <1>2, <1>3, <2>5
    <3>2. /\ at' = [at EXCEPT ![r] = "returned"] /\ status' = [status EXCEPT ![r] = "error"]
          /\ answers' = [answers EXCEPT ![r] = 0]
      BY <1>2, <1>3, <2>5 DEF Fail, Return
    <3>3. MappingKept'
      BY <1>0, <1>1, <1>3, <2>2, <2>3, <3>1, <3>2, CallEnds
    <3>4. virtAddress' \in [Files -> Requests \cup {None}] /\ mappings' \in [Files -> SUBSET Requests]
      BY <1>2, <2>2
    <3>5. QED
      BY <1>1, <1>3, <2>2, <3>1, <3>2, <3>3, <3>4, CallStep
  <2>6. QED
    BY <1>0, <1>5, <2>4, <2>5 DEF CreateMdl
<1>6. CASE MapPages(r)
  <2>1. /\ at[r] = "mdlSet" /\ mdl[f] # None
        /\ mappings' = [mappings EXCEPT ![f] = @ \cup {r}] /\ at' = [at EXCEPT ![r] = "mapped"]
        /\ UNCHANGED <<mdl, virtAddress, status, answers>>
    BY <1>0, <1>6 DEF MapPages
  <2>2. /\ mappings'[f] = mappings[f] \cup {r} /\ \A g \in Files \ {f} : mappings'[g] = mappings[g]
        /\ mappings' \in [Files -> SUBSET Requests]
    BY <1>2, <1>3, <2>1
  <2>3. /\ at'[r] = "mapped" /\ \A q \in Requests \ {r} : at'[q] = at[q]
        /\ r \in MapCalls(f)' /\ \A q : q # r => (q \in MapCalls(f)' <=> q \in MapCalls(f))
        /\ \A g : f # g => MapCalls(g)' = MapCalls(g) /\ r \notin MapCalls(g)
    <3>1. "mapped" \notin {"idle", "caller"}
      OBVIOUS
    <3>2. QED
      BY <1>0, <1>1, <1>3, <2>1, <3>1, CallMoves
  <2>4. MappingKept'
    <3>1. \A g \in Files : MappingOf(g) /\ \A q \in mappings[g] : q \in MapCalls(g) /\ q \in Requests
      BY <1>2 DEF MappingKept, MappingOf, MapCalls
    <3> SUFFICES ASSUME NEW g \in Files PROVE MappingOf(g)'
      BY DEF MappingKept
    <3>2. state' = state
      BY <1>1 DEF OnlyRequests
    <3>3. CASE g # f
      <4>1. MapCalls(g)' = MapCalls(g) /\ \A q \in MapCalls(g) : at'[q] = at[q]
        BY <2>3, <3>3 DEF MapCalls
      <4>2. QED
        BY <2>1, <2>2, <3>1, <3>2, <3>3, <4>1 DEF MappingOf, NoneFailed
    <3>4. CASE g = f
      <4>1. r \in MapCalls(f) /\ \A q : q \in MapCalls(f)' <=> q \in MapCalls(f)
        BY <1>0, <1>3, <2>1, <2>3 DEF MapCalls
      <4>2. \A q \in MapCalls(f) : q # r => at'[q] = at[q]
        BY <2>3 DEF MapCalls
      <4>3. QED
        BY <2>1, <2>2, <2>3, <3>1, <3>2, <3>4, <4>1, <4>2 DEF MappingOf, NoneFailed
    <3>5. QED
      BY <3>3, <3>4
  <2>5. status' = [status EXCEPT ![r] = status[r]] /\ answers' = [answers EXCEPT ![r] = 0]
        /\ status[r] \in {"none", "success", "error"}
    BY <1>2, <1>3, <2>1
  <2>6. /\ mdl' \in [Files -> ((1..MaxStarts) \X BarIdx) \cup {Null, Wild, None}]
        /\ virtAddress' \in [Files -> Requests \cup {None}]
    BY <1>2, <2>1
  <2>7. QED
    BY <1>1, <1>3, <2>1, <2>2, <2>4, <2>5, <2>6, CallStep
<1>7. CASE MapPagesFails(r)
  <2>1. /\ at[r] = "mdlSet" /\ mdl' = [mdl EXCEPT ![f] = None]
        /\ at' = [at EXCEPT ![r] = "returned"] /\ status' = [status EXCEPT ![r] = "error"]
        /\ UNCHANGED <<virtAddress, mappings, answers>>
    BY <1>0, <1>7 DEF MapPagesFails, Fail, Return
  <2>2. /\ mdl' \in [Files -> ((1..MaxStarts) \X BarIdx) \cup {Null, Wild, None}]
        /\ \A g \in Files \ {f} : mdl'[g] = mdl[g]
    BY <1>2, <1>3, <2>1
  <2>3. r \notin mappings[f]
    BY <1>2, <1>3, <2>1 DEF MappingKept, MappingOf
  <2>4. MappingKept'
    BY <1>0, <1>1, <1>3, <2>1, <2>2, <2>3, CallEnds
  <2>5. answers' = [answers EXCEPT ![r] = 0]
    BY <1>2, <1>3, <2>1
  <2>6. virtAddress' \in [Files -> Requests \cup {None}] /\ mappings' \in [Files -> SUBSET Requests]
    BY <1>2, <2>1
  <2>7. QED
    BY <1>1, <1>3, <2>1, <2>2, <2>4, <2>5, <2>6, CallStep
<1>8. CASE StoreAddress(r)
  <2>1. /\ at[r] = "mapped" /\ virtAddress' = [virtAddress EXCEPT ![f] = r]
        /\ at' = [at EXCEPT ![r] = "returned"] /\ status' = [status EXCEPT ![r] = "success"]
        /\ answers' = [answers EXCEPT ![r] = @ + 1]
        /\ UNCHANGED <<mdl, mappings>>
    BY <1>0, <1>8 DEF StoreAddress, Succeed, Return, Complete
  <2>2. answers' = [answers EXCEPT ![r] = 1]
    BY <1>3, <2>1
  <2>3. /\ virtAddress' \in [Files -> Requests \cup {None}] /\ virtAddress'[f] = r
        /\ \A g \in Files \ {f} : virtAddress'[g] = virtAddress[g]
    BY <1>2, <1>3, <2>1
  <2>4. r \in mappings[f] \/ state[f] = "cleaned"
    <3>1. r \in MapCalls(f)
      BY <1>0, <1>1, <1>3, <2>1 DEF MapCalls
    <3>2. QED
      BY <1>2, <1>3, <2>1, <3>1 DEF MappingKept, MappingOf
  <2>5. MappingKept'
    BY <1>0, <1>1, <1>3, <2>1, <2>3, <2>4, CallEnds
  <2>6. /\ mdl' \in [Files -> ((1..MaxStarts) \X BarIdx) \cup {Null, Wild, None}]
        /\ mappings' \in [Files -> SUBSET Requests]
    BY <1>2, <2>1
  <2>7. QED
    BY <1>1, <1>3, <2>1, <2>2, <2>3, <2>5, <2>6, CallStep
<1>9. QED
  BY <1>5, <1>6, <1>7, <1>8

\* A handler completes the request, returns an error, or leaves the request to the
\* engine's queue; its caller completes what has failed.
Handlers(r) ==
  \/ Enqueue(r) \/ ReadBar(r) \/ WriteBar(r) \/ ReadEvent(r) \/ Forward(r) \/ RejectTransfer(r)
  \/ EngineServes(r) \/ BarControl(r) \/ Query(r) \/ RejectChannel(r) \/ RejectControl(r)
  \/ FinishMap(r) \/ FinishRead(r) \/ FinishWrite(r) \/ FinishControl(r)

LEMMA HandlerStep ==
  ASSUME IInv, NEW r \in Requests, Handlers(r)
  PROVE  /\ FileInv'
         /\ UNCHANGED <<setupVars, modeVars, fileVars>>
<1>1. /\ UNCHANGED <<setupVars, modeVars, fileVars, request, overlapped>>
      /\ \/ Enqueue(r)
         \/ Forward(r)
         \/ EngineServes(r)
         \/ Finish(r)
         \/ at[r] = "queued" /\ Succeed(r) /\ request[r].op # "map"
         \/ at[r] = "queued" /\ Fail(r)
  BY DEF Handlers, Enqueue, ReadBar, WriteBar, ReadEvent, Forward, RejectTransfer, EngineServes,
     BarControl, Query, RejectChannel, RejectControl, FinishMap, FinishRead, FinishWrite,
     FinishControl, Finish, Handled, KeepsFiles, Succeed, Fail, Return
<1>2. /\ OnlyRequests
      /\ UNCHANGED <<control, addressMode, mdl, virtAddress, mappings, request, overlapped>>
  BY <1>1 DEF OnlyRequests, setupVars, barVars, engineVars, modeVars, fileVars, mapVars
<1>3. /\ answers \in [Requests -> 0..2] /\ status \in [Requests -> {"none", "success", "error"}]
      /\ at[r] \in {"idle", "caller"} => answers[r] = 0
      /\ at[r] # "answered" => answers[r] <= 1
      /\ (at[r] \in {"caller", "queued", "engine"} /\ ~Misdirected(r)) => answers[r] = 0
      /\ (at[r] = "returned" /\ status[r] = "error" /\ ~Misdirected(r)) => answers[r] = 0
      /\ at[r] \in {"queued", "engine"} => ~MapsBar(r)
  BY DEF IInv, FileInv, FileTypes, HandlesKept, Counted, AnsweredOnce
<1>4. PICK p \in {"queued", "dropped", "engine", "returned", "answered"},
           s \in {"none", "success", "error"}, n \in 0..2 :
        /\ at[r] \in {"caller", "queued", "engine", "returned"}
        /\ MapsBar(r) => at[r] = "returned" /\ p = "answered"
        /\ at' = [at EXCEPT ![r] = p] /\ status' = [status EXCEPT ![r] = s]
        /\ answers' = [answers EXCEPT ![r] = n]
        /\ p # "answered" => n <= 1
        /\ ~Misdirected(r) =>
             n = IF p = "answered" \/ (p = "returned" /\ s = "success") THEN 1 ELSE 0
  <2>0. /\ status[r] \in {"none", "success", "error"} /\ answers[r] \in 0..2
        /\ UNCHANGED status => status' = [status EXCEPT ![r] = status[r]]
        /\ UNCHANGED answers => answers' = [answers EXCEPT ![r] = answers[r]]
    BY <1>3
  <2>1. CASE Enqueue(r)
    <3>1. PICK p \in {"queued", "dropped"} : at' = [at EXCEPT ![r] = p]
      BY <2>1 DEF Enqueue
    <3>2. at[r] = "caller" /\ answers[r] = 0 /\ ~MapsBar(r) /\ UNCHANGED status
      BY <1>3, <2>1 DEF Enqueue
    <3>3. CASE request[r].op = "map"
      <4>1. Misdirected(r) /\ answers' = [answers EXCEPT ![r] = 1]
        BY <1>3, <2>1, <3>2, <3>3 DEF Enqueue, Complete, Misdirected, MapsBar
      <4>2. 1 \in 0..2 /\ 1 <= 1
        OBVIOUS
      <4>3. QED
        BY <2>0, <3>1, <3>2, <4>1, <4>2
    <3>4. CASE request[r].op # "map"
      <4>1. answers' = [answers EXCEPT ![r] = 0]
        BY <2>0, <2>1, <3>2, <3>4 DEF Enqueue
      <4>2. 0 \in 0..2 /\ 0 <= 1
        OBVIOUS
      <4>3. QED
        BY <2>0, <3>1, <3>2, <4>1, <4>2
    <3>5. QED
      BY <3>3, <3>4
  <2>2. CASE Forward(r)
    <3>1. /\ at[r] = "queued" /\ at' = [at EXCEPT ![r] = "engine"]
          /\ status' = [status EXCEPT ![r] = "success"]
          /\ answers' = [answers EXCEPT ![r] = answers[r]]
      BY <2>0, <2>2 DEF Forward, Handled
    <3>2. QED
      BY <1>3, <2>0, <3>1
  <2>3. CASE at[r] = "queued" /\ Succeed(r) /\ request[r].op # "map"
    <3>1. /\ at' = [at EXCEPT ![r] = "returned"] /\ status' = [status EXCEPT ![r] = "success"]
          /\ answers' = [answers EXCEPT ![r] = answers[r] + 1]
      BY <2>3 DEF Succeed, Return, Complete
    <3>2. answers[r] = 0 /\ ~MapsBar(r)
      BY <1>3, <2>3 DEF Misdirected
    <3>3. answers' = [answers EXCEPT ![r] = 1] /\ 1 \in 0..2 /\ 1 <= 1
      BY <3>1, <3>2
    <3>4. QED
      BY <2>3, <3>1, <3>2, <3>3
  <2>4. CASE at[r] = "queued" /\ Fail(r)
    <3>1. /\ at' = [at EXCEPT ![r] = "returned"] /\ status' = [status EXCEPT ![r] = "error"]
          /\ answers' = [answers EXCEPT ![r] = answers[r]]
      BY <2>0, <2>4 DEF Fail, Return
    <3>2. QED
      BY <1>3, <2>0, <2>4, <3>1
  <2>5. CASE EngineServes(r) \/ Finish(r)
    <3>1. /\ at[r] = "engine" \/ (at[r] = "returned" /\ status[r] = "error")
          /\ at' = [at EXCEPT ![r] = "answered"] /\ UNCHANGED status
          /\ answers' = [answers EXCEPT ![r] = answers[r] + 1]
      BY <2>5 DEF EngineServes, Finish, Complete
    <3>2. answers[r] + 1 \in 0..2 /\ (~Misdirected(r) => answers[r] + 1 = 1)
      BY <1>3, <2>0, <3>1
    <3>3. QED
      BY <1>3, <2>0, <3>1, <3>2
  <2>6. QED
    BY <1>1, <2>1, <2>2, <2>3, <2>4, <2>5
<1>5. MappingKept'
  BY <1>2, <1>4, MapsAlone
<1>6. /\ mdl' \in [Files -> ((1..MaxStarts) \X BarIdx) \cup {Null, Wild, None}]
      /\ virtAddress' \in [Files -> Requests \cup {None}] /\ mappings' \in [Files -> SUBSET Requests]
  BY <1>2 DEF IInv, FileInv, FileTypes
<1>7. QED
  BY <1>1, <1>2, <1>4, <1>5, <1>6, MoveStep DEF Places

LEMMA RegisterStep ==
  ASSUME IInv, NEW r \in Requests, SetAddrModeRegister(r)
  PROVE  FileInv' /\ control' \in [Engines -> 0..1]
<1>1. /\ at[r] = "queued" /\ stage = "started" /\ request[r].op \in {"increment", "fixed"}
      /\ Type(r) \in Dirs
      /\ control' = [control EXCEPT ![EngineOf(r)] = Mode(r)]
      /\ at' = [at EXCEPT ![r] = "registerSet"]
      /\ overlapped' = IF \E q \in Requests : at[q] = "registerSet" /\ EngineOf(q) = EngineOf(r)
                       THEN overlapped \cup {EngineOf(r)} ELSE overlapped
      /\ UNCHANGED <<setupVars, addressMode, fileVars, request, status, answers>>
  BY DEF SetAddrModeRegister, Handled, SetRegister
<1>2. OnlyRequests /\ UNCHANGED <<addressMode, mdl, virtAddress, mappings, request, status, answers>>
  BY <1>1 DEF OnlyRequests, setupVars, barVars, engineVars, fileVars, mapVars
<1>3. HandlesKept /\ Counted /\ OneSetter /\ MappingKept /\ AnsweredOnce /\ AddressModeAgrees
      /\ FileTypes /\ at \in [Requests -> Places]
      /\ overlapped \subseteq Engines
      /\ control \in [Engines -> 0..1] /\ enabled \subseteq Engines
  BY DEF IInv, FileInv, FileTypes, SetupInv, SetupTypeOK
<1>4. EngineOf(r) \in Engines /\ Mode(r) \in 0..1
  <2>1. at[r] # "idle"
    BY <1>1
  <2>2. EngineOf(r) \in Engines
    BY <1>1, <2>1, RequestNode
  <2>3. QED
    BY <2>2 DEF Mode
<1>5. at'[r] = "registerSet" /\ \A q \in Requests \ {r} : at'[q] = at[q]
  BY <1>1, <1>3
<1>6. (\A q : Type(q)' = Type(q)) /\ (\A q : EngineOf(q)' = EngineOf(q))
      /\ (\A q : Misdirected(q)' = Misdirected(q)) /\ (\A q : Mode(q)' = Mode(q))
      /\ (\A q : MapsBar(q)' = MapsBar(q)) /\ ~MapsBar(r)
  BY <1>1, <1>2 DEF Type, EngineOf, Misdirected, Mode, MapsBar, OnlyRequests
<1>7. /\ control' \in [Engines -> 0..1] /\ control'[EngineOf(r)] = Mode(r)
      /\ \A e \in Engines : e # EngineOf(r) => control'[e] = control[e]
      /\ overlapped \subseteq overlapped' /\ overlapped' \subseteq Engines
      /\ EngineOf(r) \notin overlapped' =>
           \A q \in Requests : at[q] = "registerSet" => EngineOf(q) # EngineOf(r)
  BY <1>1, <1>3, <1>4
<1>8. FileTypes'
  BY <1>1, <1>2, <1>3, <1>7 DEF FileTypes, OnlyRequests, Places
<1>9. HandlesKept'
  BY <1>1, <1>2, <1>3, <1>5, <1>6 DEF HandlesKept, OnlyRequests
<1>10. Counted' /\ AnsweredOnce'
  BY <1>1, <1>2, <1>3, <1>5, <1>6 DEF Counted, AnsweredOnce
<1>11. OneSetter'
  <2>1. ASSUME NEW e \in enabled', e \notin overlapped', NEW p \in Requests, NEW q \in Requests,
               at'[p] = "registerSet", EngineOf(p)' = e, at'[q] = "registerSet", EngineOf(q)' = e
        PROVE  p = q
    <3>1. e \in enabled \ overlapped /\ EngineOf(p) = e /\ EngineOf(q) = e
      BY <1>2, <1>6, <1>7, <2>1 DEF OnlyRequests
    <3>2. CASE p = r \/ q = r
      BY <1>5, <1>7, <2>1, <3>1, <3>2
    <3>3. CASE p # r /\ q # r
      <4>1. at[p] = "registerSet" /\ at[q] = "registerSet"
        BY <1>5, <2>1, <3>3
      <4>2. QED
        BY <1>3, <3>1, <4>1 DEF OneSetter
    <3>4. QED
      BY <3>2, <3>3
  <2>2. ASSUME NEW e \in enabled', e \notin overlapped', NEW p \in Requests,
               at'[p] = "registerSet", EngineOf(p)' = e
        PROVE  control'[e] = Mode(p)'
    <3>1. e \in enabled \ overlapped /\ EngineOf(p) = e /\ Mode(p)' = Mode(p)
      BY <1>2, <1>6, <1>7, <2>2 DEF OnlyRequests
    <3>2. CASE p = r
      BY <1>7, <3>1, <3>2
    <3>3. CASE p # r
      <4>1. at[p] = "registerSet"
        BY <1>5, <2>2, <3>3
      <4>2. control[e] = Mode(p)
        BY <1>3, <3>1, <4>1 DEF OneSetter
      <4>3. e # EngineOf(r)
        BY <1>7, <2>2, <3>1, <4>1
      <4>4. QED
        BY <1>3, <1>7, <3>1, <4>2, <4>3
    <3>4. QED
      BY <3>2, <3>3
  <2>3. QED
    BY <2>1, <2>2 DEF OneSetter
<1>12. AddressModeAgrees'
  <2> SUFFICES ASSUME NEW e \in enabled', e \notin overlapped',
                      \A q \in Requests : at'[q] = "registerSet" => EngineOf(q)' # e
               PROVE  control'[e] = addressMode'[e]
    BY DEF AddressModeAgrees
  <2>1. e # EngineOf(r) /\ e \in enabled \ overlapped
    BY <1>2, <1>5, <1>6, <1>7 DEF OnlyRequests
  <2>2. \A q \in Requests : at[q] = "registerSet" => EngineOf(q) # e
    BY <1>1, <1>5, <1>6
  <2>3. control[e] = addressMode[e]
    BY <1>3, <2>1, <2>2 DEF AddressModeAgrees
  <2>4. QED
    BY <1>2, <1>3, <1>7, <2>1, <2>3
<1>13. MappingKept'
  BY <1>1, <1>2, <1>6, MapsAlone
<1>14. QED
  BY <1>2, <1>7, <1>8, <1>9, <1>10, <1>11, <1>12, <1>13, HandlesAlone DEF FileInv

LEMMA FieldStep ==
  ASSUME IInv, NEW r \in Requests, SetAddrModeField(r)
  PROVE  FileInv' /\ addressMode' \in [Engines -> 0..1]
<1>1. /\ at[r] = "registerSet"
      /\ addressMode' = [addressMode EXCEPT ![EngineOf(r)] = Mode(r)]
      /\ at' = [at EXCEPT ![r] = "returned"] /\ status' = [status EXCEPT ![r] = "success"]
      /\ answers' = [answers EXCEPT ![r] = @ + 1]
      /\ UNCHANGED <<setupVars, control, fileVars, request, overlapped>>
  BY DEF SetAddrModeField, Succeed, Return, Complete
<1>2. OnlyRequests /\ UNCHANGED <<control, mdl, virtAddress, mappings, request, overlapped>>
  BY <1>1 DEF OnlyRequests, setupVars, barVars, engineVars, fileVars, mapVars
<1>3. HandlesKept /\ Counted /\ OneSetter /\ MappingKept /\ AnsweredOnce /\ AddressModeAgrees
      /\ FileTypes /\ answers \in [Requests -> 0..2] /\ enabled \subseteq Engines
      /\ at \in [Requests -> Places] /\ status \in [Requests -> {"none", "success", "error"}]
      /\ addressMode \in [Engines -> 0..1]
  BY DEF IInv, FileInv, FileTypes, SetupInv, SetupTypeOK
<1>4. Type(r) \in Dirs /\ request[r].op # "map"
  BY <1>1, <1>3 DEF HandlesKept
<1>5. EngineOf(r) \in Engines /\ Mode(r) \in 0..1 /\ ~Misdirected(r) /\ answers[r] = 0
  <2>1. at[r] \notin {"idle", "answered", "returned"}
    BY <1>1
  <2>2. EngineOf(r) \in Engines
    BY <1>4, <2>1, RequestNode
  <2>3. ~Misdirected(r)
    BY <1>4 DEF Misdirected
  <2>4. answers[r] = 0
    BY <1>3, <2>1, <2>3 DEF AnsweredOnce
  <2>5. QED
    BY <2>2, <2>3, <2>4 DEF Mode
<1>6. /\ at'[r] = "returned" /\ status'[r] = "success"
      /\ answers'[r] = 1 /\ answers' \in [Requests -> 0..2]
      /\ \A q \in Requests \ {r} :
           at'[q] = at[q] /\ status'[q] = status[q] /\ answers'[q] = answers[q]
  <2>1. answers[r] + 1 = 1
    BY <1>5
  <2>2. answers' = [answers EXCEPT ![r] = 1]
    BY <1>1, <2>1
  <2>3. /\ answers'[r] = 1 /\ answers' \in [Requests -> 0..2]
        /\ \A q \in Requests \ {r} : answers'[q] = answers[q]
    <3>1. 1 \in 0..2
      OBVIOUS
    <3>2. answers \in [Requests -> 0..2]
      BY <1>3
    <3>3. QED
      BY <2>2, <3>1, <3>2
  <2>4. /\ at'[r] = "returned" /\ status'[r] = "success"
        /\ \A q \in Requests \ {r} : at'[q] = at[q] /\ status'[q] = status[q]
    BY <1>1, <1>3
  <2>5. QED
    BY <2>3, <2>4
<1>7. (\A q : Type(q)' = Type(q)) /\ (\A q : EngineOf(q)' = EngineOf(q))
      /\ (\A q : Misdirected(q)' = Misdirected(q)) /\ (\A q : Mode(q)' = Mode(q))
      /\ (\A q : MapsBar(q)' = MapsBar(q))
  BY <1>2 DEF Type, EngineOf, Misdirected, Mode, MapsBar, OnlyRequests
<1>8. ~MapsBar(r)
  BY <1>4 DEF MapsBar
<1>9. /\ addressMode' \in [Engines -> 0..1] /\ addressMode'[EngineOf(r)] = Mode(r)
      /\ \A e \in Engines : e # EngineOf(r) => addressMode'[e] = addressMode[e]
  BY <1>1, <1>3, <1>5
<1>10. FileTypes'
  BY <1>1, <1>2, <1>3, <1>6 DEF FileTypes, OnlyRequests, Places
<1>11. HandlesKept'
  BY <1>1, <1>2, <1>3, <1>6, <1>7 DEF HandlesKept, OnlyRequests
<1>12. Counted' /\ AnsweredOnce'
  BY <1>3, <1>6, <1>7 DEF Counted, AnsweredOnce
<1>13. \A q \in Requests : at'[q] = "registerSet" <=> (at[q] = "registerSet" /\ q # r)
  BY <1>6
<1>14. OneSetter'
  <2>1. ASSUME NEW e \in enabled', e \notin overlapped', NEW p \in Requests, NEW q \in Requests,
               at'[p] = "registerSet", EngineOf(p)' = e, at'[q] = "registerSet", EngineOf(q)' = e
        PROVE  p = q
    <3>1. /\ e \in enabled \ overlapped /\ EngineOf(p) = e /\ EngineOf(q) = e
          /\ at[p] = "registerSet" /\ at[q] = "registerSet"
      BY <1>2, <1>7, <1>13, <2>1 DEF OnlyRequests
    <3>2. QED
      BY <1>3, <3>1 DEF OneSetter
  <2>2. ASSUME NEW e \in enabled', e \notin overlapped', NEW p \in Requests,
               at'[p] = "registerSet", EngineOf(p)' = e
        PROVE  control'[e] = Mode(p)'
    <3>1. /\ e \in enabled \ overlapped /\ EngineOf(p) = e /\ Mode(p)' = Mode(p)
          /\ at[p] = "registerSet"
      BY <1>2, <1>7, <1>13, <2>2 DEF OnlyRequests
    <3>2. control[e] = Mode(p)
      BY <1>3, <3>1 DEF OneSetter
    <3>3. QED
      BY <1>2, <3>1, <3>2
  <2>3. QED
    BY <2>1, <2>2 DEF OneSetter
<1>15. AddressModeAgrees'
  <2> SUFFICES ASSUME NEW e \in enabled', e \notin overlapped',
                      \A q \in Requests : at'[q] = "registerSet" => EngineOf(q)' # e
               PROVE  control'[e] = addressMode'[e]
    BY DEF AddressModeAgrees
  <2>1. e \in enabled \ overlapped
    BY <1>2 DEF OnlyRequests
  <2>2. CASE e = EngineOf(r)
    <3>1. control[e] = Mode(r)
      BY <1>1, <1>3, <2>1, <2>2 DEF OneSetter
    <3>2. QED
      BY <1>2, <1>9, <2>2, <3>1
  <2>3. CASE e # EngineOf(r)
    <3>1. \A q \in Requests : at[q] = "registerSet" => EngineOf(q) # e
      BY <1>7, <1>13, <2>3
    <3>2. control[e] = addressMode[e]
      BY <1>3, <2>1, <3>1 DEF AddressModeAgrees
    <3>3. QED
      BY <1>2, <1>3, <1>9, <2>1, <2>3, <3>2
  <2>4. QED
    BY <2>2, <2>3
<1>16. MappingKept'
  BY <1>1, <1>2, <1>8, MapsAlone
<1>17. QED
  BY <1>2, <1>9, <1>10, <1>11, <1>12, <1>14, <1>15, <1>16, HandlesAlone DEF FileInv

-----------------------------------------------------------------------------
(* The theorems *)

LEMMA InitInv == Init => IInv
<1> SUFFICES ASSUME Init PROVE IInv
  OBVIOUS
<1>1. SetupInv
  BY InitInOrder DEF Init
<1>2. /\ handle = [f \in Files |-> NoHandle] /\ state = [f \in Files |-> "closed"]
      /\ mdl = [f \in Files |-> None] /\ virtAddress = [f \in Files |-> None]
      /\ mappings = [f \in Files |-> {}] /\ status = [r \in Requests |-> "none"]
      /\ request = [r \in Requests |-> [file |-> None, op |-> "read"]]
      /\ at = [r \in Requests |-> "idle"] /\ answers = [r \in Requests |-> 0] /\ overlapped = {}
      /\ starts = 0 /\ stage = "stopped" /\ enabled = {} /\ MaxStarts \in Nat
  BY SetupAssumption DEF Init, SetupInit
<1>3. FileTypes
  <2>1. NoHandle \in [node : Nodes \cup {None}, queue : 0..MaxStarts, start : 0..MaxStarts,
                      bar : ((1..MaxStarts) \X BarIdx) \cup {Null}]
    BY <1>2 DEF NoHandle
  <2>2. [file |-> None, op |-> "read"] \in [file : Files \cup {None}, op : Ops]
    BY DEF Ops
  <2>3. QED
    BY <1>2, <2>1, <2>2 DEF FileTypes, Places
<1>4. HandlesKept /\ Counted /\ OneSetter /\ AnsweredOnce /\ AddressModeAgrees
  BY <1>2 DEF HandlesKept, Counted, OneSetter, AnsweredOnce, AddressModeAgrees
<1>5. HandleStarts /\ FreshHandles
  <2>1. \A f \in Files : handle[f].start = 0
    BY <1>2 DEF NoHandle
  <2>2. QED
    BY <1>2, <2>1 DEF HandleStarts, FreshHandles
<1>6. MappingKept
  <2>1. \A f \in Files : MapCalls(f) = {} /\ mappings[f] = {} /\ virtAddress[f] = None
    BY <1>2 DEF MapCalls
  <2>2. QED
    BY <2>1 DEF MappingKept, MappingOf, NoneFailed
<1>7. QED
  BY <1>1, <1>3, <1>4, <1>5, <1>6 DEF IInv, FileInv

LEMMA NextInv == IInv /\ [Next]_vars => IInv'
<1> SUFFICES ASSUME IInv, [Next]_vars PROVE IInv'
  OBVIOUS
<1>0. control \in [Engines -> 0..1] /\ addressMode \in [Engines -> 0..1]
  BY DEF IInv, SetupInv, SetupTypeOK
<1>1. CASE \/ SetupNext /\ UNCHANGED <<fileVars, requestVars>>
           \/ Stop
  BY <1>1, FilesAlone, SetupStep DEF IInv, Stop
<1>2. ASSUME NEW f \in Files, FileCleanup(f) PROVE IInv'
  BY <1>0, <1>2, CleanupStep, SetupAlone DEF FileCleanup, IInv, modeVars
<1>3. ASSUME NEW f \in Files, NEW n \in Nodes, FileCreate(f, n) PROVE IInv'
  BY <1>0, <1>3, CreateStep, SetupAlone DEF FileCreate, IInv, modeVars
<1>4. ASSUME NEW r \in Requests, NEW f \in Files, NEW op \in Ops, Issue(r, f, op) PROVE IInv'
  BY <1>0, <1>4, IssueStep, SetupAlone DEF Issue, IInv, modeVars
<1>5. ASSUME NEW r \in Requests,
             CreateMdl(r) \/ MapPages(r) \/ MapPagesFails(r) \/ StoreAddress(r)
      PROVE  IInv'
  <2>1. UNCHANGED <<setupVars, modeVars>>
    BY <1>5 DEF CreateMdl, MapPages, MapPagesFails, StoreAddress
  <2>2. QED
    BY <1>0, <1>5, <2>1, MapStep, SetupAlone DEF IInv, modeVars
<1>6. ASSUME NEW r \in Requests, SetAddrModeRegister(r) PROVE IInv'
  BY <1>0, <1>6, RegisterStep, SetupAlone DEF SetAddrModeRegister, IInv
<1>7. ASSUME NEW r \in Requests, SetAddrModeField(r) PROVE IInv'
  BY <1>0, <1>7, FieldStep, SetupAlone DEF SetAddrModeField, IInv
<1>8. ASSUME NEW r \in Requests, Handlers(r) PROVE IInv'
  BY <1>0, <1>8, HandlerStep, SetupAlone DEF IInv, modeVars
<1>9. CASE UNCHANGED vars
  <2>1. UNCHANGED <<setupVars, control, addressMode, handle, state, mdl, virtAddress, mappings,
                    request, at, status, answers, overlapped>>
    BY <1>9 DEF vars, modeVars, fileVars, mapVars, requestVars
  <2>2. OnlyRequests
    BY <2>1 DEF OnlyRequests, setupVars, barVars, engineVars
  <2>3. /\ (\A r : Type(r)' = Type(r)) /\ (\A r : EngineOf(r)' = EngineOf(r))
        /\ (\A r : Misdirected(r)' = Misdirected(r)) /\ (\A r : Mode(r)' = Mode(r))
        /\ (\A r : MapsBar(r)' = MapsBar(r)) /\ \A f : MapCalls(f)' = MapCalls(f)
    BY <2>1 DEF Type, EngineOf, Misdirected, Mode, MapsBar, MapCalls
  <2>4. OneSetter' /\ AddressModeAgrees'
    BY <2>1, <2>2, <2>3, SettersKept DEF OnlyRequests
  <2>5. FileTypes' /\ HandlesKept' /\ Counted' /\ AnsweredOnce' /\ MappingKept'
    BY <2>1, <2>2, <2>3 DEF IInv, FileInv, FileTypes, HandlesKept, Counted, AnsweredOnce,
       MappingKept, MappingOf, NoneFailed, OnlyRequests
  <2>6. QED
    BY <1>0, <2>1, <2>2, <2>4, <2>5, HandlesAlone, SetupAlone DEF IInv, FileInv
<1>10. QED
  BY <1>1, <1>2, <1>3, <1>4, <1>5, <1>6, <1>7, <1>8, <1>9 DEF Next, Handlers

LEMMA Invariance == Spec => []IInv
  BY InitInv, NextInv, PTL DEF Spec

\* Variables keep their types, for any set of cores, limits, handles and requests.
THEOREM TypeCorrect == Spec => []TypeOK
<1>1. IInv => TypeOK
  BY DEF IInv, SetupInv, FileInv, FileTypes, TypeOK
<1>2. QED
  BY <1>1, Invariance, PTL

\* A stopped device holds no mapping of a BAR and no thread, and its vectors are reset.
THEOREM AlwaysUndone == Spec => []Undone
<1>1. IInv => Undone
  BY StoppedIsUndone DEF IInv
<1>2. QED
  BY <1>1, Invariance, PTL

\* Every engine of a core with vectors interrupts through an object of its own.
THEOREM AlwaysRouted == Spec => []Routed
<1>1. IInv => Routed
  BY StartedIsRouted DEF IInv
<1>2. QED
  BY <1>1, Invariance, PTL

\* A request is completed by the helper that succeeds or by the caller of the one
\* that fails, once; a request of another handler's kind to map a BAR, and one that
\* cannot be enqueued, are the exceptions.
THEOREM AlwaysAnsweredOnce == Spec => []AnsweredOnce
<1>1. IInv => AnsweredOnce
  BY DEF IInv, FileInv
<1>2. QED
  BY <1>1, Invariance, PTL

\* A handle of this start has what its node stands for.
THEOREM HandlesAlwaysFresh == Spec => []FreshHandles
<1>1. IInv => FreshHandles
  BY DEF IInv, FileInv
<1>2. QED
  BY <1>1, Invariance, PTL

\* The driver's address mode is the engine's.
THEOREM AddressModeAlwaysAgrees == Spec => []AddressModeAgrees
<1>1. IInv => AddressModeAgrees
  BY DEF IInv, FileInv
<1>2. QED
  BY <1>1, Invariance, PTL

\* Only a restart after a failed start, or one with too few interrupts, takes up
\* an object that is gone.
THEOREM StaleAfterFailureOnly == Spec => StaleOnlyAfterFailure
<1>1. IInv /\ [Next]_vars =>
        [~staleObject /\ staleObject' => starts > 1 /\ (stage = "failed" \/ ~Enough)]_setupVars
  <2> SUFFICES ASSUME IInv, [Next]_vars, setupVars' # setupVars, ~staleObject, staleObject'
               PROVE  starts > 1 /\ (stage = "failed" \/ ~Enough)
    OBVIOUS
  <2>1. SetupNext \/ Release
    BY DEF Next, Stop, vars, FileCleanup, FileCreate, Issue, CreateMdl, MapPages, MapPagesFails,
       StoreAddress, Enqueue, ReadBar, WriteBar, ReadEvent, Forward, RejectTransfer, EngineServes,
       BarControl, Query, RejectChannel, RejectControl, KeepsFiles, Finish, FinishMap, FinishRead,
       FinishWrite, FinishControl, SetAddrModeRegister, SetAddrModeField
  <2>2. QED
    BY <2>1, StaleStep DEF IInv
<1>2. QED
  BY <1>1, Invariance, PTL DEF Spec, StaleOnlyAfterFailure

\* A handle that is cleaned up while no call to map its BAR is under way leaves fewer
\* mappings than there were calls, however the calls overlapped.
THEOREM CleanupUnmaps == Spec => UnmappedByCleanup
<1>1. ASSUME IInv, [Next]_vars, NEW f \in Files, state[f] = "open", state'[f] = "cleaned",
             Mapping(f) = {}, MapCalls(f) # {}
      PROVE  mappings'[f] \subseteq MapCalls(f) /\ mappings'[f] # MapCalls(f)
  <2>1. FileCleanup(f)
    <3>1. ASSUME NEW g \in Files, FileCleanup(g) PROVE g = f
      BY <1>1, <3>1 DEF FileCleanup
    <3>2. ~\E g \in Files, n \in Nodes : FileCreate(g, n)
      <4>1. ASSUME NEW g \in Files, NEW n \in Nodes, FileCreate(g, n) PROVE FALSE
        BY <1>1, <4>1 DEF FileCreate, IInv, FileInv, FileTypes
      <4>2. QED
        BY <4>1
    <3>3. state' # state
      BY <1>1
    <3>4. \E g \in Files : FileCleanup(g)
      BY <1>1, <3>2, <3>3
         DEF Next, Stop, vars, Issue, CreateMdl, MapPages, MapPagesFails, StoreAddress, Enqueue,
         ReadBar, WriteBar, ReadEvent, Forward, RejectTransfer, EngineServes, BarControl, Query,
         RejectChannel, RejectControl, KeepsFiles, Finish, FinishMap, FinishRead, FinishWrite,
         FinishControl, SetAddrModeRegister, SetAddrModeField, fileVars
    <3>5. QED
      BY <3>1, <3>4
  <2>2. mappings[f] \subseteq MapCalls(f) /\ mappings \in [Files -> SUBSET Requests]
    BY <1>1 DEF IInv, FileInv, FileTypes, MappingKept, MappingOf
  <2>3. mappings'[f] = mappings[f] \/ mappings'[f] = mappings[f] \ {virtAddress[f]}
    BY <2>1, <2>2 DEF FileCleanup
  <2>4. CASE mappings[f] # MapCalls(f)
    BY <2>2, <2>3, <2>4
  <2>5. CASE mappings[f] = MapCalls(f)
    <3>1. \A r \in MapCalls(f) : at[r] # "mapped"
      BY <1>1 DEF Mapping
    <3>2. virtAddress[f] \in mappings[f] /\ mdl[f] # None
      BY <1>1, <2>5, <3>1 DEF IInv, FileInv, MappingKept, MappingOf, NoneFailed
    <3>3. handle[f].node.type \in BarTypes
      BY <1>1 DEF MapCalls, MapsBar, Type
    <3>4. mappings'[f] = mappings[f] \ {virtAddress[f]}
      BY <2>1, <2>2, <3>2, <3>3 DEF FileCleanup
    <3>5. QED
      BY <2>5, <3>2, <3>4
  <2>6. QED
    BY <2>4, <2>5
<1>2. IInv /\ [Next]_vars =>
        [\A f \in Files :
           (state[f] = "open" /\ state'[f] = "cleaned" /\ Mapping(f) = {} /\ MapCalls(f) # {}) =>
             mappings'[f] \subseteq MapCalls(f) /\ mappings'[f] # MapCalls(f)]_vars
  BY <1>1
<1>3. QED
  BY <1>2, Invariance, PTL DEF Spec, UnmappedByCleanup
=============================================================================

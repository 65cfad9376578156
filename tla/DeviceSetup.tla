---------------------------- MODULE DeviceSetup ----------------------------
(***************************************************************************)
(* How the driver starts and stops a device.                               *)
(*                                                                         *)
(* EvtDevicePrepareHardware opens the device (XDMA_DeviceOpen: map and     *)
(* identify the BARs, set up the interrupts, create the engines), sets the *)
(* poll mode, and creates a queue for each engine.  Any of its steps may   *)
(* fail.  The framework calls EvtDeviceReleaseHardware after a failure as  *)
(* it does at a stop; XDMA_DeviceClose then ends the engines' threads and  *)
(* unmaps the BARs.  The device context outlives a stop, and what is not   *)
(* reset in it is still there at the next start.                           *)
(*                                                                         *)
(* A pointer into a BAR is a pair <<start, index>>: the start that mapped  *)
(* the BAR, and its index.  The channels of a core are numbered from 0     *)
(* without gaps.  WdfInterruptCreate does not fail here: the code does not *)
(* outlive that (GetIrqContext of a null handle).                          *)
(***************************************************************************)
EXTENDS Integers

CONSTANTS
  Devices,     \* the cores: BARs, channels and interrupt capabilities
  Grants,      \* how many interrupt resources the system may grant
  Limits,      \* what XDMA_DeviceOpen may be asked for; the driver asks for zero
  PollModes,   \* what POLL_MODE in the registry may be: of "interrupts", "poll", "missing"
  MaxUser,     \* XDMA_MAX_USER_IRQ
  MaxChannels, \* XDMA_MAX_NUM_CHANNELS
  MaxBars,     \* XDMA_MAX_NUM_BARS
  MaxStarts    \* how often the device is started (a bound)

Dirs    == {"h2c", "c2h"}
Engines == Dirs \X (0..(MaxChannels - 1))
Bits    == 0..(2 * MaxChannels - 1)
BarIdx  == 0..(MaxBars - 1)
NoBar   == -1
Null    == <<0, 0>>
NoObject == -1
NoEngine == <<"none", 0>>
Released == -2  \* the handle of an object the framework has deleted

Device == [bars : 1..MaxBars, config : 0..MaxBars, h2c : 0..MaxChannels,
           c2h : 0..MaxChannels, table : Nat, msi : Nat]
Limit  == [user : Nat, h2c : Nat, c2h : Nat]

ASSUME SetupAssumption ==
  /\ MaxUser \in Nat \ {0} /\ MaxChannels \in Nat \ {0} /\ MaxBars \in Nat \ {0}
  /\ MaxUser + 2 * MaxChannels <= 32 \* a vector register has 5 bits for each
  /\ MaxStarts \in Nat
  /\ Devices \subseteq Device
  /\ Limits \subseteq Limit
  /\ Grants \subseteq Nat

VARIABLES
  device,            \* the core
  limit,             \* what XDMA_DeviceOpen is asked for
  stage,             \* how far the start is, or "started", "failed", "stopped"
  starts,            \* the number of starts so far
  mapped,            \* the BARs mapped into the host's memory
  numBars, bar,      \* xdma->numBars, xdma->bar
  barIdx,            \* userBarIdx, configBarIdx and bypassBarIdx
  granted,           \* the interrupt resources of this start
  maxima,            \* userMax, h2cChannelMax and c2hChannelMax
  delivery,          \* the interrupt objects in use: "none", "vectors", "single"
  channelVector,     \* the vector registers of the interrupt request bits
  channelInterrupts, \* the message of each interrupt object
  irqEngine,         \* the engine in each interrupt object's context
  probe,             \* the next channel to probe, and engineIndex
  irqBit,            \* engine->irqBitMask
  thread,            \* engine->thObject: none, a live thread, or one that is gone
  enabled, poll,     \* engine->enabled, engine->poll
  queue,             \* ctx->engineQueue: the start that created the queue
  control,           \* XDMA_CTRL_NON_INCR_ADDR of the engine's control register
  addressMode,       \* engine->addressMode
  staleObject        \* an object that was gone has been used

barVars    == <<mapped, numBars, bar, barIdx>>
irqVars    == <<granted, maxima, delivery, channelVector, channelInterrupts, irqEngine>>
engineVars == <<probe, irqBit, thread, enabled, poll, queue>>
modeVars   == <<control, addressMode>>
setupVars  == <<device, limit, stage, starts, barVars, irqVars, engineVars, staleObject>>

\* CountChannels
Found(dir) == IF dir = "h2c" THEN device.h2c ELSE device.c2h
EngineExists(e) == e[2] < Found(e[1])

ChannelMax(dir) == IF dir = "h2c" THEN maxima.h2c ELSE maxima.c2h

-----------------------------------------------------------------------------
(* Slips of the code *)

\* A BAR that could not be mapped is counted, and one that was is not.
MapBarUncounted(ok) ==
  /\ stage = "bars" /\ numBars < device.bars
  /\ bar' = [bar EXCEPT ![numBars] = IF ok THEN <<starts, numBars>> ELSE Null]
  /\ mapped' = IF ok THEN mapped \cup {<<starts, numBars>>} ELSE mapped
  /\ IF ok THEN /\ numBars' = numBars + 1
                /\ stage' = stage
           ELSE /\ numBars' = 0
                /\ stage' = "failed"
  /\ UNCHANGED <<device, limit, starts, barIdx, irqVars, engineVars, modeVars, staleObject>>

\* The engines' vectors do not leave a gap for the H2C channels without an engine.
VectorOfDense(i, m) ==
  IF i < m.h2c + m.c2h THEN (m.user + i) % 32 ELSE 0

\* The completion thread is created once in the life of the device context.
InitThreadOnce(e) == thread' = [thread EXCEPT ![e] = IF @ = "none" THEN "live" ELSE @]

\* A C2H engine's bit is counted from its index among all engines.
EngineIdByIndex(e) == IF e[1] = "h2c" THEN probe.index ELSE device.h2c + probe.index

\* EngineCreate takes the engine to be in incremental mode.
AddressModeIncremental(e) == addressMode' = [addressMode EXCEPT ![e] = 0]

-----------------------------------------------------------------------------

\* The device context is zeroed when it is allocated.
SetupInit ==
  /\ device \in Devices /\ limit \in Limits
  /\ stage = "stopped" /\ starts = 0
  /\ mapped = {} /\ numBars = 0 /\ bar = [i \in BarIdx |-> Null]
  /\ barIdx = [user |-> 0, config |-> 0, bypass |-> 0]
  /\ granted = 0 /\ maxima = [user |-> 0, h2c |-> 0, c2h |-> 0]
  /\ delivery = "none"
  /\ channelVector = [i \in Bits |-> 0]
  /\ channelInterrupts = [i \in Bits |-> NoObject]
  /\ irqEngine = [i \in Bits |-> NoEngine]
  /\ probe = [next |-> 0, index |-> 0]
  /\ irqBit = [e \in Engines |-> 0]
  /\ thread = [e \in Engines |-> "none"]
  /\ enabled = {} /\ poll = {}
  /\ queue = [e \in Engines |-> 0]
  /\ control = [e \in Engines |-> 0] /\ addressMode = [e \in Engines |-> 0]
  /\ staleObject = FALSE

\* DeviceDefaultInitialize
Prepare(n) ==
  /\ stage = "stopped" /\ starts < MaxStarts
  /\ stage' = "bars" /\ starts' = starts + 1
  /\ numBars' = 0 /\ bar' = [i \in BarIdx |-> Null]
  /\ barIdx' = [user |-> NoBar, config |-> 0, bypass |-> NoBar]
  /\ delivery' = "none" /\ granted' = n
  /\ enabled' = {} /\ poll' = {}
  /\ UNCHANGED <<device, limit, mapped, maxima, channelVector, channelInterrupts, irqEngine,
                 probe, irqBit, thread, queue, modeVars, staleObject>>

\* MapBARs: one round of its loop.
MapBar(ok) ==
  /\ stage = "bars" /\ numBars < device.bars
  /\ bar' = [bar EXCEPT ![numBars] = IF ok THEN <<starts, numBars>> ELSE Null]
  /\ mapped' = IF ok THEN mapped \cup {<<starts, numBars>>} ELSE mapped
  /\ IF ok THEN /\ numBars' = numBars + 1
                /\ stage' = stage
           ELSE /\ numBars' = numBars
                /\ stage' = "failed"
  /\ UNCHANGED <<device, limit, starts, barIdx, irqVars, engineVars, modeVars, staleObject>>

\* FindConfigBAR looks at each BAR's identifiers.
IdentifyBars ==
  /\ stage = "bars" /\ numBars = device.bars
  /\ LET config == IF device.config < numBars THEN device.config ELSE numBars IN
       IF config = numBars
       THEN /\ barIdx' = [barIdx EXCEPT !.config = config]
            /\ stage' = "failed"
       ELSE /\ barIdx' = [user   |-> IF config = 1 THEN 0 ELSE NoBar,
                          config |-> config,
                          bypass |-> IF numBars - config = 2 THEN numBars - 1 ELSE NoBar]
            /\ stage' = "interrupts"
  /\ UNCHANGED <<device, limit, starts, mapped, numBars, bar, irqVars, engineVars, modeVars,
                 staleObject>>

\* What is asked for, or all there may be.
Maximum(asked, most) == IF asked = 0 \/ asked > most THEN most ELSE asked

Required(m) == m.user + m.h2c + m.c2h

\* programInterrupts: the vector of interrupt request bit i.
VectorOf(i, m) ==
  CASE i < m.h2c -> (m.user + i) % 32
    [] i >= device.h2c /\ i < device.h2c + m.c2h -> (m.user + m.h2c + i - device.h2c) % 32
    [] OTHER -> 0

\* SetupMsixInterrupts takes the resources in their order, the users' first;
\* SetupMultiMsiInterrupts makes every object from the one resource there is.
InterruptObject(i, m, messages) ==
  IF i < m.h2c + m.c2h /\ m.user + i < messages THEN m.user + i ELSE channelInterrupts[i]

SetupVectors(m, messages) ==
  /\ delivery' = "vectors"
  /\ channelVector' = [i \in Bits |-> VectorOf(i, m)]
  /\ channelInterrupts' = [i \in Bits |-> InterruptObject(i, m, messages)]

\* What SetupInterrupts goes by: the sizes that the core's capabilities state,
\* and the interrupt resources the system has granted.
NumMsixVectors  == device.table
NumMsiVectors   == device.msi
NumIrqResources == granted

\* SetupSingleInterrupt
SetupSingle ==
  /\ delivery' = "single"
  /\ channelVector' = [i \in Bits |-> 0]
  /\ UNCHANGED channelInterrupts

\* SetupInterrupts, and the DMA enabler, which may not be created.  The table
\* size decides on MSI-X; how many resources were granted does not.
SetupInterrupts ==
  /\ stage = "interrupts"
  /\ LET m == [user |-> Maximum(limit.user, MaxUser), h2c |-> Maximum(limit.h2c, MaxChannels),
               c2h |-> Maximum(limit.c2h, MaxChannels)]
         rejected == m.h2c > device.h2c \/ m.c2h > device.c2h
         msix == NumMsixVectors >= Required(m)
         msi  == ~msix /\ NumMsiVectors >= Required(m)
     IN
       /\ maxima' = m
       /\ \/ /\ rejected
             /\ UNCHANGED <<delivery, channelVector, channelInterrupts>>
          \/ /\ ~rejected /\ msix
             /\ SetupVectors(m, NumIrqResources)
          \/ /\ ~rejected /\ msi
             /\ SetupVectors(m, IF NumIrqResources > 0 THEN NumMsiVectors ELSE 0)
          \/ /\ ~rejected /\ ~msix /\ ~msi
             /\ SetupSingle
       /\ stage' \in IF rejected \/ (~msix /\ NumIrqResources = 0) THEN {"failed"}
                    ELSE {"engines", "failed"}
  /\ probe' = [next |-> 0, index |-> 0]
  /\ irqEngine' = [i \in Bits |-> NoEngine]
  /\ UNCHANGED <<device, limit, starts, barVars, granted, irqBit, thread, enabled, poll, queue,
                 modeVars, staleObject>>

\* The n-th channel that ProbeEngines creates an engine for.
Probed == maxima.h2c + maxima.c2h
EngineAt(n) == IF n < maxima.h2c THEN <<"h2c", n>> ELSE <<"c2h", n - maxima.h2c>>

\* The engine's interrupt request bit.
EngineId(e) == IF e[1] = "h2c" THEN probe.index ELSE device.h2c + e[2]

\* EngineConfigureInterrupt
ConfigureInterrupt(e) ==
  /\ irqBit' = [irqBit EXCEPT ![e] = EngineId(e)]
  /\ irqEngine' = IF channelInterrupts[probe.index] >= 0
                  THEN [irqEngine EXCEPT ![probe.index] = e] ELSE irqEngine
  /\ staleObject' = (staleObject \/ channelInterrupts[probe.index] = Released)

\* initThread
InitThread(e) == thread' = [thread EXCEPT ![e] = "live"]

TakeAddressMode(e) == addressMode' = [addressMode EXCEPT ![e] = control[e]]

\* ProbeEngines: EngineCreate of the next channel.  It may fail after it has
\* configured the interrupt: a buffer, a lock or the thread is not created.
CreateEngine(ok) ==
  /\ stage = "engines" /\ probe.next < Probed
  /\ LET e == EngineAt(probe.next) IN
       /\ TakeAddressMode(e)
       /\ ConfigureInterrupt(e)
       /\ IF ok
          THEN /\ InitThread(e)
               /\ enabled' = enabled \cup {e}
               /\ stage' = stage
          ELSE /\ UNCHANGED <<thread, enabled>>
               /\ stage' = "failed"
  /\ probe' = [next |-> probe.next + 1, index |-> probe.index + 1]
  /\ UNCHANGED <<device, limit, starts, barVars, granted, maxima, delivery, channelVector,
                 channelInterrupts, poll, queue, control>>

\* GetPollModeParameter, which may find no value in the registry, and
\* XDMA_EngineSetPollMode of each enabled engine.
SetPollMode(mode) ==
  /\ stage = "engines" /\ probe.next = Probed
  /\ IF mode = "missing"
     THEN /\ stage' = "failed"
          /\ UNCHANGED poll
     ELSE /\ stage' = "queues"
          /\ poll' = IF mode = "poll" THEN enabled ELSE {}
  /\ probe' = [probe EXCEPT !.next = 0]
  /\ UNCHANGED <<device, limit, starts, barVars, irqVars, irqBit, thread, enabled, queue, modeVars,
                 staleObject>>

\* EngineCreateQueue of the next enabled engine.
CreateQueue(ok) ==
  /\ stage = "queues" /\ probe.next < Probed
  /\ LET e == EngineAt(probe.next) IN
       IF ok THEN /\ queue' = [queue EXCEPT ![e] = starts]
                  /\ stage' = stage
             ELSE /\ UNCHANGED queue
                  /\ stage' = "failed"
  /\ probe' = [probe EXCEPT !.next = @ + 1]
  /\ UNCHANGED <<device, limit, starts, barVars, irqVars, irqBit, thread, enabled, poll, modeVars,
                 staleObject>>

\* The user events are initialised and registered; EvtDevicePrepareHardware returns.
PrepareEnds ==
  /\ stage = "queues" /\ probe.next = Probed
  /\ stage' = "started"
  /\ UNCHANGED <<device, limit, starts, barVars, irqVars, engineVars, modeVars, staleObject>>

\* closeEngines: terminateThread of each channel that may have an engine.
Closed == {e \in Engines : e[2] < ChannelMax(e[1])}
CloseEngines ==
  /\ thread' = [e \in Engines |-> IF e \in Closed /\ thread[e] = "live" THEN "gone" ELSE thread[e]]
  /\ staleObject' = (staleObject \/ \E e \in Closed : thread[e] = "gone")

\* XDMA_DeviceClose, called by EvtDeviceReleaseHardware.  The framework deletes
\* the interrupt objects; the device context keeps their handles.
Release ==
  /\ stage \in {"started", "failed"}
  /\ stage' = "stopped"
  /\ channelVector' = [i \in Bits |-> 0]
  /\ CloseEngines
  /\ mapped' = mapped \ {bar[i] : i \in 0..(numBars - 1)}
  /\ bar' = [i \in BarIdx |-> IF i < numBars THEN Null ELSE bar[i]]
  /\ channelInterrupts' = [i \in Bits |-> IF channelInterrupts[i] >= 0 THEN Released
                                          ELSE channelInterrupts[i]]
  /\ UNCHANGED <<device, limit, starts, numBars, barIdx, granted, maxima, delivery, irqEngine,
                 probe, irqBit, enabled, poll, queue, modeVars>>

SetupNext ==
  \/ \E n \in Grants : Prepare(n)
  \/ \E ok \in BOOLEAN : MapBar(ok) \/ CreateEngine(ok) \/ CreateQueue(ok)
  \/ IdentifyBars
  \/ SetupInterrupts
  \/ \E mode \in PollModes : SetPollMode(mode)
  \/ PrepareEnds

-----------------------------------------------------------------------------
(* Properties *)

\* The system has granted the interrupts that the chosen delivery needs.
Enough ==
  IF device.table >= Required(maxima) THEN granted >= Required(maxima) ELSE granted > 0

\* Part of the type invariant: each variable of the device context has its type.
SetupTypeOK ==
  /\ device \in Devices /\ limit \in Limits
  /\ stage \in {"stopped", "bars", "interrupts", "engines", "queues", "started", "failed"}
  /\ starts \in 0..MaxStarts
  /\ mapped \subseteq (1..MaxStarts) \X BarIdx
  /\ numBars \in 0..MaxBars
  /\ bar \in [BarIdx -> ((1..MaxStarts) \X BarIdx) \cup {Null}]
  /\ barIdx.user \in {0, NoBar} /\ barIdx.config \in 0..MaxBars
  /\ barIdx.bypass \in BarIdx \cup {NoBar}
  /\ maxima \in [user : 0..MaxUser, h2c : 0..MaxChannels, c2h : 0..MaxChannels]
  /\ delivery \in {"none", "vectors", "single"}
  /\ channelVector \in [Bits -> 0..31]
  /\ channelInterrupts \in [Bits -> Nat \cup {NoObject, Released}]
  /\ irqEngine \in [Bits -> Engines \cup {NoEngine}]
  /\ irqBit \in [Engines -> Bits]
  /\ thread \in [Engines -> {"none", "live", "gone"}]
  /\ enabled \subseteq Engines /\ poll \subseteq enabled
  /\ queue \in [Engines -> 0..MaxStarts]
  /\ control \in [Engines -> 0..1] /\ addressMode \in [Engines -> 0..1]

\* Whatever step of a start has failed, a stopped device holds no mapping of a
\* BAR and no completion thread, and its vector registers are reset
\* (XDMA_DeviceClose after each of EvtDevicePrepareHardware's early returns).
Undone ==
  stage = "stopped" =>
    /\ mapped = {}
    /\ \A e \in Engines : thread[e] # "live"
    /\ \A i \in Bits : channelVector[i] = 0

\* With a message per interrupt request bit, and as many granted as are
\* required, the bit of every engine sends a message of its own, which is no
\* user event's, to the interrupt object that has the engine in its context
\* (programInterrupts, SetupMsixInterrupts and EngineConfigureInterrupt agree).
Routed ==
  (stage = "started" /\ delivery = "vectors" /\ Enough) =>
    \A e \in enabled :
      /\ \E i \in Bits : irqEngine[i] = e /\ channelInterrupts[i] = channelVector[irqBit[e]]
      /\ channelVector[irqBit[e]] >= maxima.user
      /\ \A f \in enabled \ {e} : channelVector[irqBit[f]] # channelVector[irqBit[e]]

\* A thread or an interrupt object that is gone is used by nobody, unless a
\* restart has failed or was granted fewer interrupts than it needs
\* (terminateThread and EngineConfigureInterrupt take a handle that is not null
\* for a live object, and no stop resets one).
StaleOnlyAfterFailure ==
  [][ ~staleObject /\ staleObject' =>
        starts > 1 /\ (stage = "failed" \/ ~Enough) ]_setupVars
=============================================================================

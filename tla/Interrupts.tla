----------------------------- MODULE Interrupts -----------------------------
(***************************************************************************)
(* The driver's interrupt handlers and the user events they signal.        *)
(*                                                                         *)
(* An interrupt request bit belongs to each engine and each user event.    *)
(* With one line or one message for the device (modes "line" and "msi"),   *)
(* EvtInterruptIsr and EvtInterruptDpc serve all bits: the ISR records and *)
(* disables the requested ones, the DPC calls the work of the recorded     *)
(* ones and enables them again.  With a message per bit (mode "vectors")   *)
(* EvtChannelInterruptIsr/Dpc and EvtUserInterruptIsr/Dpc serve one each.  *)
(*                                                                         *)
(* A DPC object may be queued again while it runs, and then run on another *)
(* CPU.  It reads channelIrqPending and userIrqPending without the         *)
(* interrupt lock; the ISR, and the DPC's end, run under it.               *)
(*                                                                         *)
(* The engines are reduced to what their handlers see of them: a request   *)
(* in progress and a status that asserts the bit.  MmEngine and RingStream *)
(* hold the rest.  Power transitions are left out.                         *)
(***************************************************************************)
EXTENDS Integers, Sequences

CONSTANTS
  MMs,       \* engines whose work is EngineProcessTransfer
  STs,       \* engines whose work is EngineProcessRing
  Events,    \* user events
  Order,     \* all of them, in the order EvtInterruptDpc visits them
  Readers,   \* the threads that read user events
  EventOf,   \* the event each of them reads
  Cpus,      \* the processors that run DPCs
  Modes      \* how interrupts may be delivered

Engines == MMs \cup STs
Bits    == Engines \cup Events
Shared  == "shared"

ASSUME InterruptsAssumption ==
  /\ MMs \cap STs = {} /\ Engines \cap Events = {}
  /\ Shared \notin Bits /\ "none" \notin Bits
  /\ EventOf \in [Readers -> Events]
  /\ Modes \subseteq {"line", "msi", "vectors"}

ASSUME OrderAssumption ==
  /\ Order \in Seq(Bits)
  /\ \A b \in Bits : \E i \in 1..Len(Order) : Order[i] = b

VARIABLES
  mode,               \* the delivery SetupInterrupts found
  source,             \* the bits whose engine status or user logic asserts them
  enabled,            \* channelIntEnable and userIntEnable
  message,            \* the interrupts on their way to a processor
  isr,                \* where EvtInterruptIsr is
  fired,              \* its chIrq was not zero
  channelIrqPending,  \* irq->channelIrqPending
  userIrqPending,     \* irq->userIrqPending
  dpcQueued,          \* the DPC objects that are queued
  dpc,                \* what the DPC on each CPU serves, and where it is
  isReqPending,       \* the MM engines with a request in progress
  overtaken,          \* history: those whose own interrupt a time-out has overtaken
  reader              \* where each reader is

irqVars == <<source, enabled, message>>
isrVars == <<isr, fired, channelIrqPending, userIrqPending>>
dpcVars == <<dpcQueued, dpc>>
vars == <<mode, irqVars, isrVars, dpcVars, isReqPending, overtaken, reader>>

NoDpc == [object |-> "none", at |-> 0]

\* The bits an interrupt object serves, in order.
Path(object) == IF object = Shared THEN Order ELSE <<object>>

Objects == IF mode = "vectors" THEN Bits ELSE {Shared}

\* The interrupt object, and the message, of a bit.
ObjectOf(b) == IF mode = "vectors" THEN b ELSE Shared

\* channelIntRequest and userIntRequest show the enabled bits only.
Requested == source \cap enabled

\* A message is sent for each bit that becomes requested.
Messages(taken) ==
  message' = (message \ taken)
               \cup {ObjectOf(b) : b \in (source' \cap enabled') \ Requested}

-----------------------------------------------------------------------------
(* Slips of the code *)

\* channelIrqPending is zeroed before it is written to the enable register.
EnableAfterZero(c) ==
  /\ dpc[c] # NoDpc /\ dpc[c].at > Len(Path(dpc[c].object))
  /\ \/ /\ dpc[c].object = Shared
        /\ isr = "idle"
        /\ enabled' = enabled \cup userIrqPending
        /\ channelIrqPending' = {} /\ userIrqPending' = {}
     \/ /\ dpc[c].object # Shared
        /\ enabled' = IF dpc[c].object \in Events THEN enabled \cup {dpc[c].object} ELSE enabled
        /\ UNCHANGED <<channelIrqPending, userIrqPending>>
  /\ dpc' = [dpc EXCEPT ![c] = NoDpc]
  /\ UNCHANGED <<mode, source, isr, fired, dpcQueued, isReqPending, overtaken, reader>>
  /\ Messages({})

\* EvtUserInterruptDpc does not enable the event again.
UserDpcEnds(c) ==
  /\ dpc[c] # NoDpc /\ dpc[c].at > Len(Path(dpc[c].object))
  /\ \/ /\ dpc[c].object = Shared
        /\ isr = "idle"
        /\ enabled' = enabled \cup channelIrqPending \cup userIrqPending
        /\ channelIrqPending' = {} /\ userIrqPending' = {}
     \/ /\ dpc[c].object # Shared
        /\ UNCHANGED <<enabled, channelIrqPending, userIrqPending>>
  /\ dpc' = [dpc EXCEPT ![c] = NoDpc]
  /\ UNCHANGED <<mode, source, isr, fired, dpcQueued, isReqPending, overtaken, reader>>
  /\ Messages({})

\* EngineProcessTransfer does not enable the engine's interrupt again.
ProcessTransferLeavesOff(b) ==
  /\ IF b \in isReqPending
     THEN /\ isReqPending' = isReqPending \ {b}
          /\ source' = source \ {b}
     ELSE UNCHANGED <<isReqPending, source>>
  /\ UNCHANGED <<enabled, overtaken, reader>>

\* The user interrupts are remembered in the channels' word.
IsrUserInWrongWord ==
  /\ isr = "user"
  /\ LET userIrq == Requested \cap Events IN
       /\ channelIrqPending' = channelIrqPending \cup userIrq
       /\ enabled' = enabled \ userIrq
       /\ dpcQueued' = IF fired \/ userIrq # {} THEN dpcQueued \cup {Shared} ELSE dpcQueued
  /\ isr' = "idle" /\ fired' = FALSE
  /\ UNCHANGED <<mode, source, message, userIrqPending, dpc, isReqPending, overtaken, reader>>

\* The DPC is queued for channel interrupts only.
IsrUserQueuesNone ==
  /\ isr = "user"
  /\ LET userIrq == Requested \cap Events IN
       /\ userIrqPending' = userIrqPending \cup userIrq
       /\ enabled' = enabled \ userIrq
       /\ dpcQueued' = IF fired THEN dpcQueued \cup {Shared} ELSE dpcQueued
  /\ isr' = "idle" /\ fired' = FALSE
  /\ UNCHANGED <<mode, source, message, channelIrqPending, dpc, isReqPending, overtaken, reader>>

\* EvtChannelInterruptIsr and EvtUserInterruptIsr do not disable the interrupt.
VectorIsrLeavesOn(b) ==
  /\ b \in message
  /\ message' = message \ {b}
  /\ dpcQueued' = dpcQueued \cup {b}
  /\ UNCHANGED <<mode, source, enabled, isrVars, dpc, isReqPending, overtaken, reader>>

-----------------------------------------------------------------------------

\* EvtInterruptEnable and its counterparts have enabled every bit.
Init ==
  /\ mode \in Modes
  /\ source = {} /\ enabled = Bits /\ message = {}
  /\ isr = "idle" /\ fired = FALSE
  /\ channelIrqPending = {} /\ userIrqPending = {}
  /\ dpcQueued = {} /\ dpc = [c \in Cpus |-> NoDpc]
  /\ isReqPending = {} /\ overtaken = {}
  /\ reader = [r \in Readers |-> "idle"]

-----------------------------------------------------------------------------
(* The engines and the user logic *)

\* A request is programmed.
Starts(e) ==
  /\ e \in MMs \ isReqPending
  /\ isReqPending' = isReqPending \cup {e}
  /\ UNCHANGED <<mode, irqVars, isrVars, dpcVars, overtaken, reader>>

\* An engine completes a descriptor, or the user logic asserts an event.
Asserts(b) ==
  /\ b \in (isReqPending \cup STs \cup Events) \ source
  /\ source' = source \cup {b}
  /\ UNCHANGED enabled
  /\ Messages({})
  /\ UNCHANGED <<mode, isrVars, dpcVars, isReqPending, overtaken, reader>>

\* The interrupt of an engine's own message is on its way: the message, or what
\* follows once the ISR has disabled it.
Underway(e) == mode = "vectors" /\ (e \in message \/ e \notin enabled)

\* The completion thread's 10 s are over, whether or not the engine has answered
\* meanwhile: it takes the request, clears the status and stops the engine.
TimesOut(e) ==
  /\ e \in isReqPending
  /\ isReqPending' = isReqPending \ {e}
  /\ source' = source \ {e}
  /\ overtaken' = IF Underway(e) THEN overtaken \cup {e} ELSE overtaken
  /\ UNCHANGED <<mode, enabled, message, isrVars, dpcVars, reader>>

-----------------------------------------------------------------------------
(* One interrupt for the device: EvtInterruptIsr *)

\* A line stays asserted as long as a bit is requested.  A message may find its
\* request gone.
IsrChannel ==
  /\ isr = "idle"
  /\ Shared \in message \/ (mode = "line" /\ Requested # {})
  /\ message' = message \ {Shared}
  /\ LET chIrq == Requested \cap Engines IN
       /\ channelIrqPending' = channelIrqPending \cup chIrq
       /\ enabled' = enabled \ chIrq
       /\ fired' = (chIrq # {})
  /\ isr' = "user"
  /\ UNCHANGED <<mode, source, userIrqPending, dpcVars, isReqPending, overtaken, reader>>

\* WdfInterruptQueueDpcForIsr, unless the interrupt was spurious.
QueueDpc(any) == dpcQueued' = IF any THEN dpcQueued \cup {Shared} ELSE dpcQueued

IsrUser ==
  /\ isr = "user"
  /\ LET userIrq == Requested \cap Events IN
       /\ userIrqPending' = userIrqPending \cup userIrq
       /\ enabled' = enabled \ userIrq
       /\ QueueDpc(fired \/ userIrq # {})
  /\ isr' = "idle" /\ fired' = FALSE
  /\ UNCHANGED <<mode, source, message, channelIrqPending, dpc, isReqPending, overtaken, reader>>

-----------------------------------------------------------------------------
(* An interrupt for each bit: EvtChannelInterruptIsr and EvtUserInterruptIsr *)

VectorIsr(b) ==
  /\ b \in message
  /\ message' = message \ {b}
  /\ enabled' = enabled \ {b}
  /\ dpcQueued' = dpcQueued \cup {b}
  /\ UNCHANGED <<mode, source, isrVars, dpc, isReqPending, overtaken, reader>>

-----------------------------------------------------------------------------
(* EvtInterruptDpc, EvtChannelInterruptDpc and EvtUserInterruptDpc *)

DpcBegin(c) ==
  /\ dpc[c] = NoDpc
  /\ \E object \in dpcQueued :
       /\ dpcQueued' = dpcQueued \ {object}
       /\ dpc' = [dpc EXCEPT ![c] = [object |-> object, at |-> 1]]
  /\ UNCHANGED <<mode, irqVars, isrVars, isReqPending, overtaken, reader>>

\* EngineProcessTransfer: with no request pending it returns at once and leaves
\* the interrupt as it is.
ProcessTransfer(e) ==
  /\ IF e \in isReqPending
     THEN /\ isReqPending' = isReqPending \ {e}
          /\ source' = source \ {e}
          /\ enabled' = enabled \cup {e}
          /\ overtaken' = overtaken \ {e}
     ELSE UNCHANGED <<isReqPending, overtaken, source, enabled>>
  /\ UNCHANGED reader

\* EngineProcessRing reads and clears the status.
ProcessRing(e) ==
  /\ source' = source \ {e}
  /\ UNCHANGED <<isReqPending, overtaken, enabled, reader>>

\* KePulseEvent releases those who wait at that moment and leaves the event reset.
HandleUserEvent(v) ==
  /\ reader' = [r \in Readers |->
       IF EventOf[r] = v /\ reader[r] = "wait" THEN "true" ELSE reader[r]]
  /\ UNCHANGED <<isReqPending, overtaken, source, enabled>>

Work(b) ==
  \/ b \in MMs /\ ProcessTransfer(b)
  \/ b \in STs /\ ProcessRing(b)
  \/ b \in Events /\ HandleUserEvent(b)

\* The shared DPC serves the recorded bits, a vector's DPC its own.
DpcVisit(c) ==
  /\ dpc[c] # NoDpc /\ dpc[c].at <= Len(Path(dpc[c].object))
  /\ LET b == Path(dpc[c].object)[dpc[c].at] IN
       IF dpc[c].object # Shared \/ b \in channelIrqPending \cup userIrqPending
       THEN Work(b)
       ELSE UNCHANGED <<isReqPending, overtaken, source, enabled, reader>>
  /\ dpc' = [dpc EXCEPT ![c].at = @ + 1]
  /\ Messages({})
  /\ UNCHANGED <<mode, isrVars, dpcQueued>>

\* Under the interrupt lock the shared DPC enables and forgets all that is
\* recorded by now; the DPC of an event enables that event again, that of an
\* engine nothing.
DpcEnd(c) ==
  /\ dpc[c] # NoDpc /\ dpc[c].at > Len(Path(dpc[c].object))
  /\ \/ /\ dpc[c].object = Shared
        /\ isr = "idle"
        /\ enabled' = enabled \cup channelIrqPending \cup userIrqPending
        /\ channelIrqPending' = {} /\ userIrqPending' = {}
     \/ /\ dpc[c].object # Shared
        /\ enabled' = IF dpc[c].object \in Events THEN enabled \cup {dpc[c].object} ELSE enabled
        /\ UNCHANGED <<channelIrqPending, userIrqPending>>
  /\ dpc' = [dpc EXCEPT ![c] = NoDpc]
  /\ UNCHANGED <<mode, source, isr, fired, dpcQueued, isReqPending, overtaken, reader>>
  /\ Messages({})

-----------------------------------------------------------------------------
(* EvtReadUserEvent and its clients *)

\* KeClearEvent, which has nothing to clear, and the wait.
ReadUserEvent(r) ==
  /\ reader[r] = "idle"
  /\ reader' = [reader EXCEPT ![r] = "wait"]
  /\ UNCHANGED <<mode, irqVars, isrVars, dpcVars, isReqPending, overtaken>>

\* The 3 s wait outlasts an interrupt's service, so it only runs out while the
\* event is not asserted; the application is told FALSE ("timed out, so try again").
ReadTimesOut(r) ==
  /\ reader[r] = "wait" /\ EventOf[r] \notin source
  /\ reader' = [reader EXCEPT ![r] = "idle"]
  /\ UNCHANGED <<mode, irqVars, isrVars, dpcVars, isReqPending, overtaken>>

\* The application has been told TRUE, removes the source of the event, and reads again.
ClientServes(r) ==
  /\ reader[r] = "true"
  /\ source' = source \ {EventOf[r]}
  /\ UNCHANGED enabled
  /\ Messages({})
  /\ reader' = [reader EXCEPT ![r] = "idle"]
  /\ UNCHANGED <<mode, isrVars, dpcVars, isReqPending, overtaken>>

-----------------------------------------------------------------------------

IsrStep == IsrChannel \/ IsrUser
DpcStep(c) == DpcVisit(c) \/ DpcEnd(c)
ReaderStep(r) == ReadUserEvent(r) \/ ClientServes(r)

Next ==
  \/ \E e \in MMs : Starts(e) \/ TimesOut(e)
  \/ \E b \in Bits : Asserts(b) \/ VectorIsr(b)
  \/ IsrStep
  \/ \E c \in Cpus : DpcBegin(c) \/ DpcStep(c)
  \/ \E r \in Readers : ReaderStep(r) \/ ReadTimesOut(r)

Spec == Init /\ [][Next]_vars

\* The steps that serve an object's queued DPC, on whichever processor.
DpcIsRun(object) == \E c \in Cpus : DpcBegin(c) /\ dpcQueued' = dpcQueued \ {object}

\* Interrupts are taken and DPCs run on; a processor takes its queued DPCs in
\* order, so each has its turn although the processors are busy in between.
\* Nothing is asked of the engines, the user logic and the applications.
SharedTaken     == WF_vars(IsrStep)
VectorTaken(b)  == WF_vars(VectorIsr(b))
DpcGoesOn(c)    == WF_vars(DpcStep(c))
HasTurn(object) == SF_vars(DpcIsRun(object))

Fairness ==
  /\ SharedTaken
  /\ \A b \in Bits : VectorTaken(b)
  /\ \A c \in Cpus : DpcGoesOn(c)
  /\ \A object \in Bits \cup {Shared} : HasTurn(object)

FairSpec == Spec /\ Fairness

-----------------------------------------------------------------------------
(* Properties *)

\* Every variable stays within its type.
TypeOK ==
  /\ mode \in Modes
  /\ source \subseteq Bits /\ enabled \subseteq Bits
  /\ message \subseteq Objects
  /\ isr \in {"idle", "user"} /\ fired \in BOOLEAN
  /\ channelIrqPending \subseteq Engines /\ userIrqPending \subseteq Events
  /\ dpcQueued \subseteq Objects
  /\ \A c \in Cpus : dpc[c] # NoDpc =>
       /\ dpc[c].object \in Objects
       /\ dpc[c].at \in 1..(Len(Path(dpc[c].object)) + 1)
  /\ isReqPending \subseteq MMs /\ overtaken \subseteq MMs
  /\ reader \in [Readers -> {"idle", "wait", "true"}]

\* Somebody is still to run the DPC of an object to its end.
DpcOnItsWay(object) == object \in dpcQueued \/ \E c \in Cpus : dpc[c].object = object

\* An engine whose handlers may never enable its interrupt again: that of a ring,
\* whose DPC never does (ring_msix), and that of a transfer whose own interrupt was
\* on its way when the request timed out, for its DPC then finds no request.
LeftOff(b) == mode = "vectors" /\ (b \in STs \/ b \in overtaken)

\* No interrupt is disabled and forgotten: what the shared ISR disabled is
\* recorded, and what is recorded has a DPC on its way to enable it, whatever
\* ISRs, DPCs and time-outs did meanwhile; a vector's own DPC is on its way, but
\* for the engines LeftOff names.
DisabledIsRecorded ==
  \A b \in Bits \ enabled :
    /\ mode # "vectors" => b \in channelIrqPending \cup userIrqPending
    /\ ~LeftOff(b) => DpcOnItsWay(ObjectOf(b)) \/ (isr = "user" /\ fired)

\* An assertion that is enabled has its message or its ISR on the way: a bit the
\* shared DPC enables without having served it is requested anew.
RequestedIsSeen ==
  \A b \in Requested : \/ ObjectOf(b) \in message
                       \/ mode = "line"
                       \/ isr = "user" /\ b \in Events

\* Interrupts are taken before any DPC goes on, as their priority demands of the
\* processor they are sent to, and before a wait of 10 s is over; from some time on
\* it is always so.
PromptIsr ==
  dpc' # dpc \/ ~(isReqPending \subseteq isReqPending') =>
    isr = "idle" /\ message = {} /\ ~(mode = "line" /\ Requested # {})
PromptInTheEnd == <>[][PromptIsr]_vars

\* EvtInterruptIsr is called, or holds the lock half way.
IsrDue == isr = "user" \/ Shared \in message \/ (mode = "line" /\ Requested # {})

\* A DPC can go on: only the shared one's end waits for the interrupt lock.
DpcCanGo(c) ==
  /\ dpc[c] # NoDpc
  /\ dpc[c].object = Shared /\ dpc[c].at > Len(Order) => isr = "idle"

CanTake(b)     == ENABLED <<VectorIsr(b)>>_vars
CanGoOn(c)     == ENABLED <<DpcStep(c)>>_vars
CanRun(object) == ENABLED <<DpcIsRun(object)>>_vars

\* Whoever has something to do can do it: an ISR and a DPC do not stop in the
\* middle, whatever they find of the engines' requests, and no message and no
\* queued DPC is beyond serving.
HandlersGoOn ==
  /\ IsrDue => ENABLED <<IsrStep>>_vars
  /\ \A b \in message \ {Shared} : CanTake(b)
  /\ \A c \in Cpus : DpcCanGo(c) => CanGoOn(c)
  /\ \A object \in dpcQueued : (\E c \in Cpus : dpc[c] = NoDpc) => CanRun(object)

\* Somebody who is to serve a bit can go on: its ISR, its DPC, or those for whose
\* processors its DPC is queued.
ServerCanMove(b) ==
  \/ mode # "vectors" /\ ENABLED <<IsrStep>>_vars
  \/ CanTake(b)
  \/ ObjectOf(b) \in dpcQueued /\ CanRun(ObjectOf(b))
  \/ \E c \in Cpus : /\ dpc[c].object = ObjectOf(b) \/ ObjectOf(b) \in dpcQueued
                     /\ CanGoOn(c)

\* Nobody waits for nobody: while an engine or an event asserts its bit, whether the
\* bit is enabled or not, there is an ISR or a DPC to serve it that can take a step.
\* EvtInterruptIsr disables what it finds and relies on a DPC that enables it, and
\* the DPC relies on being queued once more for what it has passed.
NeverStuck == HandlersGoOn /\ \A b \in source : LeftOff(b) \/ ServerCanMove(b)

\* An engine's work is done whenever it asks for it.  Were interrupts always taken
\* after the DPC has passed the engine and before it ends, the DPC would enable
\* and forget it for ever.
EnginesServed ==
  PromptInTheEnd => \A e \in Engines : e \in source /\ ~LeftOff(e) ~> e \notin source

\* A reader that waits for an event that is asserted is told, although an event
\* pulsed while nobody waits is lost: it is pulsed again until its source is gone.
HeldEventTold ==
  PromptInTheEnd => \A r \in Readers :
    reader[r] = "wait" /\ EventOf[r] \in source
      ~> reader[r] = "true" \/ EventOf[r] \notin source
=============================================================================

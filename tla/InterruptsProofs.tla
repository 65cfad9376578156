-------------------------- MODULE InterruptsProofs --------------------------
(***************************************************************************)
(* What holds of Interrupts for every set of engines, events, readers and  *)
(* CPUs, every order in which the shared DPC visits them, and every mode.  *)
(* The second half is about liveness: that engines are served and held     *)
(* events told, as long as the handlers go on (HandlersGoOn).              *)
(***************************************************************************)
EXTENDS Interrupts, Induction, FiniteSetTheorems

\* The DPCs' part of the type invariant, as a function's type.
DpcTypes ==
  /\ dpc \in [Cpus -> [object : Bits \cup {Shared, "none"}, at : Nat]]
  /\ \A c \in Cpus : dpc[c] # NoDpc =>
       /\ dpc[c].object \in Objects
       /\ dpc[c].at \in 1..(Len(Path(dpc[c].object)) + 1)

\* EvtInterruptIsr runs for the shared interrupt object only.
IsrIsShared == isr = "user" => mode # "vectors"

Typed == TypeOK /\ DpcTypes /\ IsrIsShared

\* The path of an interrupt object consists of bits.
LEMMA PathBits ==
  \A object \in Bits \cup {Shared} :
    /\ Path(object) \in Seq(Bits)
    /\ object # Shared => Len(Path(object)) = 1 /\ Path(object)[1] = object
<1> SUFFICES ASSUME NEW object \in Bits \cup {Shared}
             PROVE /\ Path(object) \in Seq(Bits)
                   /\ object # Shared => Len(Path(object)) = 1 /\ Path(object)[1] = object
  OBVIOUS
<1>1. CASE object = Shared
  BY <1>1, OrderAssumption DEF Path
<1>2. CASE object # Shared
  BY <1>2 DEF Path
<1>3. QED
  BY <1>1, <1>2

LEMMA ObjectsAreBits ==
  Objects \subseteq Bits \cup {Shared} /\ \A b \in Bits : ObjectOf(b) \in Objects
BY DEF Objects, ObjectOf

\* A message goes to an interrupt object.
LEMMA MessagesTyped ==
  ASSUME NEW taken, message \subseteq Objects, source \subseteq Bits,
         source' \subseteq Bits, mode' = mode, Messages(taken)
  PROVE  message' \subseteq Objects'
<1>1. Objects' = Objects
  BY DEF Objects
<1>2. \A b \in source' : ObjectOf(b) \in Objects
  BY ObjectsAreBits
<1>3. QED
  BY <1>1, <1>2 DEF Messages

\* Initially every variable has its type.
LEMMA TypedInit == Init => Typed
<1> SUFFICES ASSUME Init PROVE Typed
  OBVIOUS
<1> USE DEF Init
<1>1. dpc \in [Cpus -> [object : Bits \cup {Shared, "none"}, at : Nat]]
  BY DEF NoDpc
<1>2. \A c \in Cpus : dpc[c] = NoDpc
  OBVIOUS
<1>3. reader \in [Readers -> {"idle", "wait", "true"}]
  OBVIOUS
<1>4. QED
  BY <1>1, <1>2, <1>3 DEF Typed, TypeOK, DpcTypes, IsrIsShared, Bits

\* A DPC that visits a bit keeps the types.
LEMMA TypedVisit == ASSUME Typed, NEW c \in Cpus, DpcVisit(c) PROVE Typed'
<1> USE DEF Typed
<1> DEFINE object == dpc[c].object
<1> DEFINE b == Path(object)[dpc[c].at]
<1>1. object \in Objects /\ dpc[c].at \in 1..Len(Path(object)) /\ dpc[c] # NoDpc
  <2>1. dpc[c] # NoDpc /\ dpc[c].at <= Len(Path(object))
    BY DEF DpcVisit
  <2>2. object \in Objects /\ dpc[c].at \in 1..(Len(Path(object)) + 1)
    BY <2>1 DEF DpcTypes
  <2>3. Len(Path(object)) \in Nat
    BY <2>2, PathBits, ObjectsAreBits
  <2>4. QED
    BY <2>1, <2>2, <2>3
<1>2. b \in Bits /\ Len(Path(object)) \in Nat
  BY <1>1, PathBits, ObjectsAreBits
<1>3. /\ mode' = mode /\ isr' = isr /\ fired' = fired /\ dpcQueued' = dpcQueued
      /\ channelIrqPending' = channelIrqPending /\ userIrqPending' = userIrqPending
      /\ Messages({}) /\ dpc' = [dpc EXCEPT ![c].at = @ + 1]
      /\ (Work(b) \/ UNCHANGED <<isReqPending, overtaken, source, enabled, reader>>)
  BY DEF DpcVisit, isrVars
<1>4. /\ isReqPending' \subseteq MMs /\ overtaken' \subseteq MMs /\ source' \subseteq Bits /\ enabled' \subseteq Bits
      /\ reader' \in [Readers -> {"idle", "wait", "true"}]
  <2>1. CASE Work(b)
    BY <2>1, <1>2 DEF Work, ProcessTransfer, ProcessRing, HandleUserEvent, TypeOK
  <2>2. CASE UNCHANGED <<isReqPending, overtaken, source, enabled, reader>>
    BY <2>2 DEF TypeOK
  <2>3. QED
    BY <1>3, <2>1, <2>2
<1>5. message' \subseteq Objects'
  BY <1>3, <1>4, MessagesTyped DEF TypeOK
<1>6. Objects' = Objects
  BY <1>3 DEF Objects
<1>7. dpc' \in [Cpus -> [object : Bits \cup {Shared, "none"}, at : Nat]]
  BY <1>3 DEF DpcTypes
<1>8. \A k \in Cpus : dpc'[k] # NoDpc =>
        /\ dpc'[k].object \in Objects
        /\ dpc'[k].at \in 1..(Len(Path(dpc'[k].object)) + 1)
  <2> SUFFICES ASSUME NEW k \in Cpus, dpc'[k] # NoDpc
               PROVE /\ dpc'[k].object \in Objects
                     /\ dpc'[k].at \in 1..(Len(Path(dpc'[k].object)) + 1)
    OBVIOUS
  <2>1. CASE k = c
    <3>1. dpc'[c].object = object /\ dpc'[c].at = dpc[c].at + 1
      BY <1>3 DEF DpcTypes
    <3>2. QED
      BY <2>1, <3>1, <1>1, <1>2
  <2>2. CASE k # c
    <3>1. dpc'[k] = dpc[k]
      BY <2>2, <1>3 DEF DpcTypes
    <3>2. QED
      BY <3>1 DEF DpcTypes
  <2>3. QED
    BY <2>1, <2>2
<1>9. DpcTypes'
  BY <1>6, <1>7, <1>8 DEF DpcTypes
<1>10. TypeOK'
  BY <1>3, <1>4, <1>5, <1>6, <1>9 DEF TypeOK, DpcTypes
<1>11. QED
  BY <1>3, <1>9, <1>10 DEF IsrIsShared
\* Every step keeps every variable within its type.
LEMMA TypedStep == Typed /\ [Next]_vars => Typed'
<1> SUFFICES ASSUME Typed, [Next]_vars PROVE Typed'
  OBVIOUS
<1> USE InterruptsAssumption DEF IsrIsShared, irqVars, isrVars, dpcVars
<1>o. Bits = Engines \cup Events /\ Engines = MMs \cup STs
  BY DEF Bits, Engines
<1>m. mode' = mode => Objects' = Objects
  BY DEF Objects
\* Most steps leave the DPCs alone.
<1>d. ASSUME UNCHANGED <<mode, dpc>> PROVE DpcTypes'
  BY <1>d, <1>m DEF Typed, DpcTypes
<1>t. ASSUME UNCHANGED <<mode, dpc>>, source' \subseteq Bits, enabled' \subseteq Bits,
             message' \subseteq Objects, isr' \in {"idle", "user"}, fired' \in BOOLEAN,
             channelIrqPending' \subseteq Engines, userIrqPending' \subseteq Events,
             dpcQueued' \subseteq Objects, isReqPending' \subseteq MMs, overtaken' \subseteq MMs,
             reader' \in [Readers -> {"idle", "wait", "true"}], IsrIsShared'
      PROVE  Typed'
  BY <1>t, <1>d, <1>m DEF Typed, TypeOK, DpcTypes
<1>1. ASSUME NEW e \in MMs, Starts(e) PROVE Typed'
  BY <1>1, <1>t DEF Starts, Typed, TypeOK
<1>2. ASSUME NEW e \in MMs, TimesOut(e) PROVE Typed'
  BY <1>2, <1>t DEF TimesOut, Typed, TypeOK
<1>3. ASSUME NEW b \in Bits, Asserts(b) PROVE Typed'
  <2>1. message' \subseteq Objects
    BY <1>3, MessagesTyped, <1>m DEF Asserts, Typed, TypeOK
  <2>2. source' \subseteq Bits
    BY <1>3 DEF Asserts, Typed, TypeOK
  <2>3. QED
    BY <1>3, <2>1, <2>2, <1>t DEF Asserts, Typed, TypeOK
<1>4. ASSUME NEW b \in Bits, VectorIsr(b) PROVE Typed'
  BY <1>4, <1>t DEF VectorIsr, Typed, TypeOK
<1>5. CASE IsrChannel
  <2>1. mode # "vectors"
    BY <1>5 DEF IsrChannel, Typed, TypeOK, Objects
  <2>2. QED
    BY <1>5, <2>1, <1>t, <1>o DEF IsrChannel, Typed, TypeOK
<1>6. CASE IsrUser
  <2>1. Shared \in Objects
    BY <1>6 DEF IsrUser, Typed, Objects
  <2>2. dpcQueued' \subseteq Objects
    BY <1>6, <2>1 DEF IsrUser, QueueDpc, Typed, TypeOK
  <2>3. QED
    BY <1>6, <2>2, <1>t, <1>o DEF IsrUser, Typed, TypeOK
<1>7. ASSUME NEW c \in Cpus, DpcBegin(c) PROVE Typed'
  <2>1. PICK object \in dpcQueued :
          /\ dpcQueued' = dpcQueued \ {object}
          /\ dpc' = [dpc EXCEPT ![c] = [object |-> object, at |-> 1]]
    BY <1>7 DEF DpcBegin
  <2>2. object \in Objects /\ object \in Bits \cup {Shared}
    BY ObjectsAreBits DEF Typed, TypeOK
  <2>3. UNCHANGED <<mode, irqVars, isrVars, isReqPending, overtaken, reader>>
    BY <1>7 DEF DpcBegin
  <2>4. dpc' \in [Cpus -> [object : Bits \cup {Shared, "none"}, at : Nat]]
    BY <2>1, <2>2 DEF Typed, DpcTypes
  <2>5. 1 \in 1..(Len(Path(object)) + 1)
    BY <2>2, PathBits
  <2>6. \A k \in Cpus : dpc'[k] # NoDpc =>
          /\ dpc'[k].object \in Objects
          /\ dpc'[k].at \in 1..(Len(Path(dpc'[k].object)) + 1)
    BY <2>1, <2>2, <2>5 DEF Typed, DpcTypes
  <2>7. DpcTypes'
    BY <2>3, <2>4, <2>6, <1>m DEF DpcTypes
  <2>8. QED
    BY <2>1, <2>3, <2>7, <1>m DEF Typed, TypeOK, DpcTypes
<1>8. ASSUME NEW c \in Cpus, DpcVisit(c) PROVE Typed'
  BY <1>8, TypedVisit
<1>9. ASSUME NEW c \in Cpus, DpcEnd(c) PROVE Typed'
  <2>1. enabled' \subseteq Bits
    BY <1>9, <1>o DEF DpcEnd, Typed, TypeOK
  <2>2. message' \subseteq Objects
    BY <1>9, <2>1, MessagesTyped, <1>m DEF DpcEnd, Typed, TypeOK
  <2>3. dpc' = [dpc EXCEPT ![c] = NoDpc] /\ mode' = mode
    BY <1>9 DEF DpcEnd
  <2>4. DpcTypes'
    BY <2>3, <1>m DEF Typed, DpcTypes, NoDpc
  <2>5. /\ channelIrqPending' \subseteq Engines /\ userIrqPending' \subseteq Events
    BY <1>9 DEF DpcEnd, Typed, TypeOK
  <2>6. QED
    BY <1>9, <2>1, <2>2, <2>3, <2>4, <2>5, <1>m DEF DpcEnd, Typed, TypeOK, DpcTypes
<1>10. ASSUME NEW r \in Readers, ReadUserEvent(r) \/ ReadTimesOut(r) PROVE Typed'
  BY <1>10, <1>t DEF ReadUserEvent, ReadTimesOut, Typed, TypeOK
<1>11. ASSUME NEW r \in Readers, ClientServes(r) PROVE Typed'
  <2>1. message' \subseteq Objects
    BY <1>11, MessagesTyped, <1>m DEF ClientServes, Typed, TypeOK
  <2>2. QED
    BY <1>11, <2>1, <1>t DEF ClientServes, Typed, TypeOK
<1>12. CASE UNCHANGED vars
  BY <1>12, <1>t DEF vars, Typed, TypeOK
<1>13. QED
  BY <1>1, <1>2, <1>3, <1>4, <1>5, <1>6, <1>7, <1>8, <1>9, <1>10, <1>11, <1>12
     DEF Next, IsrStep, DpcStep, ReaderStep

\* No handler ever leaves the state outside its types, whatever the mode.
THEOREM TypeCorrect == Spec => []TypeOK
<1>1. Spec => []Typed
  BY TypedInit, TypedStep, PTL DEF Spec
<1>2. Typed => TypeOK
  BY DEF Typed
<1>3. QED
  BY <1>1, <1>2, PTL

-----------------------------------------------------------------------------
(* RequestedIsSeen *)

\* A step that leaves the interrupt's registers and the ISR alone.
LEMMA SeenKept ==
  ASSUME RequestedIsSeen, UNCHANGED <<mode, source, enabled, message, isr>>
  PROVE  RequestedIsSeen'
BY DEF RequestedIsSeen, Requested, ObjectOf

\* A step that changes the registers sends the messages this takes.
LEMMA SeenBySending ==
  ASSUME RequestedIsSeen, UNCHANGED <<mode, isr>>, source' \subseteq Bits, Messages({})
  PROVE  RequestedIsSeen'
<1> SUFFICES ASSUME NEW b \in Requested'
             PROVE  (ObjectOf(b) \in message \/ mode = "line" \/ (isr = "user" /\ b \in Events))'
  BY DEF RequestedIsSeen
<1>1. ObjectOf(b)' = ObjectOf(b)
  BY DEF ObjectOf
<1>2. b \in source' \cap enabled' /\ b \in Bits
  BY DEF Requested
<1>3. message \subseteq message'
  BY DEF Messages
<1>4. CASE b \in Requested
  BY <1>1, <1>3, <1>4 DEF RequestedIsSeen
<1>5. CASE b \notin Requested
  BY <1>1, <1>2, <1>5 DEF Messages
<1>6. QED
  BY <1>4, <1>5

LEMMA SeenInit == Init => RequestedIsSeen
BY DEF Init, RequestedIsSeen, Requested

\* Every step keeps a message, or the ISR, on the way for each requested bit.
LEMMA SeenStep == Typed /\ Typed' /\ RequestedIsSeen /\ [Next]_vars => RequestedIsSeen'
<1> SUFFICES ASSUME Typed, Typed', RequestedIsSeen, [Next]_vars PROVE RequestedIsSeen'
  OBVIOUS
<1> USE DEF irqVars, isrVars, dpcVars
<1>b. source' \subseteq Bits /\ enabled' \subseteq Bits
  BY DEF Typed, TypeOK
<1>1. ASSUME NEW e \in MMs, Starts(e) PROVE RequestedIsSeen'
  BY <1>1, SeenKept DEF Starts
<1>t. ASSUME NEW e \in MMs, TimesOut(e) PROVE RequestedIsSeen'
  <2>1. source' \subseteq source /\ UNCHANGED <<mode, enabled, message, isr>>
    BY <1>t DEF TimesOut
  <2>2. QED
    BY <2>1 DEF RequestedIsSeen, Requested, ObjectOf
<1>2. ASSUME NEW b \in Bits, Asserts(b) PROVE RequestedIsSeen'
  BY <1>2, <1>b, SeenBySending DEF Asserts
<1>3. ASSUME NEW b \in Bits, VectorIsr(b) PROVE RequestedIsSeen'
  <2> SUFFICES ASSUME NEW a \in Requested'
               PROVE (ObjectOf(a) \in message \/ mode = "line" \/ (isr = "user" /\ a \in Events))'
    BY DEF RequestedIsSeen
  <2>1. /\ mode' = mode /\ isr' = isr /\ source' = source /\ b \in message
        /\ message' = message \ {b} /\ enabled' = enabled \ {b}
    BY <1>3 DEF VectorIsr
  <2>2. mode = "vectors"
    BY <2>1, InterruptsAssumption DEF Typed, TypeOK, Objects
  <2>3. a \in Requested /\ a # b
    BY <2>1 DEF Requested
  <2>4. ObjectOf(a) = a /\ ObjectOf(a)' = a
    BY <2>1, <2>2 DEF ObjectOf
  <2>5. QED
    BY <2>1, <2>3, <2>4 DEF RequestedIsSeen
<1>4. CASE IsrChannel
  <2> SUFFICES ASSUME NEW a \in Requested' PROVE isr' = "user" /\ a \in Events
    BY DEF RequestedIsSeen
  <2>1. source' = source /\ isr' = "user" /\ enabled' = enabled \ (Requested \cap Engines)
    BY <1>4 DEF IsrChannel
  <2>2. a \in Requested /\ a \notin Engines /\ a \in Bits
    BY <2>1, <1>b DEF Requested
  <2>3. QED
    BY <2>1, <2>2 DEF Bits
<1>5. CASE IsrUser
  <2> SUFFICES ASSUME NEW a \in Requested' PROVE (ObjectOf(a) \in message \/ mode = "line")'
    BY DEF RequestedIsSeen
  <2>1. /\ source' = source /\ mode' = mode /\ message' = message
        /\ enabled' = enabled \ (Requested \cap Events)
    BY <1>5 DEF IsrUser
  <2>2. a \in Requested /\ a \notin Events
    BY <2>1 DEF Requested
  <2>3. ObjectOf(a)' = ObjectOf(a)
    BY <2>1 DEF ObjectOf
  <2>4. QED
    BY <2>1, <2>2, <2>3 DEF RequestedIsSeen
<1>6. ASSUME NEW c \in Cpus, DpcBegin(c) PROVE RequestedIsSeen'
  BY <1>6, SeenKept DEF DpcBegin
<1>7. ASSUME NEW c \in Cpus, DpcVisit(c) \/ DpcEnd(c) PROVE RequestedIsSeen'
  BY <1>7, <1>b, SeenBySending DEF DpcVisit, DpcEnd
<1>8. ASSUME NEW r \in Readers, ReadUserEvent(r) \/ ReadTimesOut(r) PROVE RequestedIsSeen'
  BY <1>8, SeenKept DEF ReadUserEvent, ReadTimesOut
<1>9. ASSUME NEW r \in Readers, ClientServes(r) PROVE RequestedIsSeen'
  BY <1>9, <1>b, SeenBySending DEF ClientServes
<1>10. CASE UNCHANGED vars
  BY <1>10, SeenKept DEF vars
<1>11. QED
  BY <1>1, <1>t, <1>2, <1>3, <1>4, <1>5, <1>6, <1>7, <1>8, <1>9, <1>10
     DEF Next, IsrStep, DpcStep, ReaderStep

\* A requested interrupt is never lost: its message or its ISR is on the way
\* (the shared DPC enables bits it has not served, which are requested anew).
THEOREM RequestsAlwaysSeen == Spec => []RequestedIsSeen
<1>1. Init => Typed /\ RequestedIsSeen
  BY TypedInit, SeenInit
<1>2. Typed /\ RequestedIsSeen /\ [Next]_vars => (Typed /\ RequestedIsSeen)'
  BY TypedStep, SeenStep
<1>3. QED
  BY <1>1, <1>2, PTL DEF Spec

-----------------------------------------------------------------------------
(* DisabledIsRecorded *)

\* What the shared ISR disabled is recorded, and its DPC is on its way.
SharedRecorded ==
  mode # "vectors" =>
    \A b \in Bits \ enabled :
      /\ b \in channelIrqPending \cup userIrqPending
      /\ DpcOnItsWay(Shared) \/ (isr = "user" /\ fired)

\* An event's own DPC is on its way.
EventOnItsWay == mode = "vectors" => \A v \in Events \ enabled : DpcOnItsWay(v)

\* A memory-mapped engine asserts its bit only while its request is in progress.
AsksWhenPending == \A e \in MMs : e \in source => e \in isReqPending

\* The DPC on c is still to call the engine's work.
ToServe(c, e) == dpc[c].object = e /\ dpc[c].at = 1

\* An engine with an interrupt of its own is either enabled, with nothing but
\* perhaps its message on the way, or disabled, with at most one of a queued DPC and
\* a DPC that is still to serve it; unless a time-out has overtaken its interrupt,
\* its status is still set then and there is one.
ServedOnce(e) ==
  /\ e \in message => e \in enabled /\ (e \in source \/ e \in overtaken)
  /\ e \in dpcQueued => e \notin enabled
  /\ \A c \in Cpus : ToServe(c, e) =>
       /\ e \notin enabled /\ e \notin dpcQueued
       /\ \A k \in Cpus : ToServe(k, e) => k = c
  /\ e \notin enabled => \/ e \in overtaken
                         \/ /\ e \in source
                            /\ e \in dpcQueued \/ \E c \in Cpus : ToServe(c, e)

OneToServe == mode = "vectors" => \A e \in MMs : ServedOnce(e)

Recorded == SharedRecorded /\ EventOnItsWay /\ AsksWhenPending /\ OneToServe

LEMMA RecordedInit == Init => Recorded
<1> SUFFICES ASSUME Init PROVE Recorded
  OBVIOUS
<1>1. \A c \in Cpus : dpc[c] = NoDpc
  BY DEF Init
<1>2. SharedRecorded /\ EventOnItsWay /\ AsksWhenPending
  BY DEF Init, SharedRecorded, EventOnItsWay, AsksWhenPending, Bits
<1>3. OneToServe
  BY <1>1 DEF Init, OneToServe, ServedOnce, ToServe, NoDpc, Bits, Engines
<1>4. QED
  BY <1>2, <1>3 DEF Recorded

\* EvtInterruptIsr does not run when every bit has its own message.
LEMMA IsrNotWithVectors == Typed /\ (IsrChannel \/ IsrUser) => mode # "vectors"
BY InterruptsAssumption DEF Typed, TypeOK, IsrIsShared, IsrChannel, IsrUser, Objects

\* A DPC goes on to serve, or ends, without leaving its object.
LEMMA DpcStepsOn ==
  ASSUME Typed, NEW c \in Cpus
  PROVE  /\ DpcBegin(c) => \E object \in dpcQueued :
              /\ dpcQueued' = dpcQueued \ {object} /\ dpc[c] = NoDpc
              /\ dpc'[c] = [object |-> object, at |-> 1]
              /\ \A k \in Cpus : k # c => dpc'[k] = dpc[k]
         /\ DpcVisit(c) =>
              /\ dpc'[c].object = dpc[c].object /\ dpc'[c].at = dpc[c].at + 1
              /\ dpc[c].at \in Nat \ {0}
              /\ \A k \in Cpus : k # c => dpc'[k] = dpc[k]
         /\ DpcEnd(c) => dpc'[c] = NoDpc /\ \A k \in Cpus : k # c => dpc'[k] = dpc[k]
<1>1. dpc \in [Cpus -> [object : Bits \cup {Shared, "none"}, at : Nat]]
  BY DEF Typed, DpcTypes
<1>2. dpc[c] # NoDpc => dpc[c].at \in Nat \ {0}
  <2>1. dpc[c] # NoDpc => dpc[c].at \in 1..(Len(Path(dpc[c].object)) + 1)
    BY DEF Typed, DpcTypes
  <2>2. \A x : \A y \in 1..x : y # 0
    OBVIOUS
  <2>3. QED
    BY <1>1, <2>1, <2>2
<1>3. QED
  BY <1>1, <1>2 DEF DpcBegin, DpcVisit, DpcEnd

\* Calling the work of a bit disables nothing.
LEMMA WorkEnables ==
  ASSUME NEW b \in Bits, Work(b)
  PROVE  /\ enabled \subseteq enabled'
         /\ \A e \in MMs : e # b =>
              /\ e \in source' <=> e \in source
              /\ e \in isReqPending' <=> e \in isReqPending
              /\ e \in overtaken' <=> e \in overtaken
              /\ e \in enabled' <=> e \in enabled
         /\ b \in MMs =>
              IF b \in isReqPending
              THEN /\ b \notin isReqPending' /\ b \notin source' /\ b \in enabled'
                   /\ b \notin overtaken'
              ELSE UNCHANGED <<isReqPending, overtaken, source, enabled>>
BY InterruptsAssumption
   DEF Work, ProcessTransfer, ProcessRing, HandleUserEvent, Bits, Engines

\* Nor does a step of a DPC through its loop.
LEMMA VisitWorks ==
  ASSUME Typed, NEW c \in Cpus, DpcVisit(c)
  PROVE  \E b \in Bits :
           /\ b = Path(dpc[c].object)[dpc[c].at]
           /\ Work(b) \/ UNCHANGED <<isReqPending, overtaken, source, enabled>>
           /\ dpc[c].object # Shared => Work(b) /\ b = dpc[c].object /\ dpc[c].at = 1
<1> DEFINE object == dpc[c].object
<1>1. dpc[c] # NoDpc /\ dpc[c].at <= Len(Path(object))
  BY DEF DpcVisit
<1>2. object \in Bits \cup {Shared} /\ dpc[c].at \in 1..(Len(Path(object)) + 1)
  BY <1>1, ObjectsAreBits DEF Typed, DpcTypes
<1>3. /\ Path(object) \in Seq(Bits)
      /\ object # Shared => Len(Path(object)) = 1 /\ Path(object)[1] = object
  BY <1>2, PathBits
<1>4. Len(Path(object)) \in Nat
  BY <1>3
<1>5. dpc[c].at \in 1..Len(Path(object))
  BY <1>1, <1>2, <1>4
<1>6. Path(object)[dpc[c].at] \in Bits
  BY <1>3, <1>5
<1>7. object # Shared => dpc[c].at = 1
  <2>1. \A x : x \in 1..1 => x = 1
    OBVIOUS
  <2>2. object # Shared => dpc[c].at \in 1..1
    BY <1>3, <1>5
  <2>3. QED
    BY <2>1, <2>2
<1>8. QED
  BY <1>3, <1>6, <1>7 DEF DpcVisit

LEMMA VisitEnables ==
  ASSUME Typed, NEW c \in Cpus, DpcVisit(c)
  PROVE  enabled \subseteq enabled'
BY VisitWorks, WorkEnables

LEMMA SharedStep == Typed /\ SharedRecorded /\ [Next]_vars => SharedRecorded'
<1> SUFFICES ASSUME Typed, SharedRecorded, [Next]_vars PROVE SharedRecorded'
  OBVIOUS
<1>0. mode' = mode
  BY DEF Next, vars, IsrStep, DpcStep, ReaderStep, Starts, TimesOut, Asserts, VectorIsr, IsrChannel,
     IsrUser, DpcBegin, DpcVisit, DpcEnd, ReadUserEvent, ReadTimesOut, ClientServes
<1> SUFFICES ASSUME mode # "vectors" PROVE SharedRecorded'
  BY <1>0 DEF SharedRecorded
<1>k. ASSUME UNCHANGED <<dpcQueued, dpc, isr, fired, channelIrqPending, userIrqPending>>,
             enabled \subseteq enabled'
      PROVE  SharedRecorded'
  BY <1>0, <1>k DEF SharedRecorded, DpcOnItsWay
<1>1. ASSUME NEW e \in MMs, Starts(e) \/ TimesOut(e) PROVE SharedRecorded'
  BY <1>1, <1>k DEF Starts, TimesOut, irqVars, isrVars, dpcVars
<1>2. ASSUME NEW b \in Bits, Asserts(b) PROVE SharedRecorded'
  BY <1>2, <1>k DEF Asserts, isrVars, dpcVars
<1>3. ASSUME NEW b \in Bits, VectorIsr(b) PROVE FALSE
  BY <1>3, InterruptsAssumption DEF VectorIsr, Typed, TypeOK, Objects
<1>4. CASE IsrChannel
  BY <1>0, <1>4 DEF IsrChannel, SharedRecorded, DpcOnItsWay, dpcVars, Requested
<1>5. CASE IsrUser
  BY <1>0, <1>5 DEF IsrUser, QueueDpc, SharedRecorded, DpcOnItsWay, Requested
<1>6. ASSUME NEW c \in Cpus, DpcBegin(c) PROVE SharedRecorded'
  <2>1. PICK object \in dpcQueued : dpc'[c] = [object |-> object, at |-> 1]
    BY <1>6, DpcStepsOn
  <2>2. object = Shared
    BY <2>1 DEF Typed, TypeOK, Objects
  <2>3. DpcOnItsWay(Shared)'
    BY <2>1, <2>2 DEF DpcOnItsWay
  <2>4. QED
    BY <1>0, <1>6, <2>3 DEF DpcBegin, SharedRecorded, irqVars, isrVars
<1>7. ASSUME NEW c \in Cpus, DpcVisit(c) PROVE SharedRecorded'
  <2>1. \A k \in Cpus : dpc'[k].object = dpc[k].object
    BY <1>7, DpcStepsOn
  <2>2. enabled \subseteq enabled'
    BY <1>7, VisitEnables
  <2>3. UNCHANGED <<dpcQueued, isr, fired, channelIrqPending, userIrqPending>>
    BY <1>7 DEF DpcVisit, isrVars
  <2>4. DpcOnItsWay(Shared) => DpcOnItsWay(Shared)'
    BY <2>1, <2>3 DEF DpcOnItsWay
  <2>5. QED
    BY <1>0, <2>2, <2>3, <2>4 DEF SharedRecorded
<1>8. ASSUME NEW c \in Cpus, DpcEnd(c) PROVE SharedRecorded'
  <2>1. dpc[c].object = Shared
    BY <1>8 DEF DpcEnd, Typed, DpcTypes, Objects
  <2>2. enabled' = enabled \cup channelIrqPending \cup userIrqPending
    BY <1>8, <2>1 DEF DpcEnd
  <2>3. QED
    BY <1>0, <2>2 DEF SharedRecorded
<1>9. ASSUME NEW r \in Readers, ReadUserEvent(r) \/ ReadTimesOut(r) \/ ClientServes(r)
      PROVE  SharedRecorded'
  BY <1>9, <1>k DEF ReadUserEvent, ReadTimesOut, ClientServes, irqVars, isrVars, dpcVars
<1>10. CASE UNCHANGED vars
  BY <1>10, <1>k DEF vars, irqVars, isrVars, dpcVars
<1>11. QED
  BY <1>1, <1>2, <1>3, <1>4, <1>5, <1>6, <1>7, <1>8, <1>9, <1>10
     DEF Next, IsrStep, DpcStep, ReaderStep

LEMMA EventStep == Typed /\ EventOnItsWay /\ [Next]_vars => EventOnItsWay'
<1> SUFFICES ASSUME Typed, EventOnItsWay, [Next]_vars, mode' = "vectors"
             PROVE  EventOnItsWay'
  BY DEF EventOnItsWay
<1>0. mode = "vectors"
  BY DEF Next, vars, IsrStep, DpcStep, ReaderStep, Starts, TimesOut, Asserts, VectorIsr, IsrChannel,
     IsrUser, DpcBegin, DpcVisit, DpcEnd, ReadUserEvent, ReadTimesOut, ClientServes
<1>k. ASSUME UNCHANGED <<dpcQueued, dpc>>, enabled \subseteq enabled' PROVE EventOnItsWay'
  BY <1>0, <1>k DEF EventOnItsWay, DpcOnItsWay
<1>1. ASSUME NEW e \in MMs, Starts(e) \/ TimesOut(e) PROVE EventOnItsWay'
  BY <1>1, <1>k DEF Starts, TimesOut, irqVars, isrVars, dpcVars
<1>2. ASSUME NEW b \in Bits, Asserts(b) PROVE EventOnItsWay'
  BY <1>2, <1>k DEF Asserts, isrVars, dpcVars
<1>3. ASSUME NEW b \in Bits, VectorIsr(b) PROVE EventOnItsWay'
  BY <1>0, <1>3 DEF VectorIsr, EventOnItsWay, DpcOnItsWay
<1>4. ~IsrChannel /\ ~IsrUser
  BY <1>0, IsrNotWithVectors
<1>5. ASSUME NEW c \in Cpus, DpcBegin(c) PROVE EventOnItsWay'
  <2>1. PICK object \in dpcQueued :
          /\ dpcQueued' = dpcQueued \ {object} /\ dpc[c] = NoDpc
          /\ dpc'[c] = [object |-> object, at |-> 1]
          /\ \A k \in Cpus : k # c => dpc'[k] = dpc[k]
    BY <1>5, DpcStepsOn
  <2>2. \A v \in Events : v # "none"
    BY InterruptsAssumption DEF Bits
  <2>3. \A v \in Events : DpcOnItsWay(v) => DpcOnItsWay(v)'
    BY <2>1, <2>2 DEF DpcOnItsWay, NoDpc
  <2>4. QED
    BY <1>0, <1>5, <2>3 DEF DpcBegin, EventOnItsWay, irqVars
<1>6. ASSUME NEW c \in Cpus, DpcVisit(c) PROVE EventOnItsWay'
  <2>1. \A k \in Cpus : dpc'[k].object = dpc[k].object
    BY <1>6, DpcStepsOn
  <2>2. enabled \subseteq enabled' /\ dpcQueued' = dpcQueued
    BY <1>6, VisitEnables DEF DpcVisit
  <2>3. QED
    BY <1>0, <2>1, <2>2 DEF EventOnItsWay, DpcOnItsWay
<1>7. ASSUME NEW c \in Cpus, DpcEnd(c) PROVE EventOnItsWay'
  <2>1. dpc[c].object # Shared
    BY <1>0, <1>7, InterruptsAssumption DEF DpcEnd, Typed, DpcTypes, Objects
  <2>2. /\ enabled' = IF dpc[c].object \in Events THEN enabled \cup {dpc[c].object} ELSE enabled
        /\ dpcQueued' = dpcQueued
    BY <1>7, <2>1 DEF DpcEnd
  <2>3. \A k \in Cpus : k # c => dpc'[k] = dpc[k]
    BY <1>7, DpcStepsOn
  <2>4. QED
    BY <1>0, <2>2, <2>3 DEF EventOnItsWay, DpcOnItsWay
<1>8. ASSUME NEW r \in Readers, ReadUserEvent(r) \/ ReadTimesOut(r) \/ ClientServes(r)
      PROVE  EventOnItsWay'
  BY <1>8, <1>k DEF ReadUserEvent, ReadTimesOut, ClientServes, irqVars, isrVars, dpcVars
<1>9. CASE UNCHANGED vars
  BY <1>9, <1>k DEF vars, irqVars, dpcVars
<1>10. QED
  BY <1>1, <1>2, <1>3, <1>4, <1>5, <1>6, <1>7, <1>8, <1>9 DEF Next, IsrStep, DpcStep, ReaderStep

LEMMA AsksStep == Typed /\ AsksWhenPending /\ [Next]_vars => AsksWhenPending'
<1> SUFFICES ASSUME Typed, AsksWhenPending, [Next]_vars, NEW e \in MMs, e \in source'
             PROVE  e \in isReqPending'
  BY DEF AsksWhenPending
<1>0. e \in source => e \in isReqPending
  BY DEF AsksWhenPending
<1>e. e \in Bits /\ e \notin STs /\ e \notin Events
  BY InterruptsAssumption DEF Bits, Engines
<1>1. ASSUME NEW m \in MMs, Starts(m) \/ TimesOut(m) PROVE e \in isReqPending'
  BY <1>0, <1>1 DEF Starts, TimesOut, irqVars
<1>2. ASSUME NEW b \in Bits, Asserts(b) \/ VectorIsr(b) PROVE e \in isReqPending'
  BY <1>0, <1>e, <1>2 DEF Asserts, VectorIsr
<1>3. CASE IsrChannel \/ IsrUser
  BY <1>0, <1>3 DEF IsrChannel, IsrUser
<1>4. ASSUME NEW c \in Cpus, DpcBegin(c) \/ DpcEnd(c) PROVE e \in isReqPending'
  BY <1>0, <1>4 DEF DpcBegin, DpcEnd, irqVars
<1>5. ASSUME NEW c \in Cpus, DpcVisit(c) PROVE e \in isReqPending'
  <2>1. PICK b \in Bits : Work(b) \/ UNCHANGED <<isReqPending, overtaken, source, enabled>>
    BY <1>5, VisitWorks
  <2>2. CASE Work(b)
    BY <1>0, <2>2, WorkEnables
  <2>3. CASE UNCHANGED <<isReqPending, overtaken, source, enabled>>
    BY <1>0, <2>3
  <2>4. QED
    BY <2>1, <2>2, <2>3
<1>6. ASSUME NEW r \in Readers, ReadUserEvent(r) \/ ReadTimesOut(r) \/ ClientServes(r)
      PROVE  e \in isReqPending'
  BY <1>0, <1>6 DEF ReadUserEvent, ReadTimesOut, ClientServes, irqVars
<1>7. CASE UNCHANGED vars
  BY <1>0, <1>7 DEF vars, irqVars
<1>8. QED
  BY <1>1, <1>2, <1>3, <1>4, <1>5, <1>6, <1>7 DEF Next, IsrStep, DpcStep, ReaderStep

LEMMA ServeStep ==
  ASSUME Typed, AsksWhenPending, [Next]_vars, mode = "vectors", mode' = "vectors",
         NEW e \in MMs, ServedOnce(e)
  PROVE  ServedOnce(e)'
<1>e. e \in Bits /\ e \notin STs /\ e \notin Events /\ e # Shared /\ e # "none"
  BY InterruptsAssumption DEF Bits, Engines
<1>o. \A b : ObjectOf(b) = b /\ ObjectOf(b)' = b
  BY DEF ObjectOf
\* A message of the engine is sent when it becomes requested, and only then.
<1>m. ASSUME NEW taken, Messages(taken), e \in message'
      PROVE  e \in message \/ (e \in source' /\ e \in enabled')
  BY <1>m, <1>o DEF Messages
\* Steps of others keep the message true to what is requested.
<1>k. ASSUME UNCHANGED <<dpcQueued, dpc>>, e \in source' <=> e \in source,
             e \in enabled' <=> e \in enabled, e \in overtaken' <=> e \in overtaken,
             e \in message' => e \in message \/ (e \in source' /\ e \in enabled')
      PROVE  ServedOnce(e)'
  BY <1>k DEF ServedOnce, ToServe
<1>1. ASSUME NEW m \in MMs, Starts(m) PROVE ServedOnce(e)'
  BY <1>1, <1>k DEF Starts, irqVars, dpcVars
<1>t. ASSUME NEW m \in MMs, TimesOut(m) PROVE ServedOnce(e)'
  <2>1. /\ source' = source \ {m} /\ UNCHANGED <<enabled, message, dpcQueued, dpc>>
        /\ overtaken' = IF m \in message \/ m \notin enabled
                        THEN overtaken \cup {m} ELSE overtaken
    BY <1>t DEF TimesOut, Underway, dpcVars
  <2>2. \A c : ToServe(c, e)' <=> ToServe(c, e)
    BY <2>1 DEF ToServe
  <2>3. CASE m = e
    BY <2>1, <2>2, <2>3 DEF ServedOnce
  <2>4. CASE m # e
    BY <2>1, <2>2, <2>4 DEF ServedOnce
  <2>5. QED
    BY <2>3, <2>4
<1>2. ASSUME NEW b \in Bits, Asserts(b) PROVE ServedOnce(e)'
  <2>1. /\ b \notin source /\ source' = source \cup {b}
        /\ UNCHANGED <<enabled, overtaken, dpcQueued, dpc>>
        /\ e \in message' => e \in message \/ (e \in source' /\ e \in enabled')
    BY <1>2, <1>m DEF Asserts, dpcVars
  <2>2. QED
    BY <2>1, <1>k DEF ServedOnce, ToServe
<1>3. ASSUME NEW b \in Bits, VectorIsr(b) PROVE ServedOnce(e)'
  <2>1. /\ b \in message /\ message' = message \ {b} /\ enabled' = enabled \ {b}
        /\ dpcQueued' = dpcQueued \cup {b} /\ UNCHANGED <<source, overtaken, dpc>>
    BY <1>3 DEF VectorIsr
  <2>2. QED
    BY <2>1 DEF ServedOnce, ToServe
<1>4. ~IsrChannel /\ ~IsrUser
  BY IsrNotWithVectors
<1>5. ASSUME NEW c \in Cpus, DpcBegin(c) PROVE ServedOnce(e)'
  <2>1. PICK object \in dpcQueued :
          /\ dpcQueued' = dpcQueued \ {object} /\ dpc[c] = NoDpc
          /\ dpc'[c] = [object |-> object, at |-> 1]
          /\ \A k \in Cpus : k # c => dpc'[k] = dpc[k]
    BY <1>5, DpcStepsOn
  <2>2. UNCHANGED <<source, enabled, message, overtaken>>
    BY <1>5 DEF DpcBegin, irqVars
  <2>3. ~ToServe(c, e)
    BY <1>e, <2>1 DEF ToServe, NoDpc
  <2>4. \A k \in Cpus : k # c => (ToServe(k, e)' <=> ToServe(k, e))
    BY <2>1 DEF ToServe
  <2>5. ToServe(c, e)' <=> object = e
    BY <2>1 DEF ToServe
  <2>6. CASE object = e
    BY <2>1, <2>2, <2>3, <2>4, <2>5, <2>6 DEF ServedOnce
  <2>7. CASE object # e
    BY <2>1, <2>2, <2>3, <2>4, <2>5, <2>7 DEF ServedOnce
  <2>8. QED
    BY <2>6, <2>7
<1>6. ASSUME NEW c \in Cpus, DpcVisit(c) PROVE ServedOnce(e)'
  <2>1. /\ dpc'[c].object = dpc[c].object /\ dpc'[c].at = dpc[c].at + 1
        /\ dpc[c].at \in Nat \ {0}
        /\ \A k \in Cpus : k # c => dpc'[k] = dpc[k]
        /\ dpcQueued' = dpcQueued
        /\ e \in message' => e \in message \/ (e \in source' /\ e \in enabled')
    BY <1>6, <1>m, DpcStepsOn DEF DpcVisit
  <2>2. dpc[c].object # Shared
    BY <1>6, InterruptsAssumption DEF DpcVisit, Typed, DpcTypes, Objects
  <2>3. Work(dpc[c].object) /\ dpc[c].object \in Bits /\ dpc[c].at = 1
    BY <1>6, <2>2, VisitWorks
  <2>4. ~ToServe(c, e)'
    BY <2>1 DEF ToServe
  <2>5. \A k \in Cpus : k # c => (ToServe(k, e)' <=> ToServe(k, e))
    BY <2>1 DEF ToServe
  <2>6. CASE dpc[c].object = e
    <3>1. ToServe(c, e)
      BY <2>3, <2>6 DEF ToServe
    <3>2. /\ e \notin enabled /\ e \notin message /\ e \notin dpcQueued
          /\ e \in source \/ e \in overtaken
      BY <3>1 DEF ServedOnce
    <3>3. \A k \in Cpus : ~ToServe(k, e)'
      BY <2>4, <2>5, <3>1 DEF ServedOnce
    <3>4. CASE e \in isReqPending
      <4>1. e \notin source' /\ e \in enabled'
        BY <2>3, <2>6, <3>4, WorkEnables
      <4>2. e \notin message' /\ e \notin dpcQueued'
        BY <2>1, <3>2, <4>1
      <4>3. QED
        BY <3>3, <4>1, <4>2 DEF ServedOnce
    <3>5. CASE e \notin isReqPending
      <4>1. e \in overtaken
        BY <3>2, <3>5 DEF AsksWhenPending
      <4>2. UNCHANGED <<isReqPending, overtaken, source, enabled>>
        BY <2>3, <2>6, <3>5, WorkEnables
      <4>3. e \notin message' /\ e \notin dpcQueued'
        BY <2>1, <3>2, <4>2
      <4>4. QED
        BY <3>3, <4>1, <4>2, <4>3, <3>2 DEF ServedOnce
    <3>6. QED
      BY <3>4, <3>5
  <2>7. CASE dpc[c].object # e
    <3>1. /\ e \in source' <=> e \in source
          /\ e \in enabled' <=> e \in enabled
          /\ e \in overtaken' <=> e \in overtaken
      BY <2>3, <2>7, WorkEnables
    <3>2. ~ToServe(c, e)
      BY <2>7 DEF ToServe
    <3>3. \A k \in Cpus : ToServe(k, e)' <=> ToServe(k, e)
      BY <2>4, <2>5, <3>2
    <3>4. QED
      BY <2>1, <3>1, <3>3 DEF ServedOnce
  <2>8. QED
    BY <2>6, <2>7
<1>7. ASSUME NEW c \in Cpus, DpcEnd(c) PROVE ServedOnce(e)'
  <2>1. dpc[c].object # Shared /\ dpc[c] # NoDpc
    BY <1>7, InterruptsAssumption DEF DpcEnd, Typed, DpcTypes, Objects
  <2>2. /\ e \in enabled' <=> e \in enabled
        /\ UNCHANGED <<source, overtaken, dpcQueued>>
        /\ e \in message' => e \in message \/ (e \in source' /\ e \in enabled')
    BY <1>7, <1>e, <1>m, <2>1 DEF DpcEnd
  <2>3. dpc'[c] = NoDpc /\ \A k \in Cpus : k # c => dpc'[k] = dpc[k]
    BY <1>7, DpcStepsOn
  <2>4. dpc[c].at # 1
    <3>1. Len(Path(dpc[c].object)) = 1 /\ dpc[c].at > Len(Path(dpc[c].object))
      BY <1>7, <2>1, PathBits, ObjectsAreBits DEF DpcEnd, Typed, DpcTypes
    <3>2. QED
      BY <3>1
  <2>5. \A k \in Cpus : ToServe(k, e)' <=> ToServe(k, e)
    BY <1>e, <2>3, <2>4 DEF ToServe, NoDpc
  <2>6. QED
    BY <2>2, <2>5 DEF ServedOnce
<1>8. ASSUME NEW r \in Readers, ReadUserEvent(r) \/ ReadTimesOut(r) PROVE ServedOnce(e)'
  BY <1>8, <1>k DEF ReadUserEvent, ReadTimesOut, irqVars, dpcVars
<1>9. ASSUME NEW r \in Readers, ClientServes(r) PROVE ServedOnce(e)'
  <2>1. EventOf[r] # e
    BY <1>e, InterruptsAssumption
  <2>2. /\ source' = source \ {EventOf[r]} /\ UNCHANGED <<enabled, overtaken, dpcQueued, dpc>>
        /\ e \in message' => e \in message \/ (e \in source' /\ e \in enabled')
    BY <1>9, <1>m DEF ClientServes, dpcVars
  <2>3. QED
    BY <2>1, <2>2, <1>k
<1>10. CASE UNCHANGED vars
  BY <1>10, <1>k DEF vars, irqVars, dpcVars
<1>11. QED
  BY <1>1, <1>t, <1>2, <1>3, <1>4, <1>5, <1>6, <1>7, <1>8, <1>9, <1>10
     DEF Next, IsrStep, DpcStep, ReaderStep

\* Every step keeps what is disabled recorded, with its DPC on the way.
LEMMA RecordedStep == Typed /\ Recorded /\ [Next]_vars => Recorded'
<1> SUFFICES ASSUME Typed, Recorded, [Next]_vars PROVE Recorded'
  OBVIOUS
<1>1. mode' = mode
  BY DEF Next, vars, IsrStep, DpcStep, ReaderStep, Starts, TimesOut, Asserts, VectorIsr, IsrChannel,
     IsrUser, DpcBegin, DpcVisit, DpcEnd, ReadUserEvent, ReadTimesOut, ClientServes
<1>2. ASSUME mode = "vectors", NEW e \in MMs PROVE ServedOnce(e)'
  <2>1. ServedOnce(e)
    BY <1>2 DEF Recorded, OneToServe
  <2>2. QED
    BY <1>1, <1>2, <2>1, ServeStep DEF Recorded
<1>3. OneToServe'
  BY <1>1, <1>2 DEF OneToServe
<1>4. QED
  BY <1>3, SharedStep, EventStep, AsksStep DEF Recorded

\* What every state is, for the proofs of liveness as well.
Sound == Typed /\ RequestedIsSeen /\ Recorded

LEMMA SoundInvariant == Spec => []Sound
<1>1. Init => Sound
  BY TypedInit, SeenInit, RecordedInit DEF Sound
<1>2. Sound /\ [Next]_vars => Sound'
  BY TypedStep, SeenStep, RecordedStep DEF Sound
<1>3. QED
  BY <1>1, <1>2, PTL DEF Spec

LEMMA SoundIsRecorded == Sound => DisabledIsRecorded
<1> SUFFICES ASSUME Sound, NEW b \in Bits \ enabled
             PROVE  /\ mode # "vectors" => b \in channelIrqPending \cup userIrqPending
                    /\ ~LeftOff(b) =>
                         DpcOnItsWay(ObjectOf(b)) \/ (isr = "user" /\ fired)
  BY DEF DisabledIsRecorded
<1>1. CASE mode # "vectors"
  BY <1>1 DEF Sound, Recorded, SharedRecorded, ObjectOf
<1>2. CASE mode = "vectors" /\ b \in Events
  BY <1>2 DEF Sound, Recorded, EventOnItsWay, ObjectOf
<1>3. CASE mode = "vectors" /\ b \in MMs
  BY <1>3 DEF LeftOff, Sound, Recorded, OneToServe, ServedOnce, ToServe, DpcOnItsWay, ObjectOf
<1>4. QED
  BY <1>1, <1>2, <1>3 DEF LeftOff, Bits, Engines

\* No interrupt is disabled and forgotten: the shared ISR's are recorded until a
\* DPC that is on its way enables them, and a vector's own DPC is on its way, unless
\* the engine is a ring's or a time-out has overtaken its interrupt.
THEOREM DisabledAlwaysRecorded == Spec => []DisabledIsRecorded
BY SoundIsRecorded, SoundInvariant, PTL


\* A DPC that is on its way has a processor that can go on: its own, one that is free,
\* or those that keep it waiting.
LEMMA DpcCanMove ==
  ASSUME Sound, HandlersGoOn, isr = "idle" \/ mode = "vectors", Cpus # {},
         NEW b \in Bits, DpcOnItsWay(ObjectOf(b))
  PROVE  ServerCanMove(b)
<1>1. ObjectOf(b) # "none"
  BY InterruptsAssumption DEF ObjectOf, Shared
<1>2. ASSUME NEW c \in Cpus, dpc[c] # NoDpc PROVE CanGoOn(c)
  <2>1. dpc[c].object = Shared => isr = "idle"
    BY <1>2, InterruptsAssumption DEF Sound, Typed, DpcTypes, Objects
  <2>2. QED
    BY <1>2, <2>1 DEF HandlersGoOn, DpcCanGo
<1>3. CASE \E c \in Cpus : dpc[c].object = ObjectOf(b)
  BY <1>1, <1>2, <1>3 DEF ServerCanMove, NoDpc
<1>4. CASE ObjectOf(b) \in dpcQueued
  <2>1. PICK c \in Cpus : TRUE
    OBVIOUS
  <2>2. CASE dpc[c] = NoDpc
    BY <1>4, <2>2 DEF HandlersGoOn, ServerCanMove
  <2>3. CASE dpc[c] # NoDpc
    BY <1>2, <1>4, <2>3 DEF ServerCanMove
  <2>4. QED
    BY <2>2, <2>3
<1>5. QED
  BY <1>3, <1>4 DEF DpcOnItsWay

\* While a bit is asserted, enabled or not, somebody who is to serve it can take a
\* step, unless its interrupt is left off; so handlers that go on never end in a
\* state where all of them wait.
THEOREM NobodyWaitsForNobody ==
  ASSUME Cpus # {}
  PROVE  Spec /\ []HandlersGoOn => []NeverStuck
<1>1. Sound /\ HandlersGoOn => NeverStuck
  <2> SUFFICES ASSUME Sound, HandlersGoOn, NEW b \in source, ~LeftOff(b) PROVE ServerCanMove(b)
    BY DEF NeverStuck
  <2>b. b \in Bits
    BY DEF Sound, Typed, TypeOK
  <2>1. CASE mode # "vectors" /\ IsrDue
    BY <2>1 DEF HandlersGoOn, ServerCanMove
  <2>2. CASE b \in enabled /\ ~(mode # "vectors" /\ IsrDue)
    <3>1. b \in Requested
      BY <2>2 DEF Requested
    <3>2. ObjectOf(b) \in message \/ mode = "line" \/ isr = "user"
      BY <3>1 DEF Sound, RequestedIsSeen
    <3>3. mode = "vectors"
      BY <2>2, <3>1, <3>2 DEF IsrDue, ObjectOf
    <3>4. b \in message /\ b # Shared
      BY <2>b, <3>2, <3>3, InterruptsAssumption DEF ObjectOf, Sound, Typed, IsrIsShared
    <3>5. QED
      BY <3>4 DEF HandlersGoOn, ServerCanMove
  <2>3. CASE b \notin enabled /\ ~(mode # "vectors" /\ IsrDue)
    <3>1. isr = "idle"
      BY <2>3 DEF IsrDue, Sound, Typed, TypeOK, IsrIsShared
    <3>2. DpcOnItsWay(ObjectOf(b))
      BY <2>b, <2>3, <3>1, SoundIsRecorded DEF DisabledIsRecorded
    <3>3. QED
      BY <2>b, <3>1, <3>2, DpcCanMove
  <2>4. QED
    BY <2>1, <2>2, <2>3
<1>2. QED
  BY <1>1, SoundInvariant, PTL DEF Spec
-----------------------------------------------------------------------------
(* Without DPCs that begin, the shared interrupt comes to rest *)

\* The readers that were told of an event and have not removed its source.
Told == {r \in Readers : reader[r] = "true"}

\* The places of their paths that the running DPCs still have to pass.
PlacesLeft ==
  {p \in Cpus \X (1..(Len(Order) + 1)) : dpc[p[1]] # NoDpc /\ dpc[p[1]].at <= p[2]}

LEMMA SharedOnly ==
  ASSUME Sound, mode # "vectors"
  PROVE  /\ message \subseteq {Shared} /\ dpcQueued \subseteq {Shared}
         /\ \A b : ObjectOf(b) = Shared
         /\ Len(Order) \in Nat
         /\ \A c \in Cpus : dpc[c] # NoDpc =>
              dpc[c].object = Shared /\ dpc[c].at \in 1..(Len(Order) + 1)
<1>1. Objects = {Shared} /\ Len(Order) \in Nat
  BY OrderAssumption DEF Objects
<1>2. QED
  BY <1>1 DEF Sound, Typed, TypeOK, DpcTypes, ObjectOf, Path

LEMMA ModeStays == [Next]_vars => mode' = mode
BY DEF Next, vars, IsrStep, DpcStep, ReaderStep, Starts, TimesOut, Asserts, VectorIsr, IsrChannel,
   IsrUser, DpcBegin, DpcVisit, DpcEnd, ReadUserEvent, ReadTimesOut, ClientServes

\* The steps of the ISR, of the applications and of the engines enable nothing, and
\* tell no reader.
LEMMA OthersStep ==
  ASSUME Sound, [Next]_vars, \A c \in Cpus : ~DpcBegin(c) /\ ~DpcStep(c)
  PROVE  UNCHANGED dpc /\ enabled' \subseteq enabled /\ Told' \subseteq Told
<1> USE DEF irqVars, isrVars, dpcVars, Told
<1>1. ASSUME NEW e \in MMs, Starts(e) \/ TimesOut(e)
      PROVE  UNCHANGED dpc /\ enabled' \subseteq enabled /\ Told' \subseteq Told
  BY <1>1 DEF Starts, TimesOut
<1>2. ASSUME NEW b \in Bits, Asserts(b) \/ VectorIsr(b)
      PROVE  UNCHANGED dpc /\ enabled' \subseteq enabled /\ Told' \subseteq Told
  BY <1>2 DEF Asserts, VectorIsr
<1>3. CASE IsrChannel \/ IsrUser
  BY <1>3 DEF IsrChannel, IsrUser
<1>4. ASSUME NEW r \in Readers, ReadUserEvent(r) \/ ReadTimesOut(r) \/ ClientServes(r)
      PROVE  UNCHANGED dpc /\ enabled' \subseteq enabled /\ Told' \subseteq Told
  BY <1>4 DEF ReadUserEvent, ReadTimesOut, ClientServes, Sound, Typed, TypeOK
<1>5. CASE UNCHANGED vars
  BY <1>5 DEF vars
<1>6. QED
  BY <1>1, <1>2, <1>3, <1>4, <1>5 DEF Next, IsrStep, ReaderStep

\* A DPC that goes on has passed a place.
LEMMA DpcPasses ==
  ASSUME Sound, mode # "vectors", NEW c \in Cpus, DpcStep(c)
  PROVE  /\ dpc[c] # NoDpc /\ dpc'[c] # dpc[c]
         /\ <<c, dpc[c].at>> \in PlacesLeft
         /\ PlacesLeft' \subseteq PlacesLeft \ {<<c, dpc[c].at>>}
<1>1. /\ dpc[c] # NoDpc
      /\ \/ dpc'[c].at = dpc[c].at + 1
         \/ dpc'[c] = NoDpc
      /\ \A k \in Cpus : k # c => dpc'[k] = dpc[k]
  BY DpcStepsOn DEF DpcStep, DpcVisit, DpcEnd, Sound
<1>2. dpc[c].at \in 1..(Len(Order) + 1) /\ Len(Order) \in Nat
  BY <1>1, SharedOnly
<1>3. dpc'[c].at = dpc[c].at + 1 => dpc'[c] # dpc[c]
  BY <1>2
<1>4. <<c, dpc[c].at>> \in PlacesLeft
  BY <1>1, <1>2 DEF PlacesLeft
<1>5. ASSUME NEW p \in PlacesLeft' PROVE p \in PlacesLeft /\ p # <<c, dpc[c].at>>
  <2>1. /\ p \in Cpus \X (1..(Len(Order) + 1)) /\ p = <<p[1], p[2]>>
        /\ dpc'[p[1]] # NoDpc /\ dpc'[p[1]].at <= p[2]
    BY DEF PlacesLeft
  <2>2. CASE p[1] = c
    <3>1. dpc[c].at + 1 <= p[2]
      BY <1>1, <2>1, <2>2
    <3>2. p[2] \in Nat /\ dpc[c].at \in Nat
      BY <1>2, <2>1
    <3>3. dpc[c].at <= p[2] /\ p[2] # dpc[c].at
      BY <3>1, <3>2
    <3>4. QED
      BY <1>1, <2>1, <2>2, <3>3 DEF PlacesLeft
  <2>3. CASE p[1] # c
    BY <1>1, <2>1, <2>3 DEF PlacesLeft
  <2>4. QED
    BY <2>2, <2>3
<1>6. QED
  BY <1>1, <1>3, <1>4, <1>5

\* The DPCs, and what the ISR and the applications can still take, stay as they are.
Steady == UNCHANGED <<dpc, enabled>> /\ Told' = Told
NoDpcBegins == \A c \in Cpus : ~DpcBegin(c)

\* Every step that is not steady spends of a budget: a place that a DPC has to pass is
\* worth all the readers and bits, since they may be told and enabled by passing it.
Most   == Cardinality(Readers) + Cardinality(Bits) + 1
Stock  == Cardinality(Told) + Cardinality(enabled)
Budget == Cardinality(PlacesLeft) * Most + Stock

Finite == IsFiniteSet(Cpus) /\ IsFiniteSet(Readers) /\ Cpus # {}

LEMMA FiniteBits == IsFiniteSet(Bits) /\ Cardinality(Bits) \in Nat
<1> DEFINE S == 1..Len(Order)
<1> DEFINE f == [b \in Bits |-> CHOOSE i \in S : Order[i] = b]
<1>1. Len(Order) \in Nat
  BY OrderAssumption
<1>2. IsFiniteSet(S)
  BY <1>1, FS_Interval
<1>3. \A b \in Bits : f[b] \in S /\ Order[f[b]] = b
  BY OrderAssumption
<1>4. f \in Injection(Bits, S)
  BY <1>3 DEF Injection, IsInjective
<1>5. QED
  BY <1>2, <1>4, FS_Injection, FS_CardinalityType

LEMMA BudgetCounts ==
  ASSUME Finite, Sound
  PROVE  /\ IsFiniteSet(PlacesLeft) /\ IsFiniteSet(Told) /\ IsFiniteSet(enabled)
         /\ Cardinality(PlacesLeft) \in Nat /\ Most \in Nat
         /\ Cardinality(Told) \in Nat /\ Cardinality(enabled) \in Nat
         /\ Stock \in Nat /\ Stock <= Most - 1
         /\ Budget \in Nat
<1>1. IsFiniteSet(1..(Len(Order) + 1))
  BY OrderAssumption, FS_Interval
<1>2. IsFiniteSet(Cpus \X (1..(Len(Order) + 1)))
  BY <1>1, FS_Product DEF Finite
<1>3. IsFiniteSet(PlacesLeft) /\ Cardinality(PlacesLeft) \in Nat
  BY <1>2, FS_Subset, FS_CardinalityType DEF PlacesLeft
<1>4. /\ IsFiniteSet(Told) /\ Cardinality(Told) <= Cardinality(Readers)
      /\ Cardinality(Told) \in Nat /\ Cardinality(Readers) \in Nat
  <2>1. Told \in SUBSET Readers
    BY DEF Told
  <2>2. QED
    BY <2>1, FS_Subset, FS_CardinalityType DEF Finite
<1>5. /\ IsFiniteSet(enabled) /\ Cardinality(enabled) <= Cardinality(Bits)
      /\ Cardinality(enabled) \in Nat /\ Cardinality(Bits) \in Nat
  <2>1. enabled \in SUBSET Bits
    BY DEF Sound, Typed, TypeOK
  <2>2. QED
    BY <2>1, FiniteBits, FS_Subset, FS_CardinalityType
<1>6. Most \in Nat /\ Stock \in Nat /\ Stock <= Most - 1
  BY <1>4, <1>5 DEF Most, Stock
<1>7. \A x \in Nat, y \in Nat, z \in Nat : x * y + z \in Nat
  OBVIOUS
<1>8. Budget \in Nat
  BY <1>3, <1>6, <1>7 DEF Budget
<1>9. QED
  BY <1>3, <1>4, <1>5, <1>6, <1>8

\* A subset has no more elements, and fewer unless it is the whole.
LEMMA Shrinks ==
  ASSUME NEW S, IsFiniteSet(S), NEW T, T \subseteq S
  PROVE  /\ Cardinality(S) \in Nat /\ Cardinality(T) \in Nat
         /\ Cardinality(T) <= Cardinality(S)
         /\ T # S => Cardinality(T) <= Cardinality(S) - 1
<1>1. T \in SUBSET S
  OBVIOUS
<1>2. IsFiniteSet(T) /\ Cardinality(T) <= Cardinality(S) /\ (Cardinality(S) = Cardinality(T) => S = T)
  BY <1>1, FS_Subset
<1>3. Cardinality(S) \in Nat /\ Cardinality(T) \in Nat
  BY <1>2, FS_CardinalityType
<1>4. QED
  BY <1>2, <1>3

LEMMA BudgetNext ==
  ASSUME Finite
  PROVE  Sound' => (Stock <= Most - 1 /\ Stock \in Nat /\ Budget \in Nat)'
<1>1. Sound => Stock <= Most - 1 /\ Stock \in Nat /\ Budget \in Nat
  BY BudgetCounts
<1>2. QED
  BY <1>1, PTL

\* A place less pays for all that may be told and enabled.
LEMMA PlacePays ==
  ASSUME NEW p \in Nat, NEW q \in Nat, NEW m \in Nat, NEW s \in Nat, NEW u \in Nat,
         q <= p - 1, u <= m - 1
  PROVE  q * m + u <= p * m + s - 1
<1>1. PICK d \in Nat : p = q + 1 + d
  <2>1. p - q - 1 \in Nat /\ p = q + 1 + (p - q - 1)
    OBVIOUS
  <2>2. QED
    BY <2>1
<1>2. p * m = q * m + m + d * m
  BY <1>1
<1>3. d * m \in Nat /\ q * m \in Nat
  OBVIOUS
<1>4. QED
  BY <1>2, <1>3

LEMMA BudgetFalls ==
  ASSUME Finite, Sound, Sound', mode # "vectors", [Next]_vars, [NoDpcBegins]_vars
  PROVE  /\ Budget \in Nat /\ Budget' \in Nat
         /\ Budget' <= Budget
         /\ ~Steady => Budget' <= Budget - 1
<1>1. CASE \E c \in Cpus : DpcStep(c)
  <2>1. PICK c \in Cpus : DpcStep(c)
    BY <1>1
  <2>2. /\ <<c, dpc[c].at>> \in PlacesLeft
        /\ PlacesLeft' \subseteq PlacesLeft \ {<<c, dpc[c].at>>}
    BY <2>1, DpcPasses
  <2>3. /\ Cardinality(PlacesLeft) \in Nat /\ Cardinality(PlacesLeft') \in Nat
        /\ Cardinality(PlacesLeft') <= Cardinality(PlacesLeft) - 1
    BY <2>2, BudgetCounts, Shrinks
  <2>4. Most \in Nat /\ Stock \in Nat /\ Stock' \in Nat /\ Stock' <= Most - 1
    BY BudgetCounts, BudgetNext DEF Most
  <2>5. Budget' <= Budget - 1
    BY <2>3, <2>4, PlacePays DEF Budget, Most
  <2>6. QED
    BY <2>5, BudgetCounts, BudgetNext
<1>2. CASE \A c \in Cpus : ~DpcStep(c)
  <2>1. \A c \in Cpus : ~DpcBegin(c)
    BY DEF NoDpcBegins, DpcBegin, vars, dpcVars
  <2>2. UNCHANGED dpc /\ enabled' \subseteq enabled /\ Told' \subseteq Told
    BY <1>2, <2>1, OthersStep
  <2>3. Cardinality(PlacesLeft') = Cardinality(PlacesLeft)
    BY <2>2 DEF PlacesLeft
  <2>4. /\ Cardinality(Told) \in Nat /\ Cardinality(Told') \in Nat
        /\ Cardinality(Told') <= Cardinality(Told)
        /\ Told' # Told => Cardinality(Told') <= Cardinality(Told) - 1
    BY <2>2, BudgetCounts, Shrinks
  <2>5. /\ Cardinality(enabled) \in Nat /\ Cardinality(enabled') \in Nat
        /\ Cardinality(enabled') <= Cardinality(enabled)
        /\ enabled' # enabled => Cardinality(enabled') <= Cardinality(enabled) - 1
    BY <2>2, BudgetCounts, Shrinks
  <2>6. Stock' <= Stock /\ (~Steady => Stock' <= Stock - 1)
    BY <2>2, <2>4, <2>5 DEF Stock, Steady
  <2>7. Budget' - Budget = Stock' - Stock
    BY <2>3, <2>6, BudgetCounts, BudgetNext DEF Budget, Most
  <2>8. QED
    BY <2>6, <2>7, BudgetCounts, BudgetNext
<1>3. QED
  BY <1>1, <1>2

\* What is assumed of every processor, in this formula and for ever.
GoOn(S)     == \A c \in S : DpcGoesOn(c)
Persists(S) == GoOn(S) => []GoOn(S)
AllPersist(n) == \A S \in SUBSET Cpus : Cardinality(S) = n => Persists(S)

LEMMA GoOnNone == Persists({})
<1>1. GoOn({})
  BY DEF GoOn
<1>2. QED
  BY <1>1, PTL DEF Persists

LEMMA GoOnOneMore == \A S, c : Persists(S) => Persists(S \cup {c})
<1> SUFFICES ASSUME NEW S, NEW c PROVE Persists(S) => Persists(S \cup {c})
  OBVIOUS
<1>1. GoOn(S \cup {c}) <=> GoOn(S) /\ DpcGoesOn(c)
  BY DEF GoOn
<1>2. QED
  BY <1>1, PTL DEF Persists, DpcGoesOn

\* Fairness towards finitely many processors is fairness towards each from any time on.
LEMMA AllGoOn == ASSUME IsFiniteSet(Cpus) PROVE GoOn(Cpus) => []GoOn(Cpus)
<1>1. \A S \in SUBSET Cpus : IsFiniteSet(S) /\ Cardinality(S) \in Nat
  BY FS_Subset, FS_CardinalityType
<1>2. AllPersist(0)
  BY <1>1, GoOnNone, FS_EmptySet DEF AllPersist
<1>3. ASSUME NEW n \in Nat, AllPersist(n) PROVE AllPersist(n + 1)
  <2> SUFFICES ASSUME NEW S \in SUBSET Cpus, Cardinality(S) = n + 1 PROVE Persists(S)
    BY DEF AllPersist
  <2>1. PICK c \in S : TRUE
    BY FS_EmptySet
  <2>2. Cardinality(S \ {c}) = n /\ S \ {c} \in SUBSET Cpus
    BY <1>1, <2>1, FS_RemoveElement
  <2>3. Persists(S \ {c}) /\ S = (S \ {c}) \cup {c}
    BY <1>3, <2>1, <2>2 DEF AllPersist
  <2>4. Persists((S \ {c}) \cup {c})
    BY <2>3, GoOnOneMore
  <2>5. QED
    BY <2>3, <2>4
<1>4. \E f : (Shown(f) <=> Shown([n \in Nat |-> AllPersist(n)])) /\ \A n \in Nat : f[n] <=> AllPersist(n)
  BY SMT
<1>5. PICK f : \A n \in Nat : f[n] <=> AllPersist(n)
  BY <1>4
<1>6. \A n \in Nat : f[n]
  <2>1. f[0] /\ \A n \in Nat : f[n] => f[n + 1]
    BY <1>2, <1>3, <1>5
  <2>2. QED
    BY <2>1, InductionRule
<1>7. Persists(Cpus)
  BY <1>1, <1>5, <1>6 DEF AllPersist
<1>8. QED
  BY <1>7 DEF Persists

\* No DPC begins any more while the device has one interrupt.
Halted ==
  /\ [][Next]_vars /\ [][NoDpcBegins]_vars
  /\ [][PromptIsr]_vars
  /\ []Sound /\ []HandlersGoOn /\ [](mode # "vectors")
  /\ WF_vars(IsrStep) /\ []GoOn(Cpus)

Resting == Halted /\ [][Steady]_vars

\* The budget is spent.
RestsWithin(n) == [](Halted => (Budget <= n => <>[][Steady]_vars))

LEMMA RestsWithinZero == ASSUME Finite PROVE RestsWithin(0)
<1>1. Sound /\ Sound' /\ mode # "vectors" /\ [Next]_vars /\ [NoDpcBegins]_vars /\ Budget <= 0
        => (Budget <= 0)' /\ [Steady]_vars
  BY BudgetFalls
<1>2. QED
  BY <1>1, PTL DEF RestsWithin, Halted

LEMMA RestsWithinNext == ASSUME Finite PROVE \A n \in Nat : RestsWithin(n) => RestsWithin(n + 1)
<1> SUFFICES ASSUME NEW n \in Nat PROVE RestsWithin(n) => RestsWithin(n + 1)
  OBVIOUS
<1>1. Sound /\ Sound' /\ mode # "vectors" /\ [Next]_vars /\ [NoDpcBegins]_vars /\ Budget <= n + 1
        => (Budget <= n + 1)' /\ ([Steady]_vars \/ (Budget <= n)')
  BY BudgetFalls
<1>2. QED
  BY <1>1, PTL DEF RestsWithin, Halted

LEMMA ComesToRest == ASSUME Finite PROVE Halted => <>[][Steady]_vars
<1>1. \E f : (Shown(f) <=> Shown([n \in Nat |-> RestsWithin(n)]))
             /\ \A n \in Nat : f[n] <=> RestsWithin(n)
  BY SMT
<1>2. PICK f : \A n \in Nat : f[n] <=> RestsWithin(n)
  BY <1>1
<1>3. f[0] /\ \A n \in Nat : f[n] => f[n + 1]
  BY <1>2, RestsWithinZero, RestsWithinNext
<1>4. \A n \in Nat : RestsWithin(n)
  BY <1>2, <1>3, InductionRule
<1>5. \A n \in Nat : RestsWithin(n) => (Halted => (Budget <= n => <>[][Steady]_vars))
  <2> SUFFICES ASSUME NEW n \in Nat
               PROVE  RestsWithin(n) => (Halted => (Budget <= n => <>[][Steady]_vars))
    OBVIOUS
  <2>1. QED
    BY PTL DEF RestsWithin
<1>6. Sound => \E n \in Nat : Budget <= n
  <2> SUFFICES ASSUME Sound PROVE \E n \in Nat : Budget <= n
    OBVIOUS
  <2>1. Budget \in Nat
    BY BudgetCounts
  <2>2. QED
    BY <2>1
<1>7. Halted => Sound
  BY PTL DEF Halted
<1>8. QED
  BY <1>4, <1>5, <1>6, <1>7

\* Whoever asks has the ISR called.
LEMMA AskingIsDue == ASSUME Sound, mode # "vectors", Requested # {} PROVE IsrDue
<1>1. PICK b \in Requested : TRUE
  OBVIOUS
<1>2. ObjectOf(b) = Shared
  BY SharedOnly
<1>3. QED
  BY <1>1, <1>2 DEF Sound, RequestedIsSeen, IsrDue

\* What can happen then: the ISR takes nothing, and what is requested stays so, since
\* a request that times out has no interrupt to be taken.
LEMMA SteadySteps ==
  ASSUME Sound, mode # "vectors", [Next]_vars, [Steady]_vars, [PromptIsr]_vars
  PROVE  /\ dpc' = dpc /\ enabled' = enabled /\ Requested \subseteq Requested'
         /\ \/ IsrChannel /\ source' = source /\ Requested \cap Engines = {}
            \/ IsrUser /\ source' = source /\ Requested \cap Events = {}
            \/ isr' = isr /\ ~IsrStep /\ (Messages({}) \/ UNCHANGED message)
<1>1. dpc' = dpc /\ enabled' = enabled /\ Told' = Told
  BY DEF Steady, vars, irqVars, dpcVars, Told
<1>2. ASSUME NEW c \in Cpus PROVE ~DpcStep(c) /\ ~DpcBegin(c)
  <2>1. ~DpcStep(c)
    BY <1>1, DpcPasses
  <2>2. ASSUME DpcBegin(c) PROVE dpc'[c] # dpc[c]
    <3>1. PICK object \in dpcQueued : dpc[c] = NoDpc /\ dpc'[c] = [object |-> object, at |-> 1]
      BY <2>2, DpcStepsOn DEF Sound
    <3>2. QED
      BY <3>1 DEF NoDpc
  <2>3. QED
    BY <1>1, <2>1, <2>2
<1>3. ASSUME NEW r \in Readers PROVE ~ClientServes(r)
  BY <1>1 DEF ClientServes, Told, Sound, Typed, TypeOK
<1>4. CASE IsrChannel
  <2>1. source' = source /\ enabled' = enabled \ (Requested \cap Engines)
    BY <1>4 DEF IsrChannel
  <2>2. QED
    BY <1>1, <1>4, <2>1 DEF Requested
<1>5. CASE IsrUser
  <2>1. source' = source /\ enabled' = enabled \ (Requested \cap Events)
    BY <1>5 DEF IsrUser
  <2>2. QED
    BY <1>1, <1>5, <2>1 DEF Requested
<1>6. \A b \in Bits : ~VectorIsr(b)
  BY SharedOnly, InterruptsAssumption DEF VectorIsr
<1>t. ASSUME NEW e \in MMs, TimesOut(e)
      PROVE  Requested \subseteq Requested' /\ isr' = isr /\ UNCHANGED message
  <2>1. /\ e \in isReqPending /\ e \notin isReqPending' /\ source' = source \ {e}
        /\ UNCHANGED <<enabled, message, isr>>
    BY <1>t DEF TimesOut, isrVars
  <2>2. isr = "idle" /\ message = {} /\ ~(mode = "line" /\ Requested # {})
    BY <2>1 DEF PromptIsr, vars
  <2>3. Requested = {}
    BY <2>2, AskingIsDue DEF IsrDue
  <2>4. QED
    BY <2>1, <2>3
<1>7. ASSUME ~IsrStep
      PROVE  Requested \subseteq Requested' /\ isr' = isr /\ (Messages({}) \/ UNCHANGED message)
  <2>1. CASE \E e \in MMs : TimesOut(e)
    BY <1>t, <2>1
  <2>2. CASE \A e \in MMs : ~TimesOut(e)
    <3>1. source \subseteq source' /\ isr' = isr /\ (Messages({}) \/ UNCHANGED message)
      BY <1>2, <1>3, <1>6, <1>7, <2>2
         DEF Next, ReaderStep, Starts, Asserts, ReadUserEvent, ReadTimesOut, vars, irqVars, isrVars
    <3>2. QED
      BY <1>1, <3>1 DEF Requested
  <2>3. QED
    BY <2>1, <2>2
<1>8. QED
  BY <1>1, <1>4, <1>5, <1>7 DEF IsrStep, Requested

\* A request of one of these bits is up.
Asks(S) == Requested \cap S # {}

\* Whoever asks goes on asking, and its half of the ISR never comes.
LEMMA AskingStays ==
  ASSUME Sound, mode # "vectors", [Next]_vars, [Steady]_vars, [PromptIsr]_vars
  PROVE  /\ Asks(Engines) => Asks(Engines)' /\ ~IsrChannel
         /\ Asks(Events) => Asks(Events)' /\ ~IsrUser
         /\ IsrChannel => isr = "idle" /\ isr' = "user"
         /\ IsrUser => isr = "user" /\ isr' = "idle"
         /\ ~IsrStep => isr' = isr
<1>1. Requested \subseteq Requested'
  BY SteadySteps
<1>2. /\ IsrChannel => isr = "idle" /\ isr' = "user"
      /\ IsrUser => isr = "user" /\ isr' = "idle"
  BY DEF IsrChannel, IsrUser
<1>3. /\ Asks(Engines) => ~IsrChannel
      /\ Asks(Events) => ~IsrUser
      /\ ~IsrStep => isr' = isr
  BY <1>2, SteadySteps DEF Asks, IsrStep
<1>4. QED
  BY <1>1, <1>2, <1>3 DEF Asks, Requested

LEMMA NothingRequested == Resting => [](Requested = {})
<1> DEFINE Engine == Asks(Engines)
<1> DEFINE Event  == Asks(Events)
<1> DEFINE User   == isr = "user"
<1> HIDE DEF Engine, Event, User
<1>1. Sound /\ mode # "vectors" /\ HandlersGoOn /\ (Engine \/ Event) => ENABLED <<IsrStep>>_vars
  BY AskingIsDue DEF Engine, Event, Asks, HandlersGoOn
<1>2. Sound /\ mode # "vectors" /\ [Next]_vars /\ [Steady]_vars /\ [PromptIsr]_vars /\ Engine
        => Engine' /\ (<<IsrStep>>_vars => User /\ ~User') /\ (User' => User)
  BY AskingStays DEF Engine, User, IsrStep
<1>3. Sound /\ mode # "vectors" /\ [Next]_vars /\ [Steady]_vars /\ [PromptIsr]_vars /\ Event
        => Event' /\ (<<IsrStep>>_vars => ~User /\ User') /\ (User => User')
  BY AskingStays DEF Event, User, IsrStep
<1>4. Sound => (Requested = {} <=> ~Engine /\ ~Event)
  BY DEF Engine, Event, Asks, Requested, Sound, Typed, TypeOK, Bits
<1>5. QED
  BY <1>1, <1>2, <1>3, <1>4, PTL DEF Resting, Halted

\* The ISR takes the message that may be left, and is not called any more.
LEMMA IsrRests == Resting => <>[](isr = "idle")
<1> DEFINE User == isr # "idle"
<1> DEFINE Sent == message # {}
<1> HIDE DEF User, Sent
<1>1. Sound /\ mode # "vectors" /\ HandlersGoOn /\ (User \/ Sent) => ENABLED <<IsrStep>>_vars
  BY SharedOnly DEF User, Sent, IsrDue, HandlersGoOn, Sound, Typed, TypeOK
<1>2. (Sound /\ mode # "vectors" /\ [Next]_vars /\ [Steady]_vars /\ [PromptIsr]_vars
         /\ Requested = {} /\ (Requested = {})')
        => /\ IsrStep => (User /\ ~User' /\ (Sent' => Sent)) \/ (~User /\ Sent /\ User' /\ ~Sent')
           /\ ~IsrStep => (User' => User) /\ (Sent' => Sent)
  <2> SUFFICES ASSUME Sound, mode # "vectors", [Next]_vars, [Steady]_vars, [PromptIsr]_vars,
                      Requested = {}, (Requested = {})'
      PROVE /\ IsrStep => (User /\ ~User' /\ (Sent' => Sent)) \/ (~User /\ Sent /\ User' /\ ~Sent')
            /\ ~IsrStep => (User' => User) /\ (Sent' => Sent)
    OBVIOUS
  <2>1. message \subseteq {Shared}
    BY SharedOnly
  <2>2. CASE IsrChannel
    <3>1. isr = "idle" /\ isr' = "user" /\ Shared \in message /\ message' = message \ {Shared}
      BY <2>2 DEF IsrChannel
    <3>2. message # {} /\ message' = {}
      BY <2>1, <3>1
    <3>3. ~User /\ User' /\ Sent /\ ~Sent' /\ IsrStep
      BY <2>2, <3>1, <3>2 DEF User, Sent, IsrStep
    <3>4. QED
      BY <3>3
  <2>3. CASE IsrUser
    <3>1. isr = "user" /\ isr' = "idle" /\ message' = message
      BY <2>3 DEF IsrUser
    <3>2. User /\ ~User' /\ (Sent' => Sent) /\ IsrStep
      BY <2>3, <3>1 DEF User, Sent, IsrStep
    <3>3. QED
      BY <3>2
  <2>4. ASSUME Messages({}) PROVE message' = message
    <3>1. source' \cap enabled' = {}
      BY DEF Requested
    <3>2. QED
      BY <2>4, <3>1 DEF Messages
  <2>5. ASSUME ~IsrStep PROVE isr' = isr /\ message' = message
    BY <2>4, <2>5, SteadySteps DEF IsrStep
  <2>6. QED
    BY <2>2, <2>3, <2>5 DEF IsrStep, User, Sent
<1>3. User <=> ~(isr = "idle")
  BY DEF User
<1>4. QED
  BY <1>1, <1>2, <1>3, NothingRequested, PTL DEF Resting, Halted

AllIdle == \A c \in Cpus : dpc[c] = NoDpc

\* Every DPC has ended, since none can wait for the interrupt lock.
LEMMA DpcRests ==
  ASSUME NEW c \in Cpus
  PROVE  Resting /\ [](isr = "idle") /\ DpcGoesOn(c) => dpc[c] = NoDpc
<1>1. HandlersGoOn /\ isr = "idle" /\ ~(dpc[c] = NoDpc) => CanGoOn(c)
  BY DEF HandlersGoOn, DpcCanGo
<1>2. ~(dpc[c] = NoDpc) /\ [Steady]_vars => ~(dpc[c] = NoDpc)'
  BY DEF Steady, vars, dpcVars
<1>3. Sound /\ mode # "vectors" /\ [Steady]_vars => ~DpcStep(c)
  BY DpcPasses DEF Steady, vars, dpcVars
<1>4. QED
  BY <1>1, <1>2, <1>3, PTL DEF Resting, Halted, DpcGoesOn, CanGoOn

LEMMA AllRest == Resting => <>[](AllIdle /\ isr = "idle" /\ Requested = {})
<1>1. Resting /\ [](isr = "idle") /\ GoOn(Cpus) => AllIdle
  BY DpcRests DEF AllIdle, GoOn
<1>2. Resting => []Resting /\ []GoOn(Cpus)
  BY PTL DEF Resting, Halted
<1>3. QED
  BY <1>1, <1>2, IsrRests, NothingRequested, PTL

-----------------------------------------------------------------------------
(* A bit that is asserted for ever is served *)

\* A DPC calls the work of b.
Serves(b) ==
  \E c \in Cpus :
    /\ DpcVisit(c) /\ Path(dpc[c].object)[dpc[c].at] = b
    /\ dpc[c].object # Shared \/ b \in channelIrqPending \cup userIrqPending

\* What would be if b were asserted and its work not called from now on.
Ignored(b) ==
  /\ [][Next]_vars /\ [][PromptIsr]_vars /\ [][~Serves(b)]_vars
  /\ []Sound /\ []HandlersGoOn /\ [](b \in source) /\ []~LeftOff(b)
  /\ WF_vars(IsrStep) /\ []GoOn(Cpus) /\ VectorTaken(b) /\ HasTurn(b) /\ HasTurn(Shared)

SharedIgnores(b) == Ignored(b) /\ [](mode # "vectors")

LEMMA NoDpcIsIdle == NoDpc.object = "none" /\ NoDpc.at = 0 /\ Shared # "none"
BY DEF NoDpc, Shared

\* Where the shared DPC comes by b, and that the DPC on c will within n steps.
PlaceOf(b) == CHOOSE i \in 1..Len(Order) : Order[i] = b
Ahead(b, c, n) ==
  /\ dpc[c].object = Shared /\ dpc[c].at \in Nat
  /\ dpc[c].at <= PlaceOf(b) /\ PlaceOf(b) - dpc[c].at < n

LEMMA PlaceIsThere ==
  ASSUME NEW b \in Bits
  PROVE  PlaceOf(b) \in 1..Len(Order) /\ Order[PlaceOf(b)] = b /\ Len(Order) \in Nat
<1>1. \E i \in 1..Len(Order) : Order[i] = b
  BY OrderAssumption
<1>2. QED
  BY <1>1, OrderAssumption DEF PlaceOf

\* When a DPC goes on, an asserted bit is recorded: its interrupt was taken before.
LEMMA RecordedByThen ==
  ASSUME Sound, mode # "vectors", PromptIsr, dpc' # dpc, NEW b \in Bits, b \in source
  PROVE  b \in channelIrqPending \cup userIrqPending
<1>1. ~IsrDue
  BY DEF PromptIsr, IsrDue
<1>2. b \notin enabled
  BY <1>1, AskingIsDue DEF Requested
<1>3. QED
  BY <1>2 DEF Sound, Recorded, SharedRecorded

\* A DPC that runs is only moved by its own steps.
LEMMA DpcMoves ==
  ASSUME Sound, [Next]_vars, NEW c \in Cpus, dpc[c] # NoDpc, dpc'[c] # dpc[c]
  PROVE  DpcStep(c)
<1>1. ASSUME NEW k \in Cpus, DpcBegin(k) PROVE FALSE
  <2>1. dpc[k] = NoDpc /\ \A m \in Cpus : m # k => dpc'[m] = dpc[m]
    BY <1>1, DpcStepsOn DEF Sound
  <2>2. QED
    BY <2>1
<1>2. ASSUME NEW k \in Cpus, DpcStep(k) PROVE k = c
  BY <1>2, DpcStepsOn DEF DpcStep, Sound
<1>3. QED
  BY <1>1, <1>2, OthersStep

LEMMA AheadStep ==
  ASSUME Sound, mode # "vectors", [Next]_vars, [PromptIsr]_vars, NEW b \in Bits,
         [~Serves(b)]_vars, b \in source, NEW c \in Cpus, NEW n \in Nat, Ahead(b, c, n + 1)
  PROVE  /\ Ahead(b, c, n + 1)'
         /\ DpcStep(c) => Ahead(b, c, n)'
<1>1. PlaceOf(b) \in 1..Len(Order) /\ Order[PlaceOf(b)] = b /\ Len(Order) \in Nat
  BY PlaceIsThere
<1>2. /\ dpc[c].object = Shared /\ dpc[c].at \in Nat /\ dpc[c].at <= PlaceOf(b)
      /\ PlaceOf(b) - dpc[c].at < n + 1
      /\ dpc[c] # NoDpc
  BY NoDpcIsIdle DEF Ahead
<1>3. PlaceOf(b)' = PlaceOf(b)
  BY DEF PlaceOf
<1>4. ASSUME DpcStep(c) PROVE Ahead(b, c, n)' /\ Ahead(b, c, n + 1)'
  <2>1. dpc[c].at <= Len(Order) /\ Path(dpc[c].object) = Order
    BY <1>1, <1>2 DEF Path
  <2>2. DpcVisit(c)
    BY <1>1, <1>2, <1>4, <2>1 DEF DpcStep, DpcEnd
  <2>3. dpc'[c].object = Shared /\ dpc'[c].at = dpc[c].at + 1
    BY <1>2, <2>2, DpcStepsOn DEF Sound
  <2>4. dpc' # dpc /\ vars' # vars
    BY <1>2, <2>3 DEF vars, dpcVars
  <2>5. b \in channelIrqPending \cup userIrqPending
    BY <2>4, RecordedByThen
  <2>6. dpc[c].at # PlaceOf(b)
    <3>1. dpc[c].at = PlaceOf(b) => Serves(b)
      BY <1>1, <2>1, <2>2, <2>5 DEF Serves
    <3>2. QED
      BY <2>4, <3>1
  <2>7. dpc'[c].at \in Nat /\ dpc'[c].at <= PlaceOf(b) /\ PlaceOf(b) - dpc'[c].at < n
    BY <1>1, <1>2, <2>3, <2>6
  <2>8. QED
    BY <1>1, <1>3, <2>3, <2>7 DEF Ahead
<1>5. ASSUME ~DpcStep(c) PROVE Ahead(b, c, n + 1)'
  <2>1. dpc'[c] = dpc[c]
    BY <1>2, <1>5, DpcMoves
  <2>2. QED
    BY <1>2, <1>3, <2>1 DEF Ahead
<1>6. QED
  BY <1>4, <1>5

\* Such a DPC would have come by b.
NeverAhead(b, c, n) == [](SharedIgnores(b) /\ DpcGoesOn(c) => ~Ahead(b, c, n))

LEMMA NeverAheadZero == \A b \in Bits, c \in Cpus : NeverAhead(b, c, 0)
<1> SUFFICES ASSUME NEW b \in Bits, NEW c \in Cpus PROVE NeverAhead(b, c, 0)
  OBVIOUS
<1>1. ~Ahead(b, c, 0)
  BY PlaceIsThere DEF Ahead
<1>2. QED
  BY <1>1, PTL DEF NeverAhead

LEMMA NeverAheadNext ==
  \A b \in Bits, c \in Cpus, n \in Nat : NeverAhead(b, c, n) => NeverAhead(b, c, n + 1)
<1> SUFFICES ASSUME NEW b \in Bits, NEW c \in Cpus, NEW n \in Nat
             PROVE  NeverAhead(b, c, n) => NeverAhead(b, c, n + 1)
  OBVIOUS
<1>1. HandlersGoOn /\ Ahead(b, c, n + 1) => CanGoOn(c)
  <2> SUFFICES ASSUME HandlersGoOn, Ahead(b, c, n + 1) PROVE CanGoOn(c)
    OBVIOUS
  <2>1. dpc[c] # NoDpc /\ dpc[c].at <= Len(Order) /\ dpc[c].at \in Nat /\ Len(Order) \in Nat
    BY PlaceIsThere, NoDpcIsIdle DEF Ahead
  <2>2. ~(dpc[c].at > Len(Order))
    BY <2>1
  <2>3. DpcCanGo(c)
    BY <2>1, <2>2 DEF DpcCanGo
  <2>4. QED
    BY <2>3 DEF HandlersGoOn
<1>2. Sound /\ mode # "vectors" /\ [Next]_vars /\ [PromptIsr]_vars /\ [~Serves(b)]_vars
        /\ b \in source /\ Ahead(b, c, n + 1)
        => Ahead(b, c, n + 1)' /\ (DpcStep(c) => Ahead(b, c, n)')
  BY AheadStep
<1>3. QED
  BY <1>1, <1>2, PTL
     DEF NeverAhead, SharedIgnores, Ignored, DpcGoesOn, VectorTaken, HasTurn, CanGoOn

LEMMA NoneAhead ==
  ASSUME NEW b \in Bits, NEW c \in Cpus, NEW n \in Nat
  PROVE  SharedIgnores(b) /\ DpcGoesOn(c) => ~Ahead(b, c, n)
<1>1. \E f : (Shown(f) <=> Shown([m \in Nat |-> NeverAhead(b, c, m)]))
             /\ \A m \in Nat : f[m] <=> NeverAhead(b, c, m)
  BY SMT
<1>2. PICK f : \A m \in Nat : f[m] <=> NeverAhead(b, c, m)
  BY <1>1
<1>3. f[0] /\ \A m \in Nat : f[m] => f[m + 1]
  BY <1>2, NeverAheadZero, NeverAheadNext
<1>4. NeverAhead(b, c, n)
  BY <1>2, <1>3, InductionRule
<1>5. NeverAhead(b, c, n) => (SharedIgnores(b) /\ DpcGoesOn(c) => ~Ahead(b, c, n))
  BY PTL DEF NeverAhead
<1>6. QED
  BY <1>4, <1>5

\* So no DPC begins: it would have all of its path ahead.
LEMMA IgnoredHalts ==
  ASSUME NEW b \in Bits
  PROVE  SharedIgnores(b) => [][NoDpcBegins]_vars
<1> DEFINE None == \A c \in Cpus : ~Ahead(b, c, Len(Order) + 1)
<1> HIDE DEF None
<1>1. SharedIgnores(b) /\ GoOn(Cpus) => None
  <2>1. Len(Order) + 1 \in Nat
    BY OrderAssumption
  <2>2. QED
    BY <2>1, NoneAhead DEF None, GoOn
<1>2. SharedIgnores(b) => []SharedIgnores(b) /\ []GoOn(Cpus)
  BY PTL DEF SharedIgnores, Ignored, VectorTaken, HasTurn
<1>3. Sound /\ mode # "vectors" /\ None' => [NoDpcBegins]_vars
  <2> SUFFICES ASSUME Sound, mode # "vectors", NEW c \in Cpus, DpcBegin(c)
               PROVE  Ahead(b, c, Len(Order) + 1)'
    BY DEF None, NoDpcBegins
  <2>1. PICK object \in dpcQueued : dpc'[c] = [object |-> object, at |-> 1]
    BY DpcStepsOn DEF Sound
  <2>2. object = Shared
    BY <2>1, SharedOnly
  <2>3. PlaceOf(b) \in 1..Len(Order) /\ Len(Order) \in Nat /\ PlaceOf(b)' = PlaceOf(b)
    BY PlaceIsThere DEF PlaceOf
  <2>4. dpc'[c].object = Shared /\ dpc'[c].at = 1
    BY <2>1, <2>2
  <2>5. QED
    BY <2>3, <2>4 DEF Ahead
<1>4. QED
  BY <1>1, <1>2, <1>3, PTL DEF SharedIgnores, Ignored

\* But then all comes to rest, with b recorded, and its DPC is the next to run.
LEMMA SharedServes == ASSUME Finite, NEW b \in Bits PROVE ~SharedIgnores(b)
<1> DEFINE Rest == AllIdle /\ isr = "idle" /\ Requested = {}
<1>1. SharedIgnores(b) => Halted
  BY IgnoredHalts, PTL DEF SharedIgnores, Ignored, Halted
<1>2. Halted => <>[]Rest
  BY ComesToRest, AllRest, PTL DEF Resting, Halted
<1>3. Sound /\ HandlersGoOn /\ mode # "vectors" /\ b \in source /\ Rest => CanRun(Shared)
  <2> SUFFICES ASSUME Sound, HandlersGoOn, mode # "vectors", b \in source, Rest
               PROVE  CanRun(Shared)
    OBVIOUS
  <2>1. b \notin enabled
    BY DEF Requested
  <2>2. DpcOnItsWay(Shared) /\ \A c \in Cpus : dpc[c].object # Shared
    BY <2>1, NoDpcIsIdle DEF Sound, Recorded, SharedRecorded, AllIdle
  <2>3. Shared \in dpcQueued /\ \E c \in Cpus : dpc[c] = NoDpc
    BY <2>2 DEF DpcOnItsWay, AllIdle, Finite
  <2>4. QED
    BY <2>3 DEF HandlersGoOn
<1>4. <<DpcIsRun(Shared)>>_vars => ~[NoDpcBegins]_vars
  BY DEF DpcIsRun, NoDpcBegins
<1>5. QED
  BY <1>1, <1>2, <1>3, <1>4, PTL DEF SharedIgnores, Ignored, Halted, HasTurn, CanRun

\* The same with a message for each bit.
OwnIgnores(b) == Ignored(b) /\ [](mode = "vectors")

LEMMA VectorsOnly ==
  ASSUME Sound, mode = "vectors"
  PROVE  /\ isr = "idle"
         /\ \A b \in Bits : ObjectOf(b) = b /\ b # Shared /\ b # "none"
         /\ \A c \in Cpus : dpc[c] # NoDpc =>
              /\ dpc[c].object \in Bits /\ dpc[c].object # Shared
              /\ Path(dpc[c].object) = <<dpc[c].object>>
              /\ dpc[c].at \in {1, 2}
<1>1. isr = "idle" /\ \A b \in Bits : ObjectOf(b) = b /\ b # Shared /\ b # "none"
  BY InterruptsAssumption DEF Sound, Typed, TypeOK, IsrIsShared, ObjectOf
<1>2. ASSUME NEW c \in Cpus, dpc[c] # NoDpc
      PROVE  /\ dpc[c].object \in Bits /\ dpc[c].object # Shared
             /\ Path(dpc[c].object) = <<dpc[c].object>>
             /\ dpc[c].at \in {1, 2}
  <2>1. dpc[c].object \in Bits /\ dpc[c].at \in 1..(Len(Path(dpc[c].object)) + 1)
    BY <1>2 DEF Sound, Typed, DpcTypes, Objects
  <2>2. dpc[c].object # Shared
    BY <1>1, <2>1
  <2>3. Path(dpc[c].object) = <<dpc[c].object>>
    BY <2>2 DEF Path
  <2>4. \A i \in 1..(1 + 1) : i \in {1, 2}
    OBVIOUS
  <2>5. dpc[c].at \in 1..(1 + 1)
    BY <2>1, <2>3
  <2>6. QED
    BY <2>1, <2>2, <2>3, <2>4, <2>5
<1>3. QED
  BY <1>1, <1>2

\* A DPC of its own calls the work, and ends.
LEMMA OwnDpcSteps ==
  ASSUME Sound, mode = "vectors", NEW c \in Cpus, dpc[c] # NoDpc, [Next]_vars
  PROVE  /\ ~DpcStep(c) => dpc'[c] = dpc[c]
         /\ DpcStep(c) /\ dpc[c].at = 1 =>
              DpcVisit(c) /\ dpc'[c] # NoDpc /\ dpc'[c].at = 2 /\ vars' # vars
         /\ DpcStep(c) /\ dpc[c].at = 2 => DpcEnd(c) /\ dpc'[c] = NoDpc
<1>1. Path(dpc[c].object) = <<dpc[c].object>> /\ Len(Path(dpc[c].object)) = 1
  BY VectorsOnly
<1>2. ASSUME DpcStep(c), dpc[c].at = 1
      PROVE  DpcVisit(c) /\ dpc'[c] # NoDpc /\ dpc'[c].at = 2 /\ vars' # vars
  <2>1. DpcVisit(c)
    BY <1>1, <1>2 DEF DpcStep, DpcEnd
  <2>2. dpc'[c].at = 2
    BY <1>2, <2>1, DpcStepsOn DEF Sound
  <2>3. QED
    BY <1>2, <2>1, <2>2, NoDpcIsIdle DEF vars, dpcVars
<1>3. ASSUME DpcStep(c), dpc[c].at = 2 PROVE DpcEnd(c) /\ dpc'[c] = NoDpc
  <2>1. DpcEnd(c)
    BY <1>1, <1>3 DEF DpcStep, DpcVisit
  <2>2. QED
    BY <2>1, DpcStepsOn DEF Sound
<1>4. QED
  BY <1>2, <1>3, DpcMoves

LEMMA OwnDpcGoesOn ==
  ASSUME Sound, mode = "vectors", HandlersGoOn, NEW c \in Cpus, dpc[c] # NoDpc
  PROVE  CanGoOn(c)
BY VectorsOnly DEF HandlersGoOn, DpcCanGo

\* No DPC is about to call the work of b,
LEMMA NotToServe ==
  ASSUME NEW b \in Bits, NEW c \in Cpus
  PROVE  OwnIgnores(b) /\ DpcGoesOn(c) => ~ToServe(c, b)
<1>1. Sound /\ mode = "vectors" /\ ToServe(c, b) => dpc[c] # NoDpc
  BY VectorsOnly, NoDpcIsIdle DEF ToServe
<1>2. Sound /\ mode = "vectors" /\ HandlersGoOn /\ ToServe(c, b) => CanGoOn(c)
  BY <1>1, OwnDpcGoesOn
<1>3. Sound /\ mode = "vectors" /\ [Next]_vars /\ [~Serves(b)]_vars /\ ToServe(c, b)
        => ToServe(c, b)' /\ ~DpcStep(c)
  <2> SUFFICES ASSUME Sound, mode = "vectors", [Next]_vars, [~Serves(b)]_vars, ToServe(c, b)
               PROVE  ToServe(c, b)' /\ ~DpcStep(c)
    OBVIOUS
  <2>1. dpc[c] # NoDpc /\ dpc[c].object = b /\ dpc[c].at = 1
    BY <1>1 DEF ToServe
  <2>2. Path(dpc[c].object) = <<b>> /\ b # Shared
    BY <2>1, VectorsOnly
  <2>3. DpcStep(c) => Serves(b) /\ vars' # vars
    BY <2>1, <2>2, OwnDpcSteps DEF Serves
  <2>4. ~DpcStep(c)
    BY <2>3
  <2>5. QED
    BY <2>1, <2>4, OwnDpcSteps DEF ToServe
<1>4. QED
  BY <1>2, <1>3, PTL DEF OwnIgnores, Ignored, DpcGoesOn, CanGoOn

\* so none begins for it.
LEMMA NotBegun == ASSUME NEW b \in Bits PROVE OwnIgnores(b) => [][~DpcIsRun(b)]_vars
<1> DEFINE None == \A c \in Cpus : ~ToServe(c, b)
<1> HIDE DEF None
<1>1. OwnIgnores(b) /\ GoOn(Cpus) => None
  BY NotToServe DEF None, GoOn
<1>2. OwnIgnores(b) => []OwnIgnores(b) /\ []GoOn(Cpus)
  BY PTL DEF OwnIgnores, Ignored, VectorTaken, HasTurn
<1>3. Sound /\ None' => ~DpcIsRun(b)
  <2> SUFFICES ASSUME Sound, NEW c \in Cpus, DpcBegin(c), dpcQueued' = dpcQueued \ {b}
               PROVE  ToServe(c, b)'
    BY DEF None, DpcIsRun
  <2>1. PICK object \in dpcQueued : /\ dpcQueued' = dpcQueued \ {object}
                                    /\ dpc'[c] = [object |-> object, at |-> 1]
    BY DpcStepsOn DEF Sound
  <2>2. object = b
    BY <2>1
  <2>3. QED
    BY <2>1, <2>2 DEF ToServe
<1>4. QED
  BY <1>1, <1>2, <1>3, PTL DEF OwnIgnores, Ignored

\* A processor is free again and again.
LEMMA FreeAgain ==
  ASSUME NEW b \in Bits, NEW c \in Cpus
  PROVE  OwnIgnores(b) /\ DpcGoesOn(c) => <>(dpc[c] = NoDpc)
<1> DEFINE First  == dpc[c] # NoDpc /\ dpc[c].at = 1
<1> DEFINE Second == dpc[c] # NoDpc /\ dpc[c].at = 2
<1> HIDE DEF First, Second
<1>1. Sound /\ mode = "vectors" => dpc[c] = NoDpc \/ First \/ Second
  BY VectorsOnly DEF First, Second
<1>2. Sound /\ mode = "vectors" /\ HandlersGoOn /\ (First \/ Second) => CanGoOn(c)
  BY OwnDpcGoesOn DEF First, Second
<1>3. Sound /\ mode = "vectors" /\ [Next]_vars /\ First
        => (First' \/ Second') /\ (DpcStep(c) => Second')
  BY OwnDpcSteps DEF First, Second
<1>4. Sound /\ mode = "vectors" /\ [Next]_vars /\ Second
        => (Second' \/ (dpc[c] = NoDpc)') /\ (DpcStep(c) => (dpc[c] = NoDpc)')
  BY OwnDpcSteps DEF Second
<1>5. QED
  BY <1>1, <1>2, <1>3, <1>4, PTL DEF OwnIgnores, Ignored, DpcGoesOn, CanGoOn

\* A DPC stays queued until it is run, and a message until it is taken.
LEMMA QueuedStays ==
  ASSUME Sound, [Next]_vars, NEW b, b \in dpcQueued, [~DpcIsRun(b)]_vars
  PROVE  b \in dpcQueued'
<1>1. ASSUME NEW c \in Cpus, DpcBegin(c) PROVE b \in dpcQueued'
  <2>1. PICK object \in dpcQueued : dpcQueued' = dpcQueued \ {object}
    BY <1>1 DEF DpcBegin
  <2>2. object = b => DpcIsRun(b) /\ vars' # vars
    BY <1>1, <2>1 DEF DpcIsRun, vars, dpcVars
  <2>3. QED
    BY <2>1, <2>2
<1>2. CASE IsrStep
  BY <1>2 DEF IsrStep, IsrChannel, IsrUser, QueueDpc, dpcVars
<1>3. ASSUME NEW c \in Cpus, DpcStep(c) PROVE b \in dpcQueued'
  BY <1>3 DEF DpcStep, DpcVisit, DpcEnd
<1>4. ASSUME NEW e, Starts(e) \/ TimesOut(e) \/ Asserts(e) \/ VectorIsr(e) PROVE b \in dpcQueued'
  BY <1>4 DEF Starts, TimesOut, Asserts, VectorIsr, dpcVars
<1>5. ASSUME NEW r, ReaderStep(r) \/ ReadTimesOut(r) PROVE b \in dpcQueued'
  BY <1>5 DEF ReaderStep, ReadUserEvent, ClientServes, ReadTimesOut, dpcVars
<1>6. CASE UNCHANGED vars
  BY <1>6 DEF vars, dpcVars
<1>7. QED
  BY <1>1, <1>2, <1>3, <1>4, <1>5, <1>6 DEF Next

LEMMA MessageStays ==
  ASSUME Sound, mode = "vectors", [Next]_vars, NEW b \in Bits, b \in message
  PROVE  b \in message' \/ b \in dpcQueued'
<1>1. ASSUME NEW a \in Bits, VectorIsr(a) PROVE b \in message' \/ b \in dpcQueued'
  BY <1>1 DEF VectorIsr
<1>2. ~IsrStep
  BY IsrNotWithVectors DEF IsrStep, Sound
<1>3. ASSUME Messages({}) PROVE b \in message'
  BY <1>3 DEF Messages
<1>4. ASSUME NEW c \in Cpus, DpcBegin(c) \/ DpcStep(c) PROVE b \in message'
  BY <1>3, <1>4 DEF DpcStep, DpcBegin, DpcVisit, DpcEnd, irqVars
<1>5. ASSUME NEW e, Starts(e) \/ TimesOut(e) \/ Asserts(e) PROVE b \in message'
  BY <1>3, <1>5 DEF Starts, TimesOut, Asserts, irqVars
<1>6. ASSUME NEW r, ReaderStep(r) \/ ReadTimesOut(r) PROVE b \in message'
  BY <1>3, <1>6 DEF ReaderStep, ReadUserEvent, ClientServes, ReadTimesOut, irqVars
<1>7. CASE UNCHANGED vars
  BY <1>7 DEF vars, irqVars
<1>8. QED
  BY <1>1, <1>2, <1>4, <1>5, <1>6, <1>7 DEF Next

\* Its DPC is not queued, since it would be run; nor has it a message, which would be
\* taken and queue it; so it is not enabled, or it would have one.
LEMMA NotQueued ==
  ASSUME Finite, NEW b \in Bits
  PROVE  OwnIgnores(b) => ~(b \in dpcQueued)
<1> PICK c \in Cpus : TRUE
  BY DEF Finite
<1>1. OwnIgnores(b) => []OwnIgnores(b) /\ []GoOn(Cpus)
  BY PTL DEF OwnIgnores, Ignored, VectorTaken, HasTurn
<1>2. GoOn(Cpus) => DpcGoesOn(c)
  BY DEF GoOn
<1>3. HandlersGoOn /\ b \in dpcQueued /\ dpc[c] = NoDpc => CanRun(b)
  BY DEF HandlersGoOn
<1>4. Sound /\ [Next]_vars /\ [~DpcIsRun(b)]_vars /\ b \in dpcQueued => (b \in dpcQueued)'
  BY QueuedStays
<1>5. QED
  BY <1>1, <1>2, <1>3, <1>4, NotBegun, FreeAgain, PTL DEF OwnIgnores, Ignored, HasTurn, CanRun

LEMMA NotSent == ASSUME Finite, NEW b \in Bits PROVE OwnIgnores(b) => ~(b \in message)
<1>1. OwnIgnores(b) => []OwnIgnores(b)
  BY PTL DEF OwnIgnores, Ignored, VectorTaken, HasTurn
<1>2. HandlersGoOn /\ b \in message => CanTake(b)
  BY InterruptsAssumption DEF HandlersGoOn
<1>3. Sound /\ mode = "vectors" /\ [Next]_vars /\ b \in message
        => (b \in message)' \/ (b \in dpcQueued)'
  BY MessageStays
<1>4. VectorIsr(b) => (b \in dpcQueued)'
  BY DEF VectorIsr
<1>5. QED
  BY <1>1, <1>2, <1>3, <1>4, NotQueued, PTL DEF OwnIgnores, Ignored, VectorTaken, CanTake

LEMMA NotEnabled ==
  ASSUME Finite, NEW b \in Bits
  PROVE  OwnIgnores(b) => [](~(b \in enabled) /\ ~(b \in dpcQueued))
<1>1. OwnIgnores(b) => []OwnIgnores(b)
  BY PTL DEF OwnIgnores, Ignored, VectorTaken, HasTurn
<1>2. Sound /\ mode = "vectors" /\ b \in source /\ ~(b \in message) => ~(b \in enabled)
  <2> SUFFICES ASSUME Sound, mode = "vectors", b \in source, b \notin message, b \in enabled
               PROVE  FALSE
    OBVIOUS
  <2>1. b \in Requested
    BY DEF Requested
  <2>2. QED
    BY <2>1, VectorsOnly DEF Sound, RequestedIsSeen
<1>3. QED
  BY <1>1, <1>2, NotSent, NotQueued, PTL DEF OwnIgnores, Ignored

\* Nor does a DPC run that would enable an event.
LEMMA NotRunning ==
  ASSUME Finite, NEW b \in Events, NEW c \in Cpus
  PROVE  OwnIgnores(b) /\ DpcGoesOn(c) => ~(dpc[c].object = b)
<1> DEFINE Last == dpc[c].object = b /\ dpc[c].at = 2
<1> HIDE DEF Last
<1>0. b \in Bits
  BY DEF Bits
<1>1. Sound /\ mode = "vectors" /\ dpc[c].object = b => ToServe(c, b) \/ Last
  BY <1>0, VectorsOnly, NoDpcIsIdle DEF ToServe, Last
<1>2. Sound /\ mode = "vectors" /\ Last => dpc[c] # NoDpc
  BY <1>0, VectorsOnly, NoDpcIsIdle DEF Last
<1>3. Sound /\ mode = "vectors" /\ HandlersGoOn /\ Last => CanGoOn(c)
  BY <1>2, OwnDpcGoesOn
<1>4. Sound /\ mode = "vectors" /\ [Next]_vars /\ Last
        => (~DpcStep(c) => Last') /\ (DpcStep(c) => (b \in enabled)')
  <2> SUFFICES ASSUME Sound, mode = "vectors", [Next]_vars, Last
               PROVE  (~DpcStep(c) => Last') /\ (DpcStep(c) => b \in enabled')
    OBVIOUS
  <2>1. dpc[c] # NoDpc /\ dpc[c].object = b /\ dpc[c].at = 2
    BY <1>2 DEF Last
  <2>2. DpcEnd(c) => b \in enabled'
    BY <1>0, <2>1, InterruptsAssumption DEF DpcEnd
  <2>3. QED
    BY <2>1, <2>2, OwnDpcSteps DEF Last
<1>5. OwnIgnores(b) /\ DpcGoesOn(c) => ~ToServe(c, b)
  BY <1>0, NotToServe
<1>6. OwnIgnores(b) => [](~(b \in enabled))
  BY <1>0, NotEnabled, PTL
<1>7. QED
  BY <1>1, <1>3, <1>4, <1>5, <1>6, PTL DEF OwnIgnores, Ignored, DpcGoesOn, CanGoOn

\* But a disabled bit has its DPC on the way.
LEMMA OwnServes == ASSUME Finite, NEW b \in Bits PROVE ~OwnIgnores(b)
<1>1. OwnIgnores(b) => GoOn(Cpus) /\ Sound /\ mode = "vectors" /\ ~LeftOff(b)
  BY PTL DEF OwnIgnores, Ignored
<1>2. OwnIgnores(b) => ~(b \in enabled) /\ ~(b \in dpcQueued)
  BY NotEnabled, PTL
<1>3. CASE b \in MMs
  <2>1. OwnIgnores(b) /\ GoOn(Cpus) => \A c \in Cpus : ~ToServe(c, b)
    BY NotToServe DEF GoOn
  <2>2. Sound /\ mode = "vectors" /\ ~LeftOff(b) /\ ~(b \in enabled) =>
          b \in dpcQueued \/ \E c \in Cpus : ToServe(c, b)
    BY <1>3 DEF Sound, Recorded, OneToServe, ServedOnce, LeftOff
  <2>3. QED
    BY <1>1, <1>2, <2>1, <2>2
<1>4. CASE b \in Events
  <2>1. OwnIgnores(b) /\ GoOn(Cpus) => \A c \in Cpus : ~(dpc[c].object = b)
    BY <1>4, NotRunning DEF GoOn
  <2>2. Sound /\ mode = "vectors" /\ ~(b \in enabled) =>
          b \in dpcQueued \/ \E c \in Cpus : dpc[c].object = b
    BY <1>4 DEF Sound, Recorded, EventOnItsWay, DpcOnItsWay
  <2>3. QED
    BY <1>1, <1>2, <2>1, <2>2
<1>5. CASE b \in STs
  BY <1>1, <1>5 DEF LeftOff
<1>6. QED
  BY <1>3, <1>4, <1>5 DEF Bits, Engines

\* No bit is asserted for ever without its work being called.
LEMMA NeverIgnored == ASSUME Finite, NEW b \in Bits PROVE ~Ignored(b)
<1>1. [Next]_vars /\ mode = "vectors" => (mode = "vectors")'
  BY ModeStays
<1>2. [Next]_vars /\ mode # "vectors" => (mode # "vectors")'
  BY ModeStays
<1>3. mode = "vectors" \/ mode # "vectors"
  OBVIOUS
<1>4. Ignored(b) => SharedIgnores(b) \/ OwnIgnores(b)
  BY <1>1, <1>2, <1>3, PTL DEF SharedIgnores, OwnIgnores, Ignored
<1>5. QED
  BY <1>4, SharedServes, OwnServes

-----------------------------------------------------------------------------
(* Engines are served, and held events told *)

\* Fairness, as one bit sees it.
LEMMA FairParts ==
  ASSUME NEW b \in Bits
  PROVE  Fairness => /\ SharedTaken /\ GoOn(Cpus)
                     /\ VectorTaken(b) /\ HasTurn(b) /\ HasTurn(Shared)
BY DEF Fairness, GoOn

\* A time-out overtakes the interrupt of an engine only by clearing its status.
LEMMA LeftOffStays ==
  ASSUME NEW b
  PROVE  [Next]_vars /\ ~LeftOff(b) /\ (b \in source)' => (~LeftOff(b))'
<1> SUFFICES ASSUME [Next]_vars, ~LeftOff(b), b \in source' PROVE ~(LeftOff(b)')
  OBVIOUS
<1>1. b \in overtaken' => b \in overtaken
  <2>1. ASSUME NEW e \in MMs, TimesOut(e) PROVE b \in overtaken' => b \in overtaken
    BY <2>1 DEF TimesOut
  <2>2. ASSUME NEW c \in Cpus, DpcVisit(c) PROVE b \in overtaken' => b \in overtaken
    BY <2>2 DEF DpcVisit, Work, ProcessTransfer, ProcessRing, HandleUserEvent
  <2>3. QED
    BY <2>1, <2>2 DEF Next, vars, IsrStep, DpcStep, ReaderStep, Starts, Asserts, VectorIsr,
       IsrChannel, IsrUser, DpcBegin, DpcEnd, ReadUserEvent, ReadTimesOut, ClientServes
<1>2. QED
  BY <1>1, ModeStays DEF LeftOff

\* A bit that stays asserted while its work is not called.
Abandoned(b)      == [](b \in source) /\ [][~Serves(b)]_vars /\ ~LeftOff(b)
NeverAbandoned(b) == []~Abandoned(b)

LEMMA NoneAbandoned ==
  ASSUME Finite, NEW b \in Bits
  PROVE  FairSpec /\ []HandlersGoOn /\ PromptInTheEnd => NeverAbandoned(b)
<1>1. [Next]_vars /\ ~LeftOff(b) /\ (b \in source)' => (~LeftOff(b))'
  BY LeftOffStays
<1>2. FairSpec => /\ [][Next]_vars /\ []Sound /\ WF_vars(IsrStep) /\ GoOn(Cpus)
                  /\ VectorTaken(b) /\ HasTurn(b) /\ HasTurn(Shared)
  BY FairParts, SoundInvariant, PTL DEF FairSpec, Spec, SharedTaken
<1>3. GoOn(Cpus) => []GoOn(Cpus)
  BY AllGoOn DEF Finite
<1>4. QED
  BY <1>1, <1>2, <1>3, NeverIgnored, PTL
     DEF NeverAbandoned, Abandoned, Ignored, PromptInTheEnd, VectorTaken, HasTurn

\* The work of an engine that asserts its bit takes the assertion back.
LEMMA EngineAnswered ==
  ASSUME Sound, NEW e \in Engines, e \in source, Serves(e)
  PROVE  ~(e \in source')
<1>1. Work(e)
  BY DEF Serves, DpcVisit
<1>2. CASE e \in MMs
  BY <1>1, <1>2, WorkEnables DEF Sound, Recorded, AsksWhenPending, Bits, Engines
<1>3. CASE e \in STs
  BY <1>1, <1>3, InterruptsAssumption DEF Work, ProcessRing, Bits, Engines
<1>4. QED
  BY <1>2, <1>3 DEF Engines

\* That of an event tells the readers that wait for it.
LEMMA ReaderTold ==
  ASSUME Sound, NEW r \in Readers, reader[r] = "wait", Serves(EventOf[r])
  PROVE  reader'[r] = "true"
<1>1. EventOf[r] \in Events /\ EventOf[r] \notin Engines
  BY InterruptsAssumption
<1>2. HandleUserEvent(EventOf[r])
  BY <1>1 DEF Serves, DpcVisit, Work, Engines
<1>3. QED
  BY <1>2 DEF HandleUserEvent

\* A reader waits while its event is asserted, until it is told.
LEMMA WaitStays ==
  ASSUME Sound, [Next]_vars, NEW r \in Readers, reader[r] = "wait", EventOf[r] \in source
  PROVE  reader'[r] \in {"wait", "true"}
<1>0. reader \in [Readers -> {"idle", "wait", "true"}]
  BY DEF Sound, Typed, TypeOK
<1>1. ASSUME NEW s \in Readers, ReaderStep(s) \/ ReadTimesOut(s)
      PROVE  reader'[r] \in {"wait", "true"}
  BY <1>0, <1>1 DEF ReaderStep, ReadUserEvent, ClientServes, ReadTimesOut
<1>2. ASSUME NEW c \in Cpus, DpcBegin(c) \/ DpcStep(c) PROVE reader'[r] \in {"wait", "true"}
  BY <1>0, <1>2 DEF DpcBegin, DpcStep, DpcVisit, DpcEnd, Work, ProcessTransfer, ProcessRing,
                    HandleUserEvent
<1>3. ASSUME NEW e, Starts(e) \/ TimesOut(e) \/ Asserts(e) \/ VectorIsr(e)
      PROVE  reader'[r] \in {"wait", "true"}
  BY <1>3 DEF Starts, TimesOut, Asserts, VectorIsr
<1>4. CASE IsrStep
  BY <1>4 DEF IsrStep, IsrChannel, IsrUser
<1>5. CASE UNCHANGED vars
  BY <1>5 DEF vars
<1>6. QED
  BY <1>1, <1>2, <1>3, <1>4, <1>5 DEF Next

\* If the handlers go on (`HandlersGoOn`, which TLC checks) and interrupts are prompt in the end, then the work
\* of every engine that asks for it is done, on however many processors the DPCs of
\* however many engines overlap.
THEOREM EnginesAlwaysServed ==
  ASSUME Finite
  PROVE  FairSpec /\ []HandlersGoOn => EnginesServed
<1>1. ASSUME NEW e \in Engines
      PROVE  FairSpec /\ []HandlersGoOn /\ PromptInTheEnd
               => (e \in source /\ ~LeftOff(e) ~> e \notin source)
  <2>1. e \in Bits
    BY DEF Bits
  <2>2. FairSpec /\ []HandlersGoOn /\ PromptInTheEnd => NeverAbandoned(e)
    BY <2>1, NoneAbandoned
  <2>3. Sound /\ e \in source /\ (e \in source)' => [~Serves(e)]_vars
    BY EngineAnswered
  <2>4. e \notin source <=> ~(e \in source)
    OBVIOUS
  <2>5. FairSpec => []Sound
    BY SoundInvariant, PTL DEF FairSpec
  <2>6. QED
    BY <2>2, <2>3, <2>4, <2>5, PTL DEF NeverAbandoned, Abandoned
<1>2. FairSpec /\ []HandlersGoOn /\ PromptInTheEnd
        => \A e \in Engines : (e \in source /\ ~LeftOff(e) ~> e \notin source)
  BY <1>1
<1>3. EnginesServed <=>
        (PromptInTheEnd => \A e \in Engines : (e \in source /\ ~LeftOff(e) ~> e \notin source))
  BY DEF EnginesServed
<1>4. QED
  BY <1>2, <1>3

\* Likewise, whoever waits for an event that stays asserted is told of it.
THEOREM HeldEventsAlwaysTold ==
  ASSUME Finite
  PROVE  FairSpec /\ []HandlersGoOn => HeldEventTold
<1>1. ASSUME NEW r \in Readers
      PROVE  FairSpec /\ []HandlersGoOn /\ PromptInTheEnd
               => (reader[r] = "wait" /\ EventOf[r] \in source
                     ~> reader[r] = "true" \/ EventOf[r] \notin source)
  <2>1. EventOf[r] \in Bits
    BY InterruptsAssumption DEF Bits
  <2>l. Sound => ~LeftOff(EventOf[r])
    BY InterruptsAssumption DEF LeftOff, Sound, Typed, TypeOK, Engines
  <2>2. FairSpec /\ []HandlersGoOn /\ PromptInTheEnd => NeverAbandoned(EventOf[r])
    BY <2>1, NoneAbandoned
  <2>3. Sound /\ reader[r] = "wait" /\ ~(reader[r] = "true")' => [~Serves(EventOf[r])]_vars
    BY ReaderTold
  <2>4. Sound /\ [Next]_vars /\ reader[r] = "wait" /\ EventOf[r] \in source
          => (reader[r] = "wait")' \/ (reader[r] = "true")'
    BY WaitStays
  <2>5. EventOf[r] \notin source <=> ~(EventOf[r] \in source)
    OBVIOUS
  <2>6. FairSpec => []Sound /\ [][Next]_vars
    BY SoundInvariant, PTL DEF FairSpec, Spec
  <2>7. QED
    BY <2>l, <2>2, <2>3, <2>4, <2>5, <2>6, PTL DEF NeverAbandoned, Abandoned
<1>2. FairSpec /\ []HandlersGoOn /\ PromptInTheEnd
        => \A r \in Readers : (reader[r] = "wait" /\ EventOf[r] \in source
                                  ~> reader[r] = "true" \/ EventOf[r] \notin source)
  BY <1>1
<1>3. HeldEventTold <=>
        (PromptInTheEnd => \A r \in Readers : (reader[r] = "wait" /\ EventOf[r] \in source
                                  ~> reader[r] = "true" \/ EventOf[r] \notin source))
  BY DEF HeldEventTold
<1>4. QED
  BY <1>2, <1>3
=============================================================================

----------------------------- MODULE FileNodes -----------------------------
(***************************************************************************)
(* The device's file nodes and the requests made on them.                  *)
(*                                                                         *)
(* A handle of a control, user or bypass node keeps a pointer into its BAR *)
(* and the mapping of the BAR into its owner's memory; a handle of an      *)
(* engine keeps the engine's queue.  A request passes through              *)
(* EvtDeviceIoInCallerContext, which maps BARs at once and enqueues the    *)
(* rest in the device's queue; that is parallel, so the handlers of two    *)
(* requests interleave.  A helper completes the request when it succeeds or  *)
(* leaves it to its caller to complete when it fails; a transfer goes on to *)
(* the engine's queue (MmEngine, PollEngine and RingStream).               *)
(*                                                                         *)
(* The framework holds the device's queue while the device is not started, *)
(* waits for the requests under way before it stops the device, and        *)
(* creates handles on a started device only.  A handle may be cleaned up   *)
(* while a request of it is under way, and BARs are mapped under no lock.  *)
(***************************************************************************)
EXTENDS DeviceSetup

CONSTANTS
  Files,     \* handles of the device
  Nodes,     \* the device nodes of FileNameLUT: their type and channel
  Requests,  \* requests on them
  None

BarTypes == {"control", "user", "bypass"}
Types    == BarTypes \cup Dirs \cup {"event"}
Ops      == {"read", "write", "map", "keyhole", "query", "increment", "fixed"}

ASSUME NodesAssumption ==
  /\ Nodes \subseteq [type : Types, channel : Nat]
  /\ \A n \in Nodes : n.type \in Dirs => <<n.type, n.channel>> \in Engines
  /\ None \notin Nodes /\ None \notin Files /\ None \notin Requests /\ None \notin Int \X Int

VARIABLES
  handle,     \* the node of each handle, its pointer or queue, and the start it is of
  state,      \* a handle is "closed", "open" or "cleaned"
  mdl,        \* file->mdl: what it describes
  virtAddress, \* file->virtAddress: the mapping, named by the request that made it
  mappings,   \* the mappings made through the handle that still exist
  request,    \* the handle and the operation of each request
  at,         \* where the request is
  status,     \* what a helper has returned to its caller
  answers,    \* how often the request has been completed
  overlapped  \* engines whose address mode two requests have set at once

mapVars     == <<mdl, virtAddress, mappings>>
fileVars    == <<handle, state, mapVars>>
requestVars == <<request, at, status, answers, overlapped>>
vars == <<setupVars, modeVars, fileVars, requestVars>>

Wild == <<-1, -1>>

NoHandle == [node |-> None, bar |-> Null, queue |-> 0, start |-> 0]

Type(r) == handle[request[r].file].node.type
EngineOf(r) == <<Type(r), handle[request[r].file].node.channel>>

\* Requests to map a BAR; the other control requests, which the queue presents.
MapsBar(r)  == request[r].op = "map" /\ Type(r) \in BarTypes
Controls(r) == request[r].op \notin {"read", "write"} /\ ~MapsBar(r)

-----------------------------------------------------------------------------
(* Slips of the code *)

\* The case of the bypass node does not fall through to the others.
BarIndexBreaks(type) == barIdx.user + (IF type = "user" THEN 0 ELSE 1)

\* The mapping of a control node's BAR is left behind.
CleanupSkipsControl(f) ==
  /\ state[f] = "open"
  /\ state' = [state EXCEPT ![f] = "cleaned"]
  /\ IF handle[f].node.type \in {"user", "bypass"} /\ mdl[f] # None
     THEN /\ mdl' = [mdl EXCEPT ![f] = None]
          /\ mappings' = [mappings EXCEPT ![f] = @ \ {virtAddress[f]}]
     ELSE UNCHANGED <<mdl, mappings>>
  /\ UNCHANGED <<setupVars, modeVars, handle, virtAddress, requestVars>>

\* EvtIoDeviceControl does not look at the status.
FinishControlAlways(r) ==
  /\ at[r] = "returned" /\ Controls(r)
  /\ at' = [at EXCEPT ![r] = "answered"]
  /\ answers' = [answers EXCEPT ![r] = @ + 1]
  /\ UNCHANGED <<setupVars, modeVars, fileVars, request, status, overlapped>>

\* The register's bit is set in either mode.
SetRegisterBitOnly(e, mode) == control' = [control EXCEPT ![e] = 1]

-----------------------------------------------------------------------------

Init ==
  /\ SetupInit
  /\ handle = [f \in Files |-> NoHandle]
  /\ state = [f \in Files |-> "closed"]
  /\ mdl = [f \in Files |-> None] /\ virtAddress = [f \in Files |-> None]
  /\ mappings = [f \in Files |-> {}]
  /\ request = [r \in Requests |-> [file |-> None, op |-> "read"]]
  /\ at = [r \in Requests |-> "idle"] /\ status = [r \in Requests |-> "none"]
  /\ answers = [r \in Requests |-> 0]
  /\ overlapped = {}

\* configBarIdx, userBarIdx or bypassBarIdx.
NodeBar(type) ==
  CASE type = "control" -> barIdx.config
    [] type = "user"    -> barIdx.user
    [] type = "bypass"  -> barIdx.bypass

\* EvtDeviceFileCreate; a node that does not exist is not opened.  What it does
\* to the engine is in MmEngine and RingStream.
FileCreate(f, n) ==
  /\ stage = "started" /\ state[f] = "closed"
  /\ \/ /\ n.type \in BarTypes /\ NodeBar(n.type) # NoBar
        /\ handle' = [handle EXCEPT ![f] = [NoHandle EXCEPT
             !.node = n, !.start = starts, !.bar = bar[NodeBar(n.type)]]]
     \/ /\ n.type \in Dirs /\ <<n.type, n.channel>> \in enabled
        /\ handle' = [handle EXCEPT ![f] = [NoHandle EXCEPT
             !.node = n, !.start = starts, !.queue = queue[<<n.type, n.channel>>]]]
     \/ /\ n.type = "event"
        /\ handle' = [handle EXCEPT ![f] = [NoHandle EXCEPT !.node = n, !.start = starts]]
  /\ state' = [state EXCEPT ![f] = "open"]
  /\ UNCHANGED <<setupVars, modeVars, mapVars, requestVars>>

\* EvtFileCleanup unmaps what file->virtAddress names, if file->mdl is set.  The
\* address need not be that of the MDL: a call to map the BAR sets one after the other.
FileCleanup(f) ==
  /\ state[f] = "open"
  /\ state' = [state EXCEPT ![f] = "cleaned"]
  /\ IF handle[f].node.type \in BarTypes /\ mdl[f] # None
     THEN /\ mdl' = [mdl EXCEPT ![f] = None]
          /\ mappings' = [mappings EXCEPT ![f] = @ \ {virtAddress[f]}]
     ELSE UNCHANGED <<mdl, mappings>>
  /\ UNCHANGED <<setupVars, modeVars, handle, virtAddress, requestVars>>

\* The application makes a request.
Issue(r, f, op) ==
  /\ at[r] = "idle" /\ state[f] = "open"
  /\ request' = [request EXCEPT ![r] = [file |-> f, op |-> op]]
  /\ at' = [at EXCEPT ![r] = "caller"]
  /\ UNCHANGED <<setupVars, modeVars, fileVars, status, answers, overlapped>>

Complete(r) == answers' = [answers EXCEPT ![r] = @ + 1]

Return(r, result) ==
  /\ at' = [at EXCEPT ![r] = "returned"]
  /\ status' = [status EXCEPT ![r] = result]
  /\ UNCHANGED <<request, overlapped>>

\* A helper completes the request and returns a success,
Succeed(r) == Return(r, "success") /\ Complete(r)

\* or returns an error and leaves the request alone.
Fail(r) == Return(r, "error") /\ UNCHANGED answers

\* The helper's caller completes the request on an error.
Finish(r) ==
  /\ at[r] = "returned" /\ status[r] = "error"
  /\ at' = [at EXCEPT ![r] = "answered"]
  /\ Complete(r)
  /\ UNCHANGED <<setupVars, modeVars, fileVars, request, status, overlapped>>

\* The BAR of a node as the control handlers count it, from userBarIdx up.
BarIndex(type) ==
  CASE type = "user"    -> barIdx.user
    [] type = "control" -> barIdx.user + 1
    [] type = "bypass"  -> barIdx.user + 2

\* xdma->bar[i], or what lies before the array: while the device is started
\* again, userBarIdx is -1 for a handle of the user node that has been left open.
BarAt(i) == IF i \in BarIdx THEN bar[i] ELSE Wild

\* IoctlMapBar runs in the context of the caller, outside any queue and under no
\* lock.  It fails at once, or overwrites the MDL of an earlier mapping,
CreateMdl(r) ==
  LET f == request[r].file IN
  /\ at[r] = "caller" /\ MapsBar(r)
  /\ \/ /\ mdl' = [mdl EXCEPT ![f] = BarAt(BarIndex(Type(r)))]
        /\ at' = [at EXCEPT ![r] = "mdlSet"]
        /\ UNCHANGED <<request, status, answers, overlapped>>
     \/ /\ mdl' \in {mdl, [mdl EXCEPT ![f] = None]}
        /\ Fail(r)
  /\ UNCHANGED <<setupVars, modeVars, handle, state, virtAddress, mappings>>

\* maps the BAR that file->mdl describes by now,
MapPages(r) ==
  LET f == request[r].file IN
  /\ at[r] = "mdlSet" /\ mdl[f] # None
  /\ mappings' = [mappings EXCEPT ![f] = @ \cup {r}]
  /\ at' = [at EXCEPT ![r] = "mapped"]
  /\ UNCHANGED <<setupVars, modeVars, handle, state, mdl, virtAddress>>
  /\ UNCHANGED <<request, status, answers, overlapped>>

\* or cannot, and frees the MDL; there is no step for an MDL that has been freed
\* meanwhile, which takes the system down;
MapPagesFails(r) ==
  LET f == request[r].file IN
  /\ at[r] = "mdlSet" /\ mdl[f] # None
  /\ mdl' = [mdl EXCEPT ![f] = None]
  /\ Fail(r)
  /\ UNCHANGED <<setupVars, modeVars, handle, state, virtAddress, mappings>>

\* and passes the address back, to the handle and to the application.
StoreAddress(r) ==
  /\ at[r] = "mapped"
  /\ virtAddress' = [virtAddress EXCEPT ![request[r].file] = r]
  /\ Succeed(r)
  /\ UNCHANGED <<setupVars, modeVars, handle, state, mdl, mappings>>

\* EvtDeviceIoInCallerContext once IoctlMapBar has returned.
FinishMap(r) == MapsBar(r) /\ Finish(r)

\* EvtDeviceIoInCallerContext: any other request is enqueued, one to map a BAR
\* of a node that has none after it has been completed.  When it cannot be
\* enqueued, nothing more is done.
Enqueue(r) ==
  /\ at[r] = "caller" /\ ~MapsBar(r)
  /\ IF request[r].op = "map" THEN Complete(r) ELSE UNCHANGED answers
  /\ \E enqueued \in BOOLEAN :
       at' = [at EXCEPT ![r] = IF enqueued THEN "queued" ELSE "dropped"]
  /\ UNCHANGED <<setupVars, modeVars, fileVars, request, status, overlapped>>

\* The device's queue presents the request, in a context of its own.
Handled(r, ops, types) ==
  /\ at[r] = "queued" /\ stage = "started"
  /\ request[r].op \in ops /\ Type(r) \in types

KeepsFiles == UNCHANGED <<setupVars, modeVars, fileVars>>

\* ReadBarToRequest
ReadBar(r) == Handled(r, {"read"}, BarTypes) /\ (Succeed(r) \/ Fail(r)) /\ KeepsFiles

\* WriteBarFromRequest
WriteBar(r) == Handled(r, {"write"}, BarTypes) /\ (Succeed(r) \/ Fail(r)) /\ KeepsFiles

\* EvtReadUserEvent, at the end of its wait.  The wait itself is in Interrupts.
ReadEvent(r) == Handled(r, {"read"}, {"event"}) /\ (Succeed(r) \/ Fail(r)) /\ KeepsFiles

\* EvtIoRead and EvtIoWrite put a transfer into the engine's queue,
Forward(r) ==
  /\ Handled(r, {"read"}, {"c2h"}) \/ Handled(r, {"write"}, {"h2c"})
  /\ at' = [at EXCEPT ![r] = "engine"]
  /\ status' = [status EXCEPT ![r] = "success"]
  /\ KeepsFiles /\ UNCHANGED <<request, answers, overlapped>>

\* which may not take it; or the node is not read, or not written.
RejectTransfer(r) ==
  /\ Handled(r, {"read"}, Dirs) \/ Handled(r, {"write"}, Dirs \cup {"event"})
  /\ Fail(r) /\ KeepsFiles

\* EvtIoReadDma, EvtIoWriteDma or EvtIoReadEngineRing, and what follows.
EngineServes(r) ==
  /\ at[r] = "engine"
  /\ at' = [at EXCEPT ![r] = "answered"]
  /\ Complete(r)
  /\ KeepsFiles /\ UNCHANGED <<request, status, overlapped>>

\* EvtIoRead and EvtIoWrite once the request has been handled.
FinishRead(r)  == request[r].op = "read" /\ Finish(r)
FinishWrite(r) == request[r].op = "write" /\ Finish(r)

\* IoctlBar knows keyhole writes only.
BarControl(r) ==
  /\ Handled(r, Ops \ {"read", "write", "map"}, BarTypes)
  /\ (request[r].op = "keyhole" /\ Succeed(r)) \/ Fail(r)
  /\ KeepsFiles

\* IoctlChannel starts the performance counters, which cannot fail, or has
\* IoctlGetPerf or IoctlGetAddrMode answer.
Query(r) == Handled(r, {"query"}, Dirs) /\ (Succeed(r) \/ Fail(r)) /\ KeepsFiles

\* IoctlChannel does not know the code, or fails before it sets the address mode.
RejectChannel(r) == Handled(r, Ops \ {"read", "write", "query"}, Dirs) /\ Fail(r) /\ KeepsFiles

\* EvtIoDeviceControl of an event node.
RejectControl(r) == Handled(r, Ops \ {"read", "write"}, {"event"}) /\ Fail(r) /\ KeepsFiles

\* EvtIoDeviceControl once the request has been handled.
FinishControl(r) == Controls(r) /\ Finish(r)

SetRegister(e, mode) == control' = [control EXCEPT ![e] = mode]

Mode(r) == IF request[r].op = "fixed" THEN 1 ELSE 0

\* IoctlSetAddrMode writes the engine's register,
SetAddrModeRegister(r) ==
  /\ Handled(r, {"increment", "fixed"}, Dirs)
  /\ SetRegister(EngineOf(r), Mode(r))
  /\ at' = [at EXCEPT ![r] = "registerSet"]
  /\ overlapped' = IF \E q \in Requests : at[q] = "registerSet" /\ EngineOf(q) = EngineOf(r)
                   THEN overlapped \cup {EngineOf(r)} ELSE overlapped
  /\ UNCHANGED <<setupVars, addressMode, fileVars, request, status, answers>>

\* and then the field that XDMA_EngineProgramDma goes by.
SetAddrModeField(r) ==
  /\ at[r] = "registerSet"
  /\ addressMode' = [addressMode EXCEPT ![EngineOf(r)] = Mode(r)]
  /\ Succeed(r)
  /\ UNCHANGED <<setupVars, control, fileVars>>

\* The device is stopped when no handler that a queue has called has a request in
\* hand; one that maps a BAR may be under way.
Stop ==
  /\ \A r \in Requests : /\ at[r] \notin {"engine", "registerSet"}
                         /\ at[r] = "returned" /\ ~MapsBar(r) => status[r] # "error"
  /\ Release
  /\ UNCHANGED <<fileVars, requestVars>>

Next ==
  \/ SetupNext /\ UNCHANGED <<fileVars, requestVars>>
  \/ Stop
  \/ \E f \in Files : FileCleanup(f) \/ \E n \in Nodes : FileCreate(f, n)
  \/ \E r \in Requests :
       \/ \E f \in Files, op \in Ops : Issue(r, f, op)
       \/ CreateMdl(r) \/ MapPages(r) \/ MapPagesFails(r) \/ StoreAddress(r) \/ FinishMap(r)
       \/ Enqueue(r)
       \/ ReadBar(r) \/ WriteBar(r) \/ ReadEvent(r)
       \/ Forward(r) \/ RejectTransfer(r) \/ EngineServes(r) \/ FinishRead(r) \/ FinishWrite(r)
       \/ BarControl(r) \/ Query(r) \/ RejectChannel(r) \/ RejectControl(r) \/ FinishControl(r)
       \/ SetAddrModeRegister(r) \/ SetAddrModeField(r)

Spec == Init /\ [][Next]_vars

-----------------------------------------------------------------------------
(* Properties *)

Places == {"idle", "caller", "mdlSet", "mapped", "queued", "engine", "registerSet", "returned",
           "answered", "dropped"}

\* The type invariant.
TypeOK ==
  /\ SetupTypeOK
  /\ handle \in [Files -> [node : Nodes \cup {None}, queue : 0..MaxStarts, start : 0..MaxStarts,
                           bar : ((1..MaxStarts) \X BarIdx) \cup {Null}]]
  /\ state \in [Files -> {"closed", "open", "cleaned"}]
  /\ mdl \in [Files -> ((1..MaxStarts) \X BarIdx) \cup {Null, Wild, None}]
  /\ virtAddress \in [Files -> Requests \cup {None}]
  /\ mappings \in [Files -> SUBSET Requests]
  /\ request \in [Requests -> [file : Files \cup {None}, op : Ops]]
  /\ at \in [Requests -> Places]
  /\ status \in [Requests -> {"none", "success", "error"}]
  /\ answers \in [Requests -> 0..2]
  /\ overlapped \subseteq Engines

\* A request to map a BAR of a node that has none.
Misdirected(r) == request[r].op = "map" /\ Type(r) \notin BarTypes

\* A helper that succeeds has completed its request, one that fails has not and its
\* caller does; an engine completes what was forwarded to it (EvtIoRead, EvtIoWrite,
\* EvtIoDeviceControl, EvtDeviceIoInCallerContext and their helpers).  So every
\* request is completed once, but for two kinds: a misdirected one, which
\* EvtDeviceIoInCallerContext completes and enqueues all the same, and one that
\* cannot be enqueued, which is "dropped" and never completed.
AnsweredOnce ==
  \A r \in Requests :
    (at[r] # "idle" /\ ~Misdirected(r)) =>
      answers[r] = IF at[r] = "answered" \/ (at[r] = "returned" /\ status[r] = "success")
                   THEN 1 ELSE 0

\* A handle opened since the last start has what its node stands for: for a BAR
\* node a pointer into a mapped BAR, the one the control handlers find by
\* counting from userBarIdx; for an engine the queue of this start.  It is so on
\* a core whose control BAR is 0 or 1.
FreshHandles ==
  \A f \in Files :
    (state[f] = "open" /\ stage = "started" /\ handle[f].start = starts /\ barIdx.config <= 1) =>
      LET n == handle[f].node IN
        /\ n.type \in BarTypes => /\ handle[f].bar \in mapped
                                  /\ handle[f].bar = BarAt(BarIndex(n.type))
        /\ n.type \in Dirs => /\ <<n.type, n.channel>> \in enabled
                              /\ handle[f].queue = starts

\* The calls to map the BAR of a handle, and those between setting file->mdl and
\* setting file->virtAddress.
MapCalls(f) ==
  {r \in Requests : request[r].file = f /\ MapsBar(r) /\ at[r] \notin {"idle", "caller"}}
Mapping(f) == {r \in MapCalls(f) : at[r] \in {"mdlSet", "mapped"}}

\* When a handle is cleaned up and no call to map its BAR is under way, one mapping
\* is undone if every call has made one, however the calls overlapped: a single call
\* leaves nothing behind, several leave one mapping less than there were calls
\* (IoctlMapBar, EvtFileCleanup).  Under a call that is under way, cleanup leaves
\* the call's mapping.
UnmappedByCleanup ==
  [][ \A f \in Files :
        (state[f] = "open" /\ state'[f] = "cleaned" /\ Mapping(f) = {} /\ MapCalls(f) # {}) =>
          mappings'[f] \subseteq MapCalls(f) /\ mappings'[f] # MapCalls(f) ]_vars

\* The address mode that XDMA_EngineProgramDma goes by is the engine's, through
\* stops and starts, while no two requests have set it at once.
AddressModeAgrees ==
  \A e \in enabled :
    (e \notin overlapped /\ \A r \in Requests : at[r] = "registerSet" => EngineOf(r) # e) =>
      control[e] = addressMode[e]
=============================================================================

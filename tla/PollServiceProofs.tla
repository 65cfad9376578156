------------------------- MODULE PollServiceProofs --------------------------
(***************************************************************************)
(* Until a request fails, PollEngine implements TransferService.           *)
(***************************************************************************)
EXTENDS PollEngineProofs

\* Of part q, m holds the first n descriptors and no others.
UpTo(m, q, n) == \A k \in Nat : <<q, k>> \in m <=> k < n

\* Nothing of a queued request has been moved.
QueuedUntouched ==
  \A r \in Requests : req[r] = "queued" => \A j \in Nat : UpTo(moved, <<r, j>>, 0)

\* The parts before the current one have been moved whole, the later ones not at all.
InOrder ==
  Busy => \A j \in Nat :
            /\ j < split => j < Len(Lists[txn]) /\ UpTo(moved, <<txn, j>>, Lists[txn][j + 1])
            /\ j > split => UpTo(moved, <<txn, j>>, 0)

\* How much of the current part has been moved.
Current ==
  /\ pc \in {"program", "start"} => UpTo(moved, <<txn, split>>, 0)
  /\ fetch # Idle => UpTo(moved, <<txn, split>>, fetch.next)
  /\ pc = "completed" \/ (Chained /\ ~writeBack.err /\ writeBack.count > 0) =>
       split < Len(Lists[txn]) /\ UpTo(moved, <<txn, split>>, Lists[txn][split + 1])
  /\ pc = "complete" => split = Len(Lists[txn])

Progress == QueuedUntouched /\ InOrder /\ Current
ProgressUntilFailure == Failed \/ Progress

-----------------------------------------------------------------------------

LEMMA ProgressInit == Init => ProgressUntilFailure
BY DEF Init, ProgressUntilFailure, Progress, QueuedUntouched, InOrder, Current, UpTo, Busy,
   Chained

\* One read of the engine moves the descriptors it heeds, all of the current part.
LEMMA FetchMoves ==
  ASSUME Typed, Clean, HwFetch
  PROVE  /\ Chained /\ pc \in {"poll", "errExit"}
         /\ txn \in Requests /\ req[txn] = "driver" /\ split \in Nat /\ split < Len(Lists[txn])
         /\ Last \in Nat /\ fetch.next \in Nat /\ fetch.next <= Last
         /\ numDescriptors \in Nat /\ numDescriptors = Lists[txn][split + 1]
         /\ Last < numDescriptors
         /\ \A q \in Parts, k \in Nat :
              <<q, k>> \in moved' <=>
                <<q, k>> \in moved \/ (q = <<txn, split>> /\ fetch.next <= k /\ k <= Last)
         /\ \/ /\ Stops # {}
               /\ fetch' = Idle /\ Last = numDescriptors - 1
               /\ writeBack' = [count |-> Last + 1, err |-> FALSE]
            \/ /\ Stops = {}
               /\ fetch' = [next |-> Last + 1, adj |-> descBuffer[Last].nextAdj]
               /\ Last < numDescriptors - 1
               /\ UNCHANGED writeBack
<1> DEFINE n == numDescriptors
           p == <<txn, split>>
<1>1. fetch # Idle
  BY DEF HwFetch, Moving
<1>2. /\ Chained /\ pc # "start" /\ pc # "process"
      /\ fetch.next \in Nat /\ fetch.adj \in Nat /\ Last \in Nat /\ n \in Nat
      /\ \A i \in Heeded : descBuffer[i] = Descriptor(p, n, firstDesc, i)
      /\ \A i : i \in Heeded <=> i \in fetch.next..Last
      /\ Stops # {} => Last = n - 1
      /\ Stops = {} => Last < n - 1
  BY <1>1, ChainFetch
<1>3. pc \in {"poll", "errExit"}
  BY <1>2 DEF Chained
<1>4. txn \in Requests /\ req[txn] = "driver" /\ split \in Nat
  BY <1>3 DEF Typed, Control, AnsweredBeforeReturn, Busy, DriverTypes
<1>5. split < Len(Lists[txn]) /\ n = Lists[txn][split + 1]
  BY <1>2 DEF Clean, Chain
<1>6. Last \in Heeded
  BY <1>1, HeedsUpToLast DEF Typed, FetchInBuffer
<1>7. fetch.next <= Last
  BY <1>2, <1>6
<1>8. \A i \in Heeded : descBuffer[i] # Zeroed
  BY <1>2, DescriptorNotZeroed
<1>9. \A i \in Heeded : descBuffer[i].data = <<p, i>>
  <2>1. \A q, m, first, i : Descriptor(q, m, first, i).data = <<q, i>>
    BY DEF Descriptor
  <2>2. QED
    BY <1>2, <2>1
<1>10. moved' = moved \cup {<<p, i>> : i \in Heeded}
  <2>1. {j \in Heeded : descBuffer[j] # Zeroed} = Heeded
    BY <1>8
  <2>2. moved' = moved \cup {descBuffer[i].data : i \in Heeded}
    BY <2>1 DEF HwFetch
  <2>3. {descBuffer[i].data : i \in Heeded} = {<<p, i>> : i \in Heeded}
    BY <1>9
  <2>4. QED
    BY <2>2, <2>3
<1>11. \A q \in Parts, k \in Nat :
         <<q, k>> \in moved' <=>
           <<q, k>> \in moved \/ (q = p /\ fetch.next <= k /\ k <= Last)
  <2>1. \A k \in Nat : k \in Heeded <=> fetch.next <= k /\ k <= Last
    BY <1>2
  <2>2. \A q, k : <<q, k>> \in {<<p, i>> : i \in Heeded} <=> q = p /\ k \in Heeded
    BY Zenon
  <2>3. QED
    BY <1>10, <2>1, <2>2
<1>12. \/ /\ Stops # {}
          /\ fetch' = Idle
          /\ writeBack' = [count |-> Last + 1, err |-> FALSE]
       \/ /\ Stops = {}
          /\ fetch' = [next |-> Last + 1, adj |-> descBuffer[Last].nextAdj]
          /\ UNCHANGED writeBack
  BY <1>8 DEF HwFetch
<1>13. Last < n
  BY <1>2
<1>14. QED
  BY <1>2, <1>3, <1>4, <1>5, <1>7, <1>11, <1>12, <1>13

\* One read of the engine keeps the parts in order.
LEMMA ProgressFetch == ASSUME Typed, Clean, Progress, HwFetch PROVE Progress'
<1> DEFINE p == <<txn, split>>
<1>1. UNCHANGED <<req, txn, split, numDescriptors, pc>> /\ fetch # Idle
  BY DEF HwFetch, Moving, txnVars, driverVars
<1>2. pc \in {"poll", "errExit"} /\ txn \in Requests /\ req[txn] = "driver" /\ split \in Nat
  BY FetchMoves
<1>3. \A n : \A r \in Requests, j \in Nat :
        <<r, j>> # p /\ UpTo(moved, <<r, j>>, n) => UpTo(moved', <<r, j>>, n)
  <2> SUFFICES ASSUME NEW n, NEW r \in Requests, NEW j \in Nat, <<r, j>> # p,
                      UpTo(moved, <<r, j>>, n)
               PROVE  UpTo(moved', <<r, j>>, n)
    OBVIOUS
  <2>1. <<r, j>> \in Parts
    BY DEF Parts
  <2>2. \A k \in Nat : <<<<r, j>>, k>> \in moved' <=> <<<<r, j>>, k>> \in moved
    BY <2>1, FetchMoves
  <2>3. QED
    BY <2>2 DEF UpTo
<1>4. UpTo(moved', p, Last + 1)
  <2>1. p \in Parts
    BY <1>2 DEF Parts
  <2>2. UpTo(moved, p, fetch.next)
    BY <1>1 DEF Progress, Current
  <2>3. \A k \in Nat : <<p, k>> \in moved' <=> k < fetch.next \/ (fetch.next <= k /\ k <= Last)
    BY <2>1, <2>2, FetchMoves DEF UpTo
  <2>4. Last \in Nat /\ fetch.next \in Nat /\ fetch.next <= Last
    BY FetchMoves
  <2>5. \A k \in Nat : k < fetch.next \/ (fetch.next <= k /\ k <= Last) <=> k < Last + 1
    BY <2>4
  <2>6. QED
    BY <2>3, <2>5 DEF UpTo
<1>5. QueuedUntouched'
  <2> SUFFICES ASSUME NEW r \in Requests, req'[r] = "queued", NEW j \in Nat
               PROVE  UpTo(moved', <<r, j>>, 0)
    BY DEF QueuedUntouched
  <2>1. r # txn
    BY <1>1, <1>2
  <2>2. UpTo(moved, <<r, j>>, 0)
    BY <1>1 DEF Progress, QueuedUntouched
  <2>3. QED
    BY <1>3, <2>1, <2>2
<1>6. InOrder'
  <2> SUFFICES ASSUME NEW j \in Nat, j # split
               PROVE  /\ j < split => j < Len(Lists[txn])
                                       /\ UpTo(moved', <<txn, j>>, Lists[txn][j + 1])
                      /\ j > split => UpTo(moved', <<txn, j>>, 0)
    BY <1>1, <1>2 DEF InOrder
  <2>1. /\ j < split => j < Len(Lists[txn]) /\ UpTo(moved, <<txn, j>>, Lists[txn][j + 1])
        /\ j > split => UpTo(moved, <<txn, j>>, 0)
    BY <1>2 DEF Progress, InOrder, Busy
  <2>2. <<txn, j>> # p
    OBVIOUS
  <2>3. QED
    BY <1>2, <1>3, <2>1, <2>2
<1>7. Current'
  <2>1. CASE /\ fetch' = Idle /\ Last = numDescriptors - 1
             /\ writeBack' = [count |-> Last + 1, err |-> FALSE]
    <3>1. UpTo(moved', p, Lists[txn][split + 1]) /\ split < Len(Lists[txn])
      <4>1. Last + 1 = Lists[txn][split + 1] /\ split < Len(Lists[txn])
        BY <2>1, FetchMoves
      <4>2. QED
        BY <1>4, <4>1
    <3>2. QED
      BY <1>1, <1>2, <2>1, <3>1 DEF Current, Chained
  <2>2. CASE /\ fetch' = [next |-> Last + 1, adj |-> descBuffer[Last].nextAdj]
             /\ UNCHANGED writeBack
    <3>1. ~(~writeBack.err /\ writeBack.count > 0)
      BY <1>1 DEF Clean, Counted
    <3>2. UpTo(moved', p, fetch'.next)
      BY <1>4, <2>2
    <3>3. QED
      BY <1>1, <1>2, <2>2, <3>1, <3>2 DEF Current
  <2>3. QED
    BY <2>1, <2>2, FetchMoves
<1>8. QED
  BY <1>5, <1>6, <1>7 DEF Progress

LEMMA ProgressStep ==
  Typed /\ CleanUntilFailure /\ ProgressUntilFailure /\ [Next]_vars => ProgressUntilFailure'
<1> SUFFICES ASSUME Typed, CleanUntilFailure, ProgressUntilFailure, [Next]_vars, ~Failed'
             PROVE  Progress'
  BY DEF ProgressUntilFailure
<1>0. Clean /\ Progress /\ Control
  BY FailedStays DEF Typed, CleanUntilFailure, ProgressUntilFailure
<1>r. /\ req \in [Requests -> {"queued", "driver"} \cup Outcomes]
      /\ Busy => txn \in Requests /\ req[txn] = "driver"
      /\ split \in Nat
  BY <1>0 DEF Control, AnsweredBeforeReturn, DriverTypes
<1> USE <1>0 DEF Progress
<1>1. ASSUME NEW r \in Requests, Dispatch(r) PROVE Progress'
  <2>1. /\ req[r] = "queued" /\ txn' = r /\ split' = 0 /\ pc' = "program"
        /\ req' = [req EXCEPT ![r] = "driver"]
        /\ UNCHANGED <<writeBack, fetch, moved>> /\ fetch = Idle
    BY <1>1 DEF Dispatch, Presents, hwVars, Clean, Slate, Quiet
  <2>2. \A j \in Nat : UpTo(moved, <<r, j>>, 0)
    BY <2>1 DEF QueuedUntouched
  <2>3. QueuedUntouched'
    BY <1>r, <2>1 DEF QueuedUntouched
  <2>4. InOrder' /\ Current'
    BY <2>1, <2>2 DEF InOrder, Current, Chained
  <2>5. QED
    BY <2>3, <2>4
<1>2. ASSUME NEW r \in Requests, DispatchFails(r) PROVE Progress'
  <2>1. QueuedUntouched'
    BY <1>2, <1>r DEF DispatchFails, ReleaseAndComplete, QueuedUntouched
  <2>2. pc' = "idle" /\ UNCHANGED fetch /\ fetch = Idle
    BY <1>2 DEF DispatchFails, Presents, hwVars, Clean, Slate, Quiet
  <2>3. QED
    BY <2>1, <2>2 DEF InOrder, Current, Busy, Chained
<1>3. CASE Program \/ Start \/ PollError \/ PollTimesOut \/ PollDone \/ HwError \/ HwHang
  <2>1. QueuedUntouched'
    BY <1>3 DEF Program, Start, PollError, PollTimesOut, PollDone, HwError, HwHang, txnVars,
       QueuedUntouched
  <2>2. InOrder'
    BY <1>3 DEF Program, Start, PollError, PollTimesOut, PollDone, HwError, HwHang, txnVars,
       InOrder, Busy
  <2>3. Current'
    <3>1. CASE Program
      BY <3>1 DEF Program, txnVars, hwVars, Current, Chained, Clean, Slate, Quiet, NoCount
    <3>2. CASE Start
      BY <3>2 DEF Start, txnVars, Current, Chained, Clean, Slate, Quiet, NoCount
    <3>3. CASE PollError \/ PollTimesOut \/ PollDone
      BY <3>3 DEF PollError, PollTimesOut, PollDone, txnVars, hwVars, Current, Chained
    <3>4. CASE HwError
      BY <3>4, ChainFetch DEF HwError, Fail, Moving, txnVars, Current, Chained
    <3>5. CASE HwHang
      BY <3>5 DEF HwHang, Moving, txnVars, Current, Chained
    <3>6. QED
      BY <1>3, <3>1, <3>2, <3>3, <3>4, <3>5
  <2>4. QED
    BY <2>1, <2>2, <2>3
<1>4. CASE ProcessTransfer
  <2>1. /\ pc = "process" /\ pc' \in {"completed", "failed"} /\ fetch' = Idle
        /\ UNCHANGED <<req, txn, split, moved>>
    BY <1>4 DEF ProcessTransfer, txnVars
  <2>2. split < Len(Lists[txn]) /\ UpTo(moved, <<txn, split>>, Lists[txn][split + 1])
    BY <2>1 DEF Current, Chained, Clean, Counted
  <2>3. QED
    BY <2>1, <2>2 DEF QueuedUntouched, InOrder, Busy, Current, Chained
<1>5. CASE DmaCompleted
  <2>1. /\ pc = "completed" /\ split' = split + 1
        /\ pc' = IF split + 1 < Len(Lists[txn]) THEN "program" ELSE "complete"
        /\ UNCHANGED <<req, txn, writeBack, fetch, moved>> /\ fetch = Idle
    BY <1>5 DEF DmaCompleted, hwVars, Clean, Slate, Quiet, Chained
  <2>2. txn \in Requests /\ Len(Lists[txn]) \in Nat
    BY <2>1, <1>r, ListLengths DEF Busy
  <2>3. split < Len(Lists[txn]) /\ UpTo(moved, <<txn, split>>, Lists[txn][split + 1])
    BY <2>1 DEF Current
  <2>4. \A j \in Nat : /\ j < split => j < Len(Lists[txn])
                                        /\ UpTo(moved, <<txn, j>>, Lists[txn][j + 1])
                       /\ j > split => UpTo(moved, <<txn, j>>, 0)
    BY <2>1 DEF InOrder, Busy
  <2>5. \A j \in Nat : /\ j < split + 1 => j < split \/ j = split
                       /\ j > split + 1 => j > split
    BY <1>r
  <2>6. QueuedUntouched'
    BY <2>1 DEF QueuedUntouched
  <2>7. InOrder'
    BY <2>1, <2>3, <2>4, <2>5 DEF InOrder
  <2>8. Current'
    <3>1. split + 1 \in Nat /\ split + 1 > split
      BY <1>r
    <3>2. UpTo(moved, <<txn, split + 1>>, 0)
      BY <3>1, <2>4
    <3>3. pc' = "complete" => split + 1 = Len(Lists[txn])
      BY <1>r, <2>1, <2>2, <2>3
    <3>4. QED
      BY <2>1, <3>2, <3>3 DEF Current, Chained
  <2>9. QED
    BY <2>6, <2>7, <2>8
<1>6. CASE Complete \/ ErrExit
  <2>1. QueuedUntouched'
    BY <1>6, <1>r DEF Complete, ErrExit, ReleaseAndComplete, QueuedUntouched
  <2>2. fetch' = Idle
    <3>1. CASE Complete
      BY <3>1 DEF Complete, hwVars, Clean, Slate, Quiet
    <3>2. CASE ErrExit
      <4>1. Failed'
        BY <3>2, <1>r DEF ErrExit, ReleaseAndComplete, Busy, Failed
      <4>2. QED
        BY <4>1
    <3>3. QED
      BY <1>6, <3>1, <3>2
  <2>3. QED
    BY <1>6, <2>1, <2>2 DEF Complete, ErrExit, InOrder, Current, Busy, Chained
<1>7. CASE HwFetch
  BY <1>7, ProgressFetch
<1>8. CASE UNCHANGED vars
  BY <1>8 DEF vars, txnVars, hwVars, driverVars, QueuedUntouched, InOrder, Current, Busy, Chained
<1>9. QED
  BY <1>1, <1>2, <1>3, <1>4, <1>5, <1>6, <1>7, <1>8 DEF Next, CallbackStep

-----------------------------------------------------------------------------
(* The refinement *)

\* A part of which the first n descriptors were moved is whole if that is all of them.
LEMMA WholeIffAll ==
  ASSUME NEW r \in Requests, NEW j \in Nat, j < Len(Lists[r]), NEW n \in Nat, NEW m,
         UpTo(m, <<r, j>>, n)
  PROVE  (\A k \in 0..(Lists[r][j + 1] - 1) : <<<<r, j>>, k>> \in m) <=> Lists[r][j + 1] <= n
<1> DEFINE len == Lists[r][j + 1]
<1>1. len \in Nat /\ len > 0
  BY ListLengths, PollAssumption
<1>2. ASSUME \A k \in 0..(len - 1) : <<<<r, j>>, k>> \in m PROVE len <= n
  <2>1. len - 1 \in Nat /\ len - 1 \in 0..(len - 1)
    BY <1>1
  <2>2. len - 1 < n
    BY <1>2, <2>1 DEF UpTo
  <2>3. QED
    BY <1>1, <2>2
<1>3. ASSUME len <= n PROVE \A k \in 0..(len - 1) : <<<<r, j>>, k>> \in m
  <2>1. \A k \in 0..(len - 1) : k \in Nat /\ k < n
    BY <1>1, <1>3
  <2>2. QED
    BY <2>1 DEF UpTo
<1>4. QED
  BY <1>2, <1>3

\* A part is whole if its request has it and all its descriptors were moved.
LEMMA WholePart ==
  \A r \in Requests, j \in Nat :
    /\ <<r, j>> \in AllParts <=> j < Len(Lists[r])
    /\ <<r, j>> \in WholeParts <=>
         j < Len(Lists[r]) /\ \A k \in 0..(Lists[r][j + 1] - 1) : <<<<r, j>>, k>> \in moved
<1> SUFFICES ASSUME NEW r \in Requests, NEW j \in Nat
             PROVE /\ <<r, j>> \in AllParts <=> j < Len(Lists[r])
                   /\ <<r, j>> \in WholeParts <=>
                        j < Len(Lists[r])
                        /\ \A k \in 0..(Lists[r][j + 1] - 1) : <<<<r, j>>, k>> \in moved
  OBVIOUS
<1>1. <<r, j>> \in AllParts <=> j \in 0..(Len(Lists[r]) - 1)
  BY DEF AllParts
<1>2. j \in 0..(Len(Lists[r]) - 1) <=> j < Len(Lists[r])
  BY ListLengths
<1>3. QED
  BY <1>1, <1>2 DEF WholeParts

LEMMA ServiceInit == Init => Service!Init
<1> SUFFICES ASSUME Init PROVE WholeParts = {}
  BY DEF Init, Service!Init
<1>1. ASSUME NEW p \in AllParts
      PROVE  \E k \in 0..(Lists[p[1]][p[2] + 1] - 1) : <<p, k>> \notin moved
  <2>0. PICK r \in Requests : \E j \in 0..(Len(Lists[r]) - 1) : p = <<r, j>>
    BY <1>1 DEF AllParts
  <2>1. PICK j \in 0..(Len(Lists[r]) - 1) : p = <<r, j>>
    BY <2>0
  <2>2. j \in Nat /\ j < Len(Lists[r])
    BY <2>1, ListLengths
  <2>3. Lists[r][j + 1] \in Nat \ {0}
    BY <2>2, ListLengths, PollAssumption
  <2>4. 0 \in 0..(Lists[p[1]][p[2] + 1] - 1)
    BY <2>1, <2>3
  <2>5. QED
    BY <2>4 DEF Init
<1>2. QED
  BY <1>1 DEF WholeParts

\* A read of the engine moves nothing whole, or the part that comes next.
LEMMA ServiceFetch ==
  ASSUME Typed, Clean, Progress, HwFetch
  PROVE  WholeParts' = WholeParts \/ Service!Move(txn, split)
<1> DEFINE p == <<txn, split>>
           n == Lists[txn][split + 1]
<1>1. fetch # Idle
  BY DEF HwFetch, Moving
<1>2. /\ Busy /\ txn \in Requests /\ req[txn] = "driver"
      /\ split \in Nat /\ split < Len(Lists[txn])
      /\ Last \in Nat /\ fetch.next \in Nat /\ fetch.next <= Last /\ n \in Nat /\ Last < n
      /\ \A q \in Parts, k \in Nat :
           <<q, k>> \in moved' <=>
             <<q, k>> \in moved \/ (q = p /\ fetch.next <= k /\ k <= Last)
  BY FetchMoves DEF Busy
<1>3. UpTo(moved, p, fetch.next)
  BY <1>1 DEF Progress, Current
<1>4. UpTo(moved', p, Last + 1)
  <2>1. p \in Parts
    BY <1>2 DEF Parts
  <2>2. \A k \in Nat : <<p, k>> \in moved' <=> k < fetch.next \/ (fetch.next <= k /\ k <= Last)
    BY <2>1, <1>2, <1>3 DEF UpTo
  <2>3. \A k \in Nat : k < fetch.next \/ (fetch.next <= k /\ k <= Last) <=> k < Last + 1
    BY <1>2
  <2>4. QED
    BY <2>2, <2>3 DEF UpTo
\* The current part is not whole yet, and becomes whole if this read ends it.
<1>5. p \notin WholeParts
  <2>1. ~(n <= fetch.next)
    BY <1>2
  <2>2. QED
    BY <2>1, <1>2, <1>3, WholeIffAll, WholePart
<1>6. p \in WholeParts' <=> n = Last + 1
  <2>1. p \in AllParts /\ p[1] = txn /\ p[2] = split
    BY <1>2, WholePart
  <2>2. p \in WholeParts' <=> \A k \in 0..(n - 1) : <<p, k>> \in moved'
    BY <2>1 DEF WholeParts
  <2>3. (\A k \in 0..(n - 1) : <<p, k>> \in moved') <=> n <= Last + 1
    BY <1>2, <1>4, WholeIffAll
  <2>4. QED
    BY <1>2, <2>2, <2>3
\* The other parts stay as they were.
<1>7. \A q : q # p => (q \in WholeParts' <=> q \in WholeParts)
  <2> SUFFICES ASSUME NEW q \in AllParts, q # p
               PROVE  \A k \in 0..(Lists[q[1]][q[2] + 1] - 1) :
                        <<q, k>> \in moved' <=> <<q, k>> \in moved
    BY DEF WholeParts
  <2>0. PICK r \in Requests : \E j \in 0..(Len(Lists[r]) - 1) : q = <<r, j>>
    BY DEF AllParts
  <2>1. PICK j \in 0..(Len(Lists[r]) - 1) : q = <<r, j>>
    BY <2>0
  <2>2. q \in Parts
    BY <2>1, ListLengths DEF Parts
  <2>3. QED
    BY <1>2, <2>2
<1>8. CASE n = Last + 1
  <2>1. WholeParts' = WholeParts \cup {p}
    BY <1>6, <1>7, <1>8
  <2>2. {j \in 0..(Len(Lists[txn]) - 1) : <<txn, j>> \in WholeParts} = 0..(split - 1)
    <3>1. Len(Lists[txn]) \in Nat
      BY <1>2, ListLengths
    <3>2. ASSUME NEW j \in Nat, j < split PROVE j < Len(Lists[txn]) /\ <<txn, j>> \in WholeParts
      <4>1. j < Len(Lists[txn]) /\ UpTo(moved, <<txn, j>>, Lists[txn][j + 1])
        BY <1>2, <3>2 DEF Progress, InOrder
      <4>2. Lists[txn][j + 1] \in Nat /\ Lists[txn][j + 1] <= Lists[txn][j + 1]
        BY <1>2, <4>1, ListLengths, PollAssumption
      <4>3. QED
        BY <1>2, <4>1, <4>2, WholeIffAll, WholePart
    <3>3. ASSUME NEW j \in Nat, j < Len(Lists[txn]), <<txn, j>> \in WholeParts PROVE j < split
      <4>1. j # split
        BY <1>5, <3>3
      <4>2. ASSUME j > split PROVE FALSE
        <5>1. UpTo(moved, <<txn, j>>, 0)
          BY <1>2, <4>2 DEF Progress, InOrder
        <5>2. Lists[txn][j + 1] \in Nat \ {0}
          BY <1>2, <3>3, ListLengths, PollAssumption
        <5>3. Lists[txn][j + 1] <= 0
          BY <1>2, <3>3, <5>1, WholeIffAll, WholePart
        <5>4. QED
          BY <5>2, <5>3
      <4>3. QED
        BY <1>2, <4>1, <4>2
    <3>4. \A j : j \in 0..(Len(Lists[txn]) - 1) <=> j \in Nat /\ j < Len(Lists[txn])
      BY <3>1
    <3>5. \A j : j \in 0..(split - 1) <=> j \in Nat /\ j < split
      BY <1>2
    <3>6. QED
      BY <3>2, <3>3, <3>4, <3>5
  <2>3. UNCHANGED req
    BY DEF HwFetch, txnVars
  <2>4. QED
    BY <1>2, <2>1, <2>2, <2>3 DEF Service!Move
<1>9. CASE n # Last + 1
  BY <1>5, <1>6, <1>7, <1>9
<1>10. QED
  BY <1>8, <1>9

LEMMA ServiceStep ==
  Typed /\ CleanUntilFailure /\ ProgressUntilFailure /\ [Next]_vars =>
    [Failed \/ Service!Next]_<<req, WholeParts>>
<1> SUFFICES ASSUME Typed, Clean, Progress, [Next]_vars
             PROVE  Service!Next \/ UNCHANGED <<req, WholeParts>>
  BY DEF CleanUntilFailure, ProgressUntilFailure
<1>w. moved' = moved => WholeParts' = WholeParts
  BY DEF WholeParts
<1>r. /\ req \in [Requests -> {"queued", "driver"} \cup Outcomes]
      /\ Busy => txn \in Requests /\ req[txn] = "driver"
  BY DEF Typed, Control, AnsweredBeforeReturn, DriverTypes
<1>1. ASSUME NEW r \in Requests, Dispatch(r) PROVE Service!Next
  <2>1. Service!Accept(r)
    BY <1>1, <1>w DEF Dispatch, Presents, Service!Accept
  <2>2. QED
    BY <2>1 DEF Service!Next
<1>2. ASSUME NEW r \in Requests, DispatchFails(r) PROVE Service!Next
  <2>1. Service!Refuse(r)
    BY <1>2, <1>w DEF DispatchFails, Presents, ReleaseAndComplete, Service!Refuse
  <2>2. QED
    BY <2>1 DEF Service!Next
<1>3. CASE Complete
  <2>1. txn \in Requests /\ req[txn] = "driver"
    BY <1>3, <1>r DEF Complete, Busy
  <2>2. CASE pc = "complete"
    <3>1. \A i \in 0..(Len(Lists[txn]) - 1) : <<txn, i>> \in WholeParts
      <4> SUFFICES ASSUME NEW i \in 0..(Len(Lists[txn]) - 1) PROVE <<txn, i>> \in WholeParts
        OBVIOUS
      <4>1. i \in Nat /\ i < Len(Lists[txn])
        BY <2>1, ListLengths
      <4>2. UpTo(moved, <<txn, i>>, Lists[txn][i + 1])
        BY <2>2, <4>1 DEF Progress, InOrder, Current, Busy
      <4>3. Lists[txn][i + 1] \in Nat /\ Lists[txn][i + 1] <= Lists[txn][i + 1]
        BY <2>1, <4>1, ListLengths, PollAssumption
      <4>4. QED
        BY <2>1, <4>1, <4>2, <4>3, WholeIffAll, WholePart
    <3>2. Service!Succeed(txn)
      BY <1>3, <1>w, <2>1, <2>2, <3>1 DEF Complete, ReleaseAndComplete, Service!Succeed
    <3>3. QED
      BY <2>1, <3>2 DEF Service!Next
  <2>3. CASE pc # "complete"
    <3>1. Service!Fail(txn, "INTERNAL_ERROR")
      BY <1>3, <1>w, <2>1, <2>3 DEF Complete, ReleaseAndComplete, Service!Fail
    <3>2. QED
      BY <2>1, <3>1 DEF Service!Next
  <2>4. QED
    BY <2>2, <2>3
<1>4. CASE ErrExit
  <2>1. txn \in Requests /\ req[txn] = "driver"
    BY <1>4, <1>r DEF ErrExit, Busy
  <2>2. Service!Fail(txn, "UNSUCCESSFUL")
    BY <1>4, <1>w, <2>1 DEF ErrExit, ReleaseAndComplete, Service!Fail
  <2>3. QED
    BY <2>1, <2>2 DEF Service!Next
<1>5. CASE HwFetch
  <2>1. UNCHANGED req
    BY <1>5 DEF HwFetch, txnVars
  <2>2. CASE WholeParts' = WholeParts
    BY <2>1, <2>2
  <2>3. CASE Service!Move(txn, split)
    <3>1. txn \in Requests /\ split \in 0..(Len(Lists[txn]) - 1)
      BY <1>5, FetchMoves, ListLengths
    <3>2. QED
      BY <2>3, <3>1 DEF Service!Next
  <2>4. QED
    BY <1>5, <2>2, <2>3, ServiceFetch
<1>6. CASE UNCHANGED <<req, moved>>
  BY <1>6, <1>w
<1>7. QED
  BY <1>1, <1>2, <1>3, <1>4, <1>5, <1>6 DEF Next, CallbackStep, vars, txnVars, Program, Start,
     PollError, PollTimesOut, PollDone, ProcessTransfer, DmaCompleted, HwError, HwHang

\* Until a request fails, the engine in poll mode accepts one request at a time,
\* moves its parts once and in order while the driver owns it, and answers
\* success only when all were moved.
THEOREM PollImplementsService == Spec => ServiceUntilFailure
<1>1. Spec => [](Typed /\ CleanUntilFailure /\ ProgressUntilFailure)
  BY TypedInit, TypedStep, CleanInit, CleanStep, ProgressInit, ProgressStep, PTL DEF Spec
<1>2. QED
  BY <1>1, ServiceInit, ServiceStep, PTL DEF Spec, ServiceUntilFailure
=============================================================================

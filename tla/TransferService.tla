-------------------------- MODULE TransferService --------------------------
(***************************************************************************)
(* What a DMA engine promises to the clients of its queue: one request at  *)
(* a time is accepted and answered once; while it is accepted, and only    *)
(* then, its parts are moved, each once and in order; and success is       *)
(* answered only when all of them were.                                    *)
(***************************************************************************)
EXTENDS Integers

CONSTANTS Requests, Splits
VARIABLES req, moved

vars == <<req, moved>>

Init ==
  /\ req = [r \in Requests |-> "queued"]
  /\ moved = {}

Accept(r) ==
  /\ req[r] = "queued"
  /\ \A s \in Requests : req[s] # "driver"
  /\ req' = [req EXCEPT ![r] = "driver"]
  /\ UNCHANGED moved

Move(r, i) ==
  /\ req[r] = "driver"
  /\ {j \in 0..(Splits[r] - 1) : <<r, j>> \in moved} = 0..(i - 1)
  /\ moved' = moved \cup {<<r, i>>}
  /\ UNCHANGED req

Succeed(r) ==
  /\ req[r] = "driver"
  /\ \A i \in 0..(Splits[r] - 1) : <<r, i>> \in moved
  /\ req' = [req EXCEPT ![r] = "SUCCESS"]
  /\ UNCHANGED moved

Fail(r, outcome) ==
  /\ req[r] = "driver"
  /\ req' = [req EXCEPT ![r] = outcome]
  /\ UNCHANGED moved

Refuse(r) ==
  /\ req[r] = "queued"
  /\ req' = [req EXCEPT ![r] = "FAILED"]
  /\ UNCHANGED moved

Next ==
  \E r \in Requests :
    \/ Accept(r) \/ Succeed(r) \/ Refuse(r)
    \/ \E i \in 0..(Splits[r] - 1) : Move(r, i)
    \/ \E outcome \in {"INTERNAL_ERROR", "TIMEOUT", "UNSUCCESSFUL"} : Fail(r, outcome)

Spec == Init /\ [][Next]_vars

\* Every accepted request is answered.
Answered == \A r \in Requests : (req[r] = "driver") ~> (req[r] # "driver")
=============================================================================

---------------------------- MODULE MCInterrupts ----------------------------
(* A finite instance of Interrupts: one engine of each kind and one user event. *)
EXTENDS Interrupts

CONSTANTS mm, st, ev, th

MCOrder   == <<mm, st, ev>>
MCEventOf == [r \in Readers |-> ev]
=============================================================================

---------------------------- MODULE MCPollEngine ----------------------------
(* A finite instance of PollEngine: a request of one descriptor, one of two parts,  *)
(* the second of one descriptor again, and one that fills the buffer.              *)
EXTENDS PollEngine

CONSTANTS r1, r2, r3

MCLists == [r \in Requests |-> CASE r = r1 -> <<1>>
                                 [] r = r2 -> <<10, 1>>
                                 [] r = r3 -> <<11>>]
=============================================================================

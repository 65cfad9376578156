---------------------------- MODULE Descriptors ----------------------------
(***************************************************************************)
(* The chain of descriptors XDMA_EngineProgramDma writes for one part of a *)
(* transfer, and how OptimizeDescriptors groups it into block fetches: a   *)
(* descriptor tells the engine how many descriptors, beyond the next one,  *)
(* it may fetch with it in a single PCIe read.                             *)
(*                                                                         *)
(* Addresses are counted in descriptors (32 bytes); the buffer begins at   *)
(* address first, on a page or not.                                        *)
(***************************************************************************)
EXTENDS Integers, FiniteSetsExt

CONSTANTS
  AdjMax,     \* adjacent descriptors in a read of PCIe Max Read Request Size
  PageDescs   \* descriptors in a 4K page

ASSUME DescriptorsAssumption ==
  /\ AdjMax \in Nat \ {0}       \* 3 at least: the request size is 128 bytes or more
  /\ PageDescs \in Nat \ {0}

-----------------------------------------------------------------------------

\* How many descriptors follow the one at an address in its page.
To4k(address) == PageDescs - (address % PageDescs) - 1

\* firstDescAdj: the first read is limited by the list, the request size and
\* the page.
FirstAdj(n, first) == Min({n - 1, AdjMax, To4k(first)})

\* adjTotal - (i + 1), or 0 at the last of n descriptors, which has no next.
NextAdjTotal(n, i) == IF i # n - 1 THEN n - 1 - (i + 1) ELSE 0

\* The running maximum of the loop when it is at descriptor i.
NextAdjMax[i \in Nat] ==
  IF i = 0 THEN AdjMax - 1
  ELSE IF NextAdjMax[i - 1] # 0 THEN NextAdjMax[i - 1] - 1 ELSE AdjMax

\* The bus address after descriptor i's own; the last one's is zero.
NextAddress(n, first, i) == IF i + 1 < n THEN first + i + 1 ELSE 0

\* A slip: the page limit is taken at the descriptor's own address.
NextAdjOwnPage(n, first, i) ==
  Min({NextAdjTotal(n, i), NextAdjMax[i], To4k(first + i)})

NextAdj(n, first, i) ==
  Min({NextAdjTotal(n, i), NextAdjMax[i], To4k(NextAddress(n, first, i))})

\* Descriptor i of a chain of n that moves part p: the data it moves, its
\* nextAdj field and whether it carries the stop and completed bits.
Descriptor(p, n, first, i) ==
  [data |-> <<p, i>>, nextAdj |-> NextAdj(n, first, i), stop |-> i = n - 1]

-----------------------------------------------------------------------------
(* What the comment of OptimizeDescriptors asks of a read of descriptors       *)
(* from..to of a chain of n.                                                    *)

WithinLimits(n, first, from, to) ==
  /\ to - from <= AdjMax
  /\ (first + from) \div PageDescs = (first + to) \div PageDescs
  /\ to <= n - 1

\* It ends where the list or the page does, or with a full request counted from
\* the start of the list: no shorter read is ever made.
AsLongAsAllowed(n, first, from, to) ==
  \/ to = n - 1
  \/ (first + to + 1) % PageDescs = 0
  \/ (to + 1) % (AdjMax + 1) = 0
=============================================================================

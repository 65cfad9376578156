----------------------------- MODULE MCFileNodes ----------------------------
(* Finite instances of FileNodes and DeviceSetup: one core for each way to     *)
(* deliver interrupts and to arrange BARs; the one with a single message has   *)
(* fewer channels and is rejected when asked for all.  The core with MSI-X is  *)
(* asked for one channel, the one with MSI for all.                            *)
EXTENDS FileNodes, TLC

Core == [bars |-> 3, config |-> 1, h2c |-> 2, c2h |-> 2, table |-> 8, msi |-> 0]
Msi  == [Core EXCEPT !.bars = 2, !.config = 0, !.table = 0, !.msi = 8]

MCDevices == {Core,
              Msi,
              [Core EXCEPT !.bars = 2, !.c2h = 1, !.table = 0, !.msi = 1],
              [Core EXCEPT !.bars = 1]}

All == [user |-> 0, h2c |-> 0, c2h |-> 0]
One == [user |-> 1, h2c |-> 1, c2h |-> 1]

MCLimits == {All, One}

\* The pairs of a core and a limit that the run explores.
Pairs == /\ device = Core => limit = One
         /\ device = Msi => limit = All

MCNodes == {[type |-> t, channel |-> 0] : t \in Types \ {"h2c"}}
             \cup {[type |-> "h2c", channel |-> 1]}

Symmetry == Permutations(Requests)
=============================================================================

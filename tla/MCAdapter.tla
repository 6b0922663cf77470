----------------------------- MODULE MCAdapter -----------------------------
(* Instances of Adapter for TLC.                                           *)
EXTENDS Adapter

Full == [gs |-> TRUE, sudo |-> TRUE, hub |-> TRUE, skip |-> FALSE, tc |-> TRUE]

\* Everything installed; no hub port; no grants; the rebind skipped; no tc; and a
\* CANivore.
AllRigs ==
  {Full, [Full EXCEPT !.hub = FALSE], [Full EXCEPT !.sudo = FALSE, !.hub = FALSE],
   [Full EXCEPT !.skip = TRUE], [Full EXCEPT !.tc = FALSE], [Full EXCEPT !.gs = FALSE]}
=============================================================================

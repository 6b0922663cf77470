------------------------------ MODULE MCHealth ------------------------------
(* Health on a chain of three.                                             *)
EXTENDS Health

Rig(g, ram, m) == [gen |-> g, ramOnly |-> ram, mute |-> m]

\* A pre-25 rig; 25+ with the periods of some and of all never burned; and 25+ with
\* brownouts and faults whose remedies do not say `clear`.
AllRigs ==
  {Rig("pre25", {}, {}), Rig("fw25", {2, 3}, {}), Rig("fw25", {1, 2, 3}, {}),
   Rig("fw25", {2}, Bits)}
=============================================================================

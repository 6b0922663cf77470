--------------------------- MODULE MCSteerStress ---------------------------
(* The stress run on two corners.                                          *)
EXTENDS SteerStress
=============================================================================

--------------------------- MODULE MCMotionTools ---------------------------
(* Instances of MotionTools for TLC.                                       *)
EXTENDS MotionTools

AllTools == DOMAIN Scripts
=============================================================================

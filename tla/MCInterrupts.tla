---------------------------- MODULE MCInterrupts ----------------------------
(* The interrupt system with each outside line raised a bounded number of  *)
(* times.  The module adds nothing: the cfg gives the constants.           *)
EXTENDS Interrupts
=============================================================================

------------------------------ MODULE MCFloppy ------------------------------
(* The driver with short tracks, so that a pong reads both sides and comes *)
(* to the second cylinder.                                                 *)
EXTENDS Floppy
=============================================================================

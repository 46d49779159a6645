------------------------------ MODULE MCLoader ------------------------------
(* The loader with user memory cut down to eight frames, so that the third *)
(* pong finds none left.                                                   *)
EXTENDS Loader
=============================================================================

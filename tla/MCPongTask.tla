----------------------------- MODULE MCPongTask -----------------------------
(* Three pongs, user memory for two of them, two blocks for their PCBs.    *)
EXTENDS PongTask
=============================================================================

----------------------------- MODULE MCPongHeap -----------------------------
(* The memory map of README.md, one with no region for DMA, and one that   *)
(* fills the array of 16.                                                  *)
EXTENDS PongHeap

Reserved == 2
MCMemoryMaps ==
  { <<FREE_REGION, Reserved, Reserved, FREE_REGION, Reserved, Reserved>>,
    <<FREE_REGION, Reserved>>,
    [i \in 1..16 |-> IF i \in {1, 16} THEN FREE_REGION ELSE Reserved] }
=============================================================================

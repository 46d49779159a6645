----------------------------- MODULE MCSlotHeap -----------------------------
EXTENDS SlotHeap
=============================================================================

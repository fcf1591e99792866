------------------------- MODULE MC_LegacyDoorbell -------------------------
(* Model-checking instance of LegacyDoorbell: three producers on a ring of *)
(* two packets, three packets in all, so producers reserve past a full     *)
(* queue and both the clamp and the duplicate-doorbell discard happen.     *)
EXTENDS LegacyDoorbell
=============================================================================

------------------------- MODULE MCMachineLifecycle -------------------------
(* MachineLifecycle for TLC: one suspend RPC and one closing
   caller beside the reaper and the servicer. *)
EXTENDS MachineLifecycle
=============================================================================

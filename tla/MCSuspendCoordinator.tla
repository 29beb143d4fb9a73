------------------------ MODULE MCSuspendCoordinator ------------------------
(* The suspend coordinator alone, with three concurrent requesters. *)
EXTENDS SuspendCoordinator
=============================================================================

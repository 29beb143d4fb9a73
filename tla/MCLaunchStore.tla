---------------------------- MODULE MCLaunchStore ----------------------------
(* LaunchStore for TLC: two launches of one VM, at most MaxSaves saves.  Nothing
   tells the launches apart. *)
EXTENDS LaunchStore, TLC

LaunchSymmetry == Permutations(Launches)
=============================================================================

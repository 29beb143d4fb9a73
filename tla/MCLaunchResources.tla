--------------------------- MODULE MCLaunchResources ---------------------------
(* Two launches of one state directory, and at most one crash.               *)
EXTENDS LaunchResources, TLC

\* Nothing tells one launch from another but its own state.
LaunchSymmetry == Permutations(Launches)
=============================================================================

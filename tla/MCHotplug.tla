------------------------------- MODULE MCHotplug -------------------------------
(* Hotplug for TLC: a declared share and a declared disk; a share without a   *)
(* mount target is attached ad hoc and has to take whichever port is free.    *)
EXTENDS Hotplug
CONSTANTS share, disk, bare
MCDeclared == <<share, disk>>
=============================================================================

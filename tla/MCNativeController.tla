------------------------- MODULE MCNativeController -------------------------
(***************************************************************************)
(* Instances of NativeController for TLC: the workloads, in the order the  *)
(* API server lists them.                                                  *)
(***************************************************************************)
EXTENDS NativeController

ServerThenFinite == <<"server", "finite">>
OneFinite == <<"finite">>
=============================================================================

-------------------------------- MODULE MCVm --------------------------------
(* An instance of Vm for TLC. *)
EXTENDS Vm

SmallDeltas == {-3, -2, 1, 3}
=============================================================================

--------------------------------- MODULE Nil ---------------------------------
(* What stands for no value: an absent row, an empty address, a nil pointer. *)
(* Modules that an MC module combines by EXTENDS share it.                   *)
CONSTANT NULL
=============================================================================

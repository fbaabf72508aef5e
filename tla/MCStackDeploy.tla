--------------------------- MODULE MCStackDeploy ---------------------------
(* Instances of StackDeploy for TLC: requests that overlap, or requests one  *)
(* after the other, one of the two per behaviour.  Those that overlap need   *)
(* not tell two contents of a config apart and share fewer seconds.          *)
EXTENDS StackDeploy, TLC

CONSTANTS o1, o2, o3, o4, plain, strict, broken, c1

Overlapping == INSTANCE StackDeploy WITH
  MaxClock <- 2, Contents <- {c1}, UsesConfig <- {strict}

EitherInit ==
  \/ Overlapping!Init /\ ~serial
  \/ Init /\ serial
EitherNext ==
  \/ ~serial /\ Overlapping!Next
  \/ serial /\ Next
EitherSpec == EitherInit /\ [][EitherNext]_vars

OpSymmetry == Permutations(Ops)
=============================================================================

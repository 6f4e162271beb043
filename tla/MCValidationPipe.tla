-------------------------- MODULE MCValidationPipe --------------------------
(***************************************************************************)
(* Constants of the model-checking runs of ValidationPipe.                 *)
(***************************************************************************)
EXTENDS ValidationPipe

CONSTANTS m1, m2, v1, v2

OneMiner      == {m1}
TwoMiners     == {m1, m2}
OneValidator  == {v1}
TwoValidators == {v1, v2}
=============================================================================

---------------------------- MODULE MCRefinement ----------------------------
(***************************************************************************)
(* The run that checks the refinement uses the constants of MCDEIChain.    *)
(***************************************************************************)
EXTENDS Refinement, MCDEIChain
=============================================================================

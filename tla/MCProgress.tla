----------------------------- MODULE MCProgress -----------------------------
(***************************************************************************)
(* The runs about progress use the constants of MCDEIChain.                *)
(***************************************************************************)
EXTENDS Progress, MCDEIChain
=============================================================================

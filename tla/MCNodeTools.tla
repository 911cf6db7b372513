---------------------------- MODULE MCNodeTools -----------------------------
(* Calls of any tool.  Bodies of no byte, at a cap of two, and past it.     *)
EXTENDS NodeTools

MCBodies == {<<>>, <<1, 2>>, <<1, 2, 3>>}
=============================================================================

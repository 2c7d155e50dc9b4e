--------------------------- MODULE MCJsonRpcClient ---------------------------
(***************************************************************************)
(* An instance of JsonRpcClient for TLC: the model values of its sets.     *)
(***************************************************************************)
EXTENDS JsonRpcClient

CONSTANTS here, c1, s1
==============================================================================

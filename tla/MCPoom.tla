------------------------------ MODULE MCPoom ------------------------------
(***************************************************************************)
(* Addresses in a document have two digits.                                *)
(***************************************************************************)
EXTENDS Poom

MCNPLACES == 2
=============================================================================

------------------------------ MODULE MCPnfP5 -------------------------------
(* Lists of PHYs for TLC. *)
EXTENDS PnfP5

NoneOrOne == {<<>>, <<1>>, <<2>>}
=============================================================================

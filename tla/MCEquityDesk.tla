---------------------------- MODULE MCEquityDesk ----------------------------
(* Instances of EquityDesk for TLC. *)
EXTENDS EquityDesk

MCPrices == {1, 3}
=============================================================================

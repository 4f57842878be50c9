---------------------------- MODULE MCCryptoDesk ----------------------------
(* The values the instances of CryptoDesk give to its constants. *)
EXTENDS CryptoDesk

MCPrices == {1, 2}
MCPrices1 == {1}
MCTargets == {0, 4}
MCTargets1 == {0, 3}
=============================================================================

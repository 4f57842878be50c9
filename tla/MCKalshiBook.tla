---------------------------- MODULE MCKalshiBook ----------------------------
(***************************************************************************)
(* Small instances of KalshiBook for TLC: two markets, on two metals or    *)
(* two windows of the same one.                                            *)
(***************************************************************************)
EXTENDS KalshiBook

CONSTANTS t1, t2, gold, silver

MCTwoMetals == [t \in Tickers |-> IF t = t1 THEN gold ELSE silver]
MCOneMetal  == [t \in Tickers |-> gold]
=============================================================================

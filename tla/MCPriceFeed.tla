---------------------------- MODULE MCPriceFeed ----------------------------
(***************************************************************************)
(* Small instances of PriceFeed for TLC.                                   *)
(***************************************************************************)
EXTENDS PriceFeed, TLC
=============================================================================

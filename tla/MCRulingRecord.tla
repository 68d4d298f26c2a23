---------------------------- MODULE MCRulingRecord ----------------------------
(***************************************************************************)
(* The instance of MCArbitration with the history of rulings.              *)
(***************************************************************************)
EXTENDS MCArbitration, RulingRecord
===============================================================================

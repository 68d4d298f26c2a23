------------------------------ MODULE MCAiOracle ------------------------------
(***************************************************************************)
(* One dispute whose two parties both have the page open.                  *)
(***************************************************************************)
EXTENDS AiOracle

MCAnswers == Rulings \cup {"Inconclusive"}
===============================================================================

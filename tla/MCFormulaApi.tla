--------------------------- MODULE MCFormulaApi ---------------------------
(* A small instance of FormulaApi for TLC. *)
EXTENDS FormulaApi

MCPoints == SUBSET (1..NInputs)

MCWeights == {-2, 0, 1, 2}

MCVarWeights == {-2, 0, 1}
=============================================================================

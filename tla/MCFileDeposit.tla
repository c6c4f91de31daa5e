--------------------------- MODULE MCFileDeposit ---------------------------
(* Constants of the model-checked instance of FileDeposit: an opinion on   *)
(* the accuracy of the first declaration, or of both.                      *)
EXTENDS FileDeposit, TLC

CONSTANTS d1, d2, d3, r1, r2

MCRequirements == { {"accuracy 1"}, {"accuracy 1", "accuracy 2"} }

(* The documents that are not infected play the same part, and so do the   *)
(* requests.                                                               *)
MCSymmetry == Permutations({d1, d2, d3}) \union Permutations({r1, r2})
=============================================================================

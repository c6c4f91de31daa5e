-------------------------- MODULE MCRepresentation --------------------------
(* Constants of the model-checked instance of Representation, behind the   *)
(* links of CompanyLink.                                                   *)
EXTENDS CompanyLink, TLC

CONSTANTS v1, v2, r1, r2, i1, i2

(* The values typed, the requests and the sign-ins play the same part.     *)
MCSymmetry ==
  Permutations({v1, v2}) \union Permutations({r1, r2}) \union Permutations({i1, i2})
=============================================================================

---------------------------- MODULE MCDemarche ----------------------------
(* Constants of the model-checked instances of Demarche.                   *)
EXTENDS DemarcheReaders

(* Indicator G is mandatory on one side of the threshold only, so that     *)
(* both answers of isIndicatorGRequiredForGip occur.                       *)
MCIndicatorGRequired == [b \in BOOLEAN |-> b]
=============================================================================

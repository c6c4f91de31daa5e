---------------------------- MODULE MCEditLock ----------------------------
(* Constants of the model-checked instances of EditLock: a tab for each of *)
(* two co-declarants, or two tabs for the first.                           *)
EXTENDS EditLock

MCUserOf == [t \in Tabs |-> IF t = 2 THEN "bob" ELSE "alice"]
===========================================================================

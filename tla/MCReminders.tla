---------------------------- MODULE MCReminders ----------------------------
(* Constants of the model-checked instances of Reminders. *)
EXTENDS Reminders, TLC

CONSTANTS w1, w2

(* The runs of the schedules play the same part. *)
MCSymmetry == Permutations({w1, w2})
=============================================================================

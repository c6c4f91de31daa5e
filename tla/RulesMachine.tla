--------------------------- MODULE RulesMachine ---------------------------
(***************************************************************************)
(* What the rule engine promises of a démarche, whatever the company and   *)
(* the data: the state and the two path choices of a row only ever change  *)
(* by one transition of the rule set, taken from the state they are in.    *)
(* Everything else a guard may read is left open.  Demarche implements     *)
(* this specification for every declaration row.                           *)
(***************************************************************************)
EXTENDS RulesEngine

VARIABLES status, first, second

progress == << status, first, second >>

Start == status = "draft" /\ first = None /\ second = None

Follow(moves) ==
  \E move \in moves :
    /\ status' = move.to
    /\ first'  = ProjectedChoice(move.events, 1, first)
    /\ second' = ProjectedChoice(move.events, 2, second)

AnyFacts(cseRequired, opinion1, opinion2) ==
  [ currentState |-> status, cseRequired |-> cseRequired,
    first |-> first, second |-> second,
    opinion1 |-> opinion1, opinion2 |-> opinion2 ]

Transition ==
  \/ \E above, hasCse, indicatorG, gap \in BOOLEAN :
       Follow(SubmitMoves(status, above, hasCse, indicatorG, gap))
  \/ \E c \in BOOLEAN : Follow(SyncMoves(status, c))
  \/ \E c \in BOOLEAN : LET f == AnyFacts(c, None, None) IN
       \/ \E path \in Path : Follow(ChoosePathMoves(f, path))
       \/ \E stillHasGap \in BOOLEAN :
            Follow(SecondDeclarationMoves(f, stillHasGap))
       \/ Follow(JointEvaluationMoves(f))
       \/ Follow(CseOpinionMoves(f))
  \/ \E c \in BOOLEAN, o1, o2 \in Opinion \union {None} :
       Follow(FormalNoticeMoves(AnyFacts(c, o1, o2)))

Transitions == Start /\ [][Transition]_progress
=============================================================================

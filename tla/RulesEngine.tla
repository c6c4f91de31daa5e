---------------------------- MODULE RulesEngine ----------------------------
(***************************************************************************)
(* The versioned rule set of the démarche (server/rules/v2027.1.json) and  *)
(* the engine that evaluates it (server/rules/engine.ts), as operators on  *)
(* a record of facts.  Nothing here has state: the routers read a          *)
(* declaration row, build facts from it, ask the engine which transition   *)
(* applies and write the answer back (modules Demarche and CseSyncRace).   *)
(*                                                                         *)
(* A definition whose comment starts with "Mutant:" is a plausible mistake *)
(* in the definition that follows it; nothing else uses it.                *)
(*                                                                         *)
(* Facts are abstracted to what the guards tell apart: the workforce is    *)
(* only compared with phase2SizeMin (100 employees), the gap only with     *)
(* gapAlertPercent (5 %).                                                  *)
(***************************************************************************)
EXTENDS Naturals

None == "none"

Status ==
  { "draft",
    "awaiting_compliance_path_choice",
    "corrective_actions_chosen",
    "joint_evaluation_chosen",
    "awaiting_revision_choice",
    "revised_joint_evaluation_chosen",
    "awaiting_cse_opinion",
    "demarche_completed" }

Path    == { "justify", "corrective_action", "joint_evaluation" }
Opinion == { "favorable", "unfavorable" }

EventType ==
  { "submit", "path_choice", "second_declaration_submit",
    "joint_evaluation_submit", "cse_opinion_submit", "demarche_complete",
    "formal_notice_joint_evaluation_submit", "cancel" }

(* A rule event: its type, and the value and round some types carry. *)
Event == [type : EventType, value : Path \union {None}, round : 0..2]

Ev(type)               == [type |-> type, value |-> None, round |-> 0]
RoundEv(type, r)       == [type |-> type, value |-> None, round |-> r]
PathChoice(path, r)    == [type |-> "path_choice", value |-> path, round |-> r]
Complete               == Ev("demarche_complete")

(* `first` and `second` are the two path-choice columns of the row,        *)
(* `opinion1` and `opinion2` the CSE's stored opinions on the gaps.        *)
Facts ==
  [ currentState : Status, cseRequired : BOOLEAN,
    first : Path \union {None}, second : Path \union {None},
    opinion1 : Opinion \union {None}, opinion2 : Opinion \union {None} ]

(***************************************************************************)
(* Computations.                                                           *)
(***************************************************************************)
Phase2Required(above, indicatorG, gap) == above /\ indicatorG /\ gap

CseRequired(above, hasCse) == above /\ hasCse

FormalNoticeExposure(f) ==
  \/ /\ f.first = "justify"
     /\ f.second = None
     /\ ~f.cseRequired \/ f.opinion1 = "unfavorable"
  \/ /\ f.second = "justify"
     /\ ~f.cseRequired \/ f.opinion2 = "unfavorable"

(***************************************************************************)
(* Choice revisions: the state from which choose_compliance_path is        *)
(* replayed.  The engine takes the first revision of the list that         *)
(* matches, hence the negated guard of the last one.                       *)
(***************************************************************************)
(* Mutant: a choice stays revisable while the CSE opinion is awaited, the  *)
(* path it took not being looked at.                                       *)
RevisesInitialChoiceAnyPath(f) ==
  f.currentState \in
    {"corrective_actions_chosen", "joint_evaluation_chosen", "awaiting_cse_opinion"}

(* Mutant: a justification stays revisable once the démarche is closed.    *)
RevisesInitialChoiceWhenClosed(f) ==
  \/ f.currentState \in {"corrective_actions_chosen", "joint_evaluation_chosen"}
  \/ /\ f.currentState \in {"awaiting_cse_opinion", "demarche_completed"}
     /\ f.first = "justify"

RevisesInitialChoice(f) ==
  \/ f.currentState \in {"corrective_actions_chosen", "joint_evaluation_chosen"}
  \/ f.currentState = "awaiting_cse_opinion" /\ f.first = "justify"

RevisesRevisedChoice(f) ==
  \/ f.currentState = "revised_joint_evaluation_chosen"
  \/ /\ f.currentState = "awaiting_cse_opinion"
     /\ f.first # "justify"
     /\ f.second = "justify"

ReplayState(f) ==
  CASE RevisesInitialChoice(f) -> "awaiting_compliance_path_choice"
    [] RevisesRevisedChoice(f) -> "awaiting_revision_choice"
    [] OTHER                   -> f.currentState

(***************************************************************************)
(* The transitions, one set per action.  An element is the `to` state and  *)
(* the `events` of a transition whose `from`, payload and guard match; the *)
(* empty set is the engine's NoMatchingTransitionError.  The guards of one *)
(* action exclude each other, so each set has at most one element.         *)
(***************************************************************************)
Move(matches, to, events) ==
  IF matches THEN { [to |-> to, events |-> events] } ELSE {}

(* A transition that leaves the démarche waiting for the CSE opinion, or   *)
(* that closes it when none is due.                                        *)
ToOpinionOrEnd(matches, cseRequired, event) ==
  Move(matches /\ cseRequired, "awaiting_cse_opinion", {event})
    \union
  Move(matches /\ ~cseRequired, "demarche_completed", {event, Complete})

SubmitMoves(state, above, hasCse, indicatorG, gap) ==
  LET phase2 == Phase2Required(above, indicatorG, gap) IN
  Move(state = "draft" /\ phase2,
       "awaiting_compliance_path_choice", {Ev("submit")})
    \union
  ToOpinionOrEnd(state = "draft" /\ ~phase2,
                 CseRequired(above, hasCse), Ev("submit"))

ChoosePathMoves(f, path) ==
  LET state == ReplayState(f) IN
  ToOpinionOrEnd(state = "awaiting_compliance_path_choice" /\ path = "justify",
                 f.cseRequired, PathChoice("justify", 1))
    \union
  Move(state = "awaiting_compliance_path_choice" /\ path = "corrective_action",
       "corrective_actions_chosen", {PathChoice("corrective_action", 1)})
    \union
  Move(state = "awaiting_compliance_path_choice" /\ path = "joint_evaluation",
       "joint_evaluation_chosen", {PathChoice("joint_evaluation", 1)})
    \union
  ToOpinionOrEnd(state = "awaiting_revision_choice" /\ path = "justify",
                 f.cseRequired, PathChoice("justify", 2))
    \union
  Move(state = "awaiting_revision_choice" /\ path = "joint_evaluation",
       "revised_joint_evaluation_chosen", {PathChoice("joint_evaluation", 2)})

(* Mutant: a corrected declaration may be sent again from anywhere after it. *)
SecondDeclarationMovesAnytime(f, stillHasGap) ==
  LET open  == f.currentState \in
                 { "corrective_actions_chosen", "awaiting_revision_choice",
                   "awaiting_cse_opinion", "demarche_completed" }
      event == RoundEv("second_declaration_submit", 2)
  IN  Move(open /\ stillHasGap, "awaiting_revision_choice", {event})
        \union
      ToOpinionOrEnd(open /\ ~stillHasGap, f.cseRequired, event)

SecondDeclarationMoves(f, stillHasGap) ==
  LET open  == f.currentState \in
                 {"corrective_actions_chosen", "awaiting_revision_choice"}
      event == RoundEv("second_declaration_submit", 2)
  IN  Move(open /\ stillHasGap, "awaiting_revision_choice", {event})
        \union
      ToOpinionOrEnd(open /\ ~stillHasGap, f.cseRequired, event)

(* Mutant: the revised evaluation is recorded under round 1. *)
JointEvaluationMovesRoundOne(f) ==
  ToOpinionOrEnd(f.currentState \in
                   {"joint_evaluation_chosen", "revised_joint_evaluation_chosen"},
                 f.cseRequired, RoundEv("joint_evaluation_submit", 1))

JointEvaluationMoves(f) ==
  ToOpinionOrEnd(f.currentState = "joint_evaluation_chosen",
                 f.cseRequired, RoundEv("joint_evaluation_submit", 1))
    \union
  ToOpinionOrEnd(f.currentState = "revised_joint_evaluation_chosen",
                 f.cseRequired, RoundEv("joint_evaluation_submit", 2))

CseOpinionMoves(f) ==
  Move(f.currentState \in {"awaiting_cse_opinion", "demarche_completed"},
       "demarche_completed", {Ev("cse_opinion_submit"), Complete})

FormalNoticeMoves(f) ==
  Move(f.currentState = "demarche_completed" /\ FormalNoticeExposure(f),
       "demarche_completed", {Ev("formal_notice_joint_evaluation_submit")})

SyncMoves(state, cseRequired) ==
  Move(state = "awaiting_cse_opinion" /\ ~cseRequired,
       "demarche_completed", {Complete})

(***************************************************************************)
(* computeProjectionUpdates: the path-choice columns after some events.    *)
(***************************************************************************)
(* Mutant: the round of the event is not looked at. *)
ProjectedChoiceAnyRound(events, r, old) ==
  IF \E e \in events : e.type = "path_choice"
  THEN (CHOOSE e \in events : e.type = "path_choice").value
  ELSE old

ProjectedChoice(events, r, old) ==
  IF \E e \in events : e.type = "path_choice" /\ e.round = r
  THEN (CHOOSE e \in events : e.type = "path_choice" /\ e.round = r).value
  ELSE old

(***************************************************************************)
(* What the routers derive from the journal (declarationTrajectory.ts,     *)
(* declarationStatus.ts, statusHistoryHelpers.ts).                         *)
(***************************************************************************)
Recorded(journal, type) == \E e \in journal : e.type = type

(* Mutant: the second round starts with the first choice. *)
CurrentRoundFromChoice(journal) ==
  IF Recorded(journal, "path_choice") THEN 2 ELSE 1

CurrentRound(journal) ==
  IF Recorded(journal, "second_declaration_submit") THEN 2 ELSE 1

FirstDeclarationSuperseded(journal) ==
  \/ Recorded(journal, "second_declaration_submit")
  \/ Recorded(journal, "joint_evaluation_submit")
  \/ Recorded(journal, "cse_opinion_submit")

PathChoiceLocked(journal, r) ==
  \/ Recorded(journal, "cse_opinion_submit")
  \/ \E e \in journal : /\ e.type = "joint_evaluation_submit"
                        /\ r = 1 => e.round = 1

(***************************************************************************)
(* compliancePathsForGapJustification: how much of the gap is justified    *)
(* decides which paths may be chosen.                                      *)
(***************************************************************************)
GapJustification == { "all", "partial", "none" }

PathsFor(justification, r) ==
  IF justification = "all"
  THEN {"justify"}
  ELSE IF r = 1 THEN {"corrective_action", "joint_evaluation"}
                ELSE {"joint_evaluation"}

(***************************************************************************)
(* resolveCseReconciliation: what a row whose snapshot no longer matches   *)
(* the company owes.                                                       *)
(***************************************************************************)
(* Mutant: a stale snapshot is only ever refreshed. *)
ReconciliationRefresh(status, stored, required) ==
  IF stored = required THEN "none" ELSE "refresh-snapshot"

Reconciliation(status, stored, required) ==
  IF stored = required
  THEN "none"
  ELSE IF required \/ status # "awaiting_cse_opinion"
       THEN "refresh-snapshot"
       ELSE "release"
=============================================================================

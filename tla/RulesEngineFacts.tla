-------------------------- MODULE RulesEngineFacts --------------------------
(***************************************************************************)
(* What the moves of each engine action look like, for any facts.          *)
(***************************************************************************)
EXTENDS RulesEngine, TLAPS

(***************************************************************************)
(* The moves of the engine.                                                *)
(***************************************************************************)
(* The events a move records: one, closed or not by demarche_complete.     *)
OneEvent(events, e) == events = {e} \/ events = {e, Complete}

LEMMA SubmitMovesAre ==
  ASSUME NEW state, NEW b \in BOOLEAN, NEW c \in BOOLEAN,
         NEW g \in BOOLEAN, NEW gap \in BOOLEAN,
         NEW move \in SubmitMoves(state, b, c, g, gap)
  PROVE  /\ state = "draft"
         /\ move.to \in {"awaiting_compliance_path_choice",
                         "awaiting_cse_opinion", "demarche_completed"}
         /\ move.to = "awaiting_cse_opinion" => CseRequired(b, c)
         /\ OneEvent(move.events, Ev("submit"))
BY DEF SubmitMoves, ToOpinionOrEnd, Move, OneEvent, Phase2Required, CseRequired

(* A path choice is taken from the state it is replayed from, and records  *)
(* the round of that state.                                                *)
LEMMA ChoosePathMovesAre ==
  ASSUME NEW f \in Facts, NEW path \in Path,
         NEW move \in ChoosePathMoves(f, path)
  PROVE  \/ /\ ReplayState(f) = "awaiting_compliance_path_choice"
            /\ OneEvent(move.events, PathChoice(path, 1))
            /\ \/ /\ path = "justify"
                  /\ move.to = IF f.cseRequired THEN "awaiting_cse_opinion"
                                                ELSE "demarche_completed"
               \/ /\ path = "corrective_action"
                  /\ move.to = "corrective_actions_chosen"
               \/ /\ path = "joint_evaluation"
                  /\ move.to = "joint_evaluation_chosen"
         \/ /\ ReplayState(f) = "awaiting_revision_choice"
            /\ OneEvent(move.events, PathChoice(path, 2))
            /\ \/ /\ path = "justify"
                  /\ move.to = IF f.cseRequired THEN "awaiting_cse_opinion"
                                                ELSE "demarche_completed"
               \/ /\ path = "joint_evaluation"
                  /\ move.to = "revised_joint_evaluation_chosen"
<1> DEFINE s == ReplayState(f)
<1>1. f.cseRequired \in BOOLEAN
  BY DEF Facts
<1>2. \/ move \in ToOpinionOrEnd(s = "awaiting_compliance_path_choice"
                                   /\ path = "justify",
                                 f.cseRequired, PathChoice("justify", 1))
      \/ move \in Move(s = "awaiting_compliance_path_choice"
                         /\ path = "corrective_action",
                       "corrective_actions_chosen",
                       {PathChoice("corrective_action", 1)})
      \/ move \in Move(s = "awaiting_compliance_path_choice"
                         /\ path = "joint_evaluation",
                       "joint_evaluation_chosen",
                       {PathChoice("joint_evaluation", 1)})
      \/ move \in ToOpinionOrEnd(s = "awaiting_revision_choice"
                                   /\ path = "justify",
                                 f.cseRequired, PathChoice("justify", 2))
      \/ move \in Move(s = "awaiting_revision_choice"
                         /\ path = "joint_evaluation",
                       "revised_joint_evaluation_chosen",
                       {PathChoice("joint_evaluation", 2)})
  BY DEF ChoosePathMoves
<1> HIDE DEF s
<1>3. QED
  BY <1>1, <1>2 DEF s, ToOpinionOrEnd, Move, OneEvent

LEMMA SecondDeclarationMovesAre ==
  ASSUME NEW f \in Facts, NEW gap \in BOOLEAN,
         NEW move \in SecondDeclarationMoves(f, gap)
  PROVE  /\ f.currentState \in
              {"corrective_actions_chosen", "awaiting_revision_choice"}
         /\ OneEvent(move.events, RoundEv("second_declaration_submit", 2))
         /\ move.to \in {"awaiting_revision_choice", "awaiting_cse_opinion",
                         "demarche_completed"}
         /\ move.to = "awaiting_cse_opinion" => f.cseRequired
BY DEF SecondDeclarationMoves, ToOpinionOrEnd, Move, OneEvent, Facts

LEMMA JointEvaluationMovesAre ==
  ASSUME NEW f \in Facts, NEW move \in JointEvaluationMoves(f)
  PROVE  /\ move.to \in {"awaiting_cse_opinion", "demarche_completed"}
         /\ move.to = "awaiting_cse_opinion" => f.cseRequired
         /\ \/ /\ f.currentState = "joint_evaluation_chosen"
               /\ OneEvent(move.events, RoundEv("joint_evaluation_submit", 1))
            \/ /\ f.currentState = "revised_joint_evaluation_chosen"
               /\ OneEvent(move.events, RoundEv("joint_evaluation_submit", 2))
BY DEF JointEvaluationMoves, ToOpinionOrEnd, Move, OneEvent, Facts

LEMMA CseOpinionMovesAre ==
  ASSUME NEW f \in Facts, NEW move \in CseOpinionMoves(f)
  PROVE  /\ f.currentState \in {"awaiting_cse_opinion", "demarche_completed"}
         /\ move.to = "demarche_completed"
         /\ OneEvent(move.events, Ev("cse_opinion_submit"))
BY DEF CseOpinionMoves, Move, OneEvent

LEMMA FormalNoticeMovesAre ==
  ASSUME NEW f \in Facts, NEW move \in FormalNoticeMoves(f)
  PROVE  /\ f.currentState = "demarche_completed"
         /\ move.to = "demarche_completed"
         /\ OneEvent(move.events, Ev("formal_notice_joint_evaluation_submit"))
BY DEF FormalNoticeMoves, Move, OneEvent

LEMMA SyncMovesAre ==
  ASSUME NEW state, NEW c \in BOOLEAN, NEW move \in SyncMoves(state, c)
  PROVE  /\ state = "awaiting_cse_opinion"
         /\ move.to = "demarche_completed"
         /\ OneEvent(move.events, Complete)
BY DEF SyncMoves, Move, OneEvent

(* The path-choice columns after a move that records one event.            *)
LEMMA ProjectedChoiceIs ==
  ASSUME NEW events, NEW e \in Event, OneEvent(events, e),
         NEW r \in 1..2, NEW old
  PROVE  ProjectedChoice(events, r, old) =
           IF e.type = "path_choice" /\ e.round = r THEN e.value ELSE old
<1>1. Complete.type # "path_choice"
  BY DEF Complete, Ev
<1>2. CASE e.type = "path_choice" /\ e.round = r
  <2>1. \A x \in events : x.type = "path_choice" => x = e
    BY <1>1 DEF OneEvent
  <2>2. e \in events
    BY DEF OneEvent
  <2>3. (CHOOSE x \in events : x.type = "path_choice" /\ x.round = r) = e
    BY <1>2, <2>1, <2>2
  <2>4. QED
    BY <1>2, <2>2, <2>3 DEF ProjectedChoice
<1>3. CASE ~(e.type = "path_choice" /\ e.round = r)
  BY <1>1, <1>3 DEF ProjectedChoice, OneEvent
<1>4. QED
  BY <1>2, <1>3

(* A move of any action, as far as types go.                               *)
Proper(move) ==
  /\ move.to \in Status
  /\ \E e \in Event : OneEvent(move.events, e)

LEMMA ProperEvents ==
  ASSUME NEW move, Proper(move)
  PROVE  /\ move.events \in SUBSET Event
         /\ \A r \in 1..2, old \in Path \union {None} :
              ProjectedChoice(move.events, r, old) \in Path \union {None}
<1>1. PICK e \in Event : OneEvent(move.events, e)
  BY DEF Proper
<1>2. Complete \in Event
  BY DEF Complete, Ev, Event, EventType
<1>3. e.value \in Path \union {None}
  BY DEF Event
<1>4. ASSUME NEW r \in 1..2, NEW old \in Path \union {None}
      PROVE  ProjectedChoice(move.events, r, old) \in Path \union {None}
  BY <1>1, <1>3, ProjectedChoiceIs
<1>5. QED
  BY <1>1, <1>2, <1>4 DEF OneEvent

LEMMA EventsAreEvents ==
  /\ Ev("submit") \in Event /\ Ev("cse_opinion_submit") \in Event
  /\ Ev("formal_notice_joint_evaluation_submit") \in Event
  /\ Ev("cancel") \in Event /\ Complete \in Event
  /\ RoundEv("second_declaration_submit", 2) \in Event
  /\ \A r \in 1..2 : RoundEv("joint_evaluation_submit", r) \in Event
  /\ \A path \in Path, r \in 1..2 : PathChoice(path, r) \in Event
BY DEF Ev, RoundEv, PathChoice, Complete, Event, EventType

LEMMA ProperMoves ==
  /\ \A state \in Status, b, c, g, gap \in BOOLEAN :
       \A move \in SubmitMoves(state, b, c, g, gap) : Proper(move)
  /\ \A f \in Facts, path \in Path :
       \A move \in ChoosePathMoves(f, path) : Proper(move)
  /\ \A f \in Facts, gap \in BOOLEAN :
       \A move \in SecondDeclarationMoves(f, gap) : Proper(move)
  /\ \A f \in Facts : \A move \in JointEvaluationMoves(f) : Proper(move)
  /\ \A f \in Facts : \A move \in CseOpinionMoves(f) : Proper(move)
  /\ \A f \in Facts : \A move \in FormalNoticeMoves(f) : Proper(move)
  /\ \A state \in Status, c \in BOOLEAN : \A move \in SyncMoves(state, c) : Proper(move)
<1>1. ASSUME NEW state, NEW b \in BOOLEAN, NEW c \in BOOLEAN,
             NEW g \in BOOLEAN, NEW gap \in BOOLEAN,
             NEW move \in SubmitMoves(state, b, c, g, gap)
      PROVE  Proper(move)
  BY EventsAreEvents, SubmitMovesAre DEF Proper, Status
<1>2. ASSUME NEW f \in Facts, NEW path \in Path,
             NEW move \in ChoosePathMoves(f, path)
      PROVE  Proper(move)
  <2>1. move.to \in Status
    BY ChoosePathMovesAre DEF Status
  <2>2. \E r \in 1..2 : OneEvent(move.events, PathChoice(path, r))
    BY ChoosePathMovesAre
  <2>3. QED
    BY <2>1, <2>2, EventsAreEvents DEF Proper
<1>3. ASSUME NEW f \in Facts, NEW gap \in BOOLEAN,
             NEW move \in SecondDeclarationMoves(f, gap)
      PROVE  Proper(move)
  BY EventsAreEvents, SecondDeclarationMovesAre DEF Proper, Status
<1>4. ASSUME NEW f \in Facts, NEW move \in JointEvaluationMoves(f)
      PROVE  Proper(move)
  <2>1. \E r \in 1..2 :
          OneEvent(move.events, RoundEv("joint_evaluation_submit", r))
    BY JointEvaluationMovesAre
  <2>2. QED
    BY <2>1, EventsAreEvents, JointEvaluationMovesAre DEF Proper, Status
<1>5. ASSUME NEW f \in Facts, NEW move \in CseOpinionMoves(f)
      PROVE  Proper(move)
  BY EventsAreEvents, CseOpinionMovesAre DEF Proper, Status
<1>6. ASSUME NEW f \in Facts, NEW move \in FormalNoticeMoves(f)
      PROVE  Proper(move)
  BY EventsAreEvents, FormalNoticeMovesAre DEF Proper, Status
<1>7. ASSUME NEW state, NEW c \in BOOLEAN, NEW move \in SyncMoves(state, c)
      PROVE  Proper(move)
  BY EventsAreEvents, SyncMovesAre DEF Proper, Status
<1>8. QED
  BY <1>1, <1>2, <1>3, <1>4, <1>5, <1>6, <1>7

(***************************************************************************)
(* Which moves the engine offers, and that it offers one at most.          *)
(***************************************************************************)
(* Every path that a justification allows in a round can be taken from the *)
(* states that choices of that round are replayed from.                    *)
LEMMA PathsAreOffered ==
  ASSUME NEW f \in Facts, NEW j \in GapJustification, NEW r \in 1..2,
         NEW path \in PathsFor(j, r),
         ReplayState(f) = IF r = 1 THEN "awaiting_compliance_path_choice"
                                   ELSE "awaiting_revision_choice"
  PROVE  ChoosePathMoves(f, path) # {}
<1>1. f.cseRequired \in BOOLEAN
  BY DEF Facts
<1>2. \/ path = "justify"
      \/ path = "joint_evaluation"
      \/ path = "corrective_action" /\ r = 1
  BY DEF PathsFor
<1> DEFINE move(to, events) == [to |-> to, events |-> events]
           event == PathChoice("justify", r)
<1> HIDE DEF event
<1>3. CASE path = "justify"
  <2>1. \/ move("awaiting_cse_opinion", {event}) \in ChoosePathMoves(f, path)
        \/ move("demarche_completed", {event, Complete})
             \in ChoosePathMoves(f, path)
    BY <1>1, <1>3 DEF ChoosePathMoves, ToOpinionOrEnd, Move, event
  <2>2. QED
    BY <2>1
<1>4. CASE path = "joint_evaluation"
  <2>1. \/ move("joint_evaluation_chosen", {PathChoice(path, 1)})
             \in ChoosePathMoves(f, path)
        \/ move("revised_joint_evaluation_chosen", {PathChoice(path, 2)})
             \in ChoosePathMoves(f, path)
    BY <1>4 DEF ChoosePathMoves, Move
  <2>2. QED
    BY <2>1
<1>5. CASE path = "corrective_action" /\ r = 1
  <2>1. move("corrective_actions_chosen", {PathChoice(path, 1)})
          \in ChoosePathMoves(f, path)
    BY <1>5 DEF ChoosePathMoves, Move
  <2>2. QED
    BY <2>1
<1>6. QED
  BY <1>2, <1>3, <1>4, <1>5

AtMostOne(moves) == \A m, n \in moves : m = n

(* For any facts and payload at most one transition of an action matches:  *)
(* that the engine takes the first of its list never decides anything, and *)
(* the sets of moves lose nothing of that order.                           *)
THEOREM OneTransition ==
  /\ \A state, a, h, g, gap : AtMostOne(SubmitMoves(state, a, h, g, gap))
  /\ \A f \in Facts :
       /\ \A path : AtMostOne(ChoosePathMoves(f, path))
       /\ \A gap : AtMostOne(SecondDeclarationMoves(f, gap))
       /\ AtMostOne(JointEvaluationMoves(f))
       /\ AtMostOne(CseOpinionMoves(f)) /\ AtMostOne(FormalNoticeMoves(f))
  /\ \A state, c : AtMostOne(SyncMoves(state, c))
<1>1. \A m, to, events : AtMostOne(Move(m, to, events))
  BY DEF AtMostOne, Move
<1>2. \A m, c, event : AtMostOne(ToOpinionOrEnd(m, c, event))
  BY DEF AtMostOne, ToOpinionOrEnd, Move
<1>3. \A state, a, h, g, gap : AtMostOne(SubmitMoves(state, a, h, g, gap))
  BY DEF AtMostOne, SubmitMoves, ToOpinionOrEnd, Move
<1>4. ASSUME NEW f \in Facts, NEW path
      PROVE  AtMostOne(ChoosePathMoves(f, path))
  <2> DEFINE s == ReplayState(f)
  <2> SUFFICES
        AtMostOne(
          ToOpinionOrEnd(s = "awaiting_compliance_path_choice"
                           /\ path = "justify",
                         f.cseRequired, PathChoice("justify", 1))
            \union
          Move(s = "awaiting_compliance_path_choice"
                 /\ path = "corrective_action",
               "corrective_actions_chosen",
               {PathChoice("corrective_action", 1)})
            \union
          Move(s = "awaiting_compliance_path_choice"
                 /\ path = "joint_evaluation",
               "joint_evaluation_chosen", {PathChoice("joint_evaluation", 1)})
            \union
          ToOpinionOrEnd(s = "awaiting_revision_choice" /\ path = "justify",
                         f.cseRequired, PathChoice("justify", 2))
            \union
          Move(s = "awaiting_revision_choice" /\ path = "joint_evaluation",
               "revised_joint_evaluation_chosen",
               {PathChoice("joint_evaluation", 2)}))
    BY DEF ChoosePathMoves
  <2> HIDE DEF s
  <2>1. QED
    BY DEF AtMostOne, ToOpinionOrEnd, Move
<1>5. ASSUME NEW f \in Facts, NEW gap
      PROVE  AtMostOne(SecondDeclarationMoves(f, gap))
  BY DEF AtMostOne, SecondDeclarationMoves, ToOpinionOrEnd, Move
<1>6. ASSUME NEW f \in Facts
      PROVE  /\ AtMostOne(JointEvaluationMoves(f))
             /\ AtMostOne(CseOpinionMoves(f))
             /\ AtMostOne(FormalNoticeMoves(f))
  BY <1>1 DEF AtMostOne, JointEvaluationMoves, CseOpinionMoves,
              FormalNoticeMoves, ToOpinionOrEnd, Move
<1>7. \A state, c : AtMostOne(SyncMoves(state, c))
  BY <1>1 DEF SyncMoves
<1>8. QED
  BY <1>3, <1>4, <1>5, <1>6, <1>7
=============================================================================

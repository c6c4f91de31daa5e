-------------------------- MODULE DemarcheProofs --------------------------
(***************************************************************************)
(* Theorems about Demarche, for every value of its constants: any number   *)
(* of declarations, any bound on the journal, any inputs and any side of   *)
(* the headcount thresholds.                                               *)
(*                                                                         *)
(* The argument has three layers: type correctness; what a step of the     *)
(* system does to one row (nothing, or one move of the engine); and an     *)
(* invariant that every such row step preserves.  The last part shows that *)
(* every row step is a transition of RulesMachine.                         *)
(***************************************************************************)
EXTENDS Demarche, RulesEngineFacts

(***************************************************************************)
(* Types.                                                                  *)
(***************************************************************************)
LEMMA FactsTyped ==
  ASSUME TypeOK, NEW d \in Declarations
  PROVE  FactsOf(d) \in Facts
BY DEF TypeOK, Row, Opinions, FactsOf, Facts

LEMMA ProjectedTyped ==
  ASSUME NEW r \in Row, NEW move, Proper(move)
  PROVE  Projected(r, move) \in Row
<1>1. /\ r.first \in Path \union {None}
      /\ r.second \in Path \union {None}
      /\ move.to \in Status
  BY DEF Row, Proper
<1>2. /\ ProjectedChoice(move.events, 1, r.first) \in Path \union {None}
      /\ ProjectedChoice(move.events, 2, r.second) \in Path \union {None}
  BY <1>1, ProperEvents
<1>3. QED
  BY <1>1, <1>2 DEF Projected, Row

LEMMA RecordTyped ==
  ASSUME TypeOK, NEW d \in Declarations, NEW events \in SUBSET Event,
         Record(d, events)
  PROVE  /\ clock' \in [Declarations -> 0..MaxTime]
         /\ journal' \in [Declarations -> SUBSET JournalEntry]
         /\ journal'[d] = journal[d] \union Dated(events, clock[d] + 1)
         /\ \A o \in Declarations \ {d} : journal'[o] = journal[o]
<1>1. clock[d] + 1 \in 1..MaxTime
  BY DemarcheAssumption DEF TypeOK, Record, DemarcheAssumption
<1>2. Dated(events, clock[d] + 1) \in SUBSET JournalEntry
  BY <1>1 DEF Dated, Event, JournalEntry
<1>3. clock' \in [Declarations -> 0..MaxTime]
  BY <1>1 DEF TypeOK, Record
<1>4. QED
  BY <1>2, <1>3 DEF TypeOK, Record

(* A move written by Record and Projected keeps the row and the journal    *)
(* typed, whatever other columns of the row are written with it.           *)
LEMMA MoveTyped ==
  ASSUME TypeOK, NEW d \in Declarations, NEW move, Proper(move),
         Record(d, move.events), NEW r \in Row,
         row' = [row EXCEPT ![d] = r]
  PROVE  /\ row' \in [Declarations -> Row]
         /\ clock' \in [Declarations -> 0..MaxTime]
         /\ journal' \in [Declarations -> SUBSET JournalEntry]
<1>1. move.events \in SUBSET Event
  BY ProperEvents
<1>2. QED
  BY <1>1, RecordTyped DEF TypeOK

LEMMA ReconcileTyped ==
  ASSUME TypeOK, NEW d \in Declarations, NEW b \in BOOLEAN, NEW answer,
         Reconcile(d, b, answer)
  PROVE  /\ row' \in [Declarations -> Row]
         /\ clock' \in [Declarations -> 0..MaxTime]
         /\ journal' \in [Declarations -> SUBSET JournalEntry]
<1> DEFINE required == CseRequired(b, answer = "yes")
<1>1. required \in BOOLEAN /\ row[d] \in Row
  BY DEF CseRequired, TypeOK
<1>2. CASE UNCHANGED << row, journal, clock >>
  BY <1>2 DEF TypeOK
<1>3. CASE /\ row' = [row EXCEPT ![d].cseRequired = required]
           /\ UNCHANGED << journal, clock >>
  <2>1. [row[d] EXCEPT !.cseRequired = required] \in Row
    BY <1>1 DEF Row
  <2>2. QED
    BY <1>3, <2>1 DEF TypeOK
<1>4. CASE \E move \in SyncMoves(row[d].status, required) :
             /\ Record(d, move.events)
             /\ row' = [row EXCEPT ![d] =
                  [Projected(@, move) EXCEPT !.cseRequired = required]]
  <2>1. PICK move \in SyncMoves(row[d].status, required) :
          /\ Record(d, move.events)
          /\ row' = [row EXCEPT ![d] =
               [Projected(row[d], move) EXCEPT !.cseRequired = required]]
    BY <1>4
  <2>2. Proper(move)
    BY <1>1, ProperMoves DEF Row
  <2>3. [Projected(row[d], move) EXCEPT !.cseRequired = required] \in Row
    <3>1. Projected(row[d], move) \in Row
      BY <1>1, <2>2, ProjectedTyped
    <3>2. QED
      BY <1>1, <3>1 DEF Row
  <2>4. QED
    BY <2>1, <2>2, <2>3, MoveTyped
<1>5. QED
  BY <1>2, <1>3, <1>4 DEF Reconcile

(* The move of each engine action the routers call is proper.              *)
LEMMA RouterMovesProper ==
  ASSUME TypeOK, NEW d \in Declarations
  PROVE  /\ \A b, c, g, gap \in BOOLEAN :
              \A move \in SubmitMoves(row[d].status, b, c, g, gap) : Proper(move)
         /\ \A path \in Path :
              \A move \in ChoosePathMoves(FactsOf(d), path) : Proper(move)
         /\ \A gap \in BOOLEAN :
              \A move \in SecondDeclarationMoves(FactsOf(d), gap) : Proper(move)
         /\ \A move \in JointEvaluationMoves(FactsOf(d)) : Proper(move)
         /\ \A move \in CseOpinionMoves(FactsOf(d)) : Proper(move)
         /\ \A move \in FormalNoticeMoves(FactsOf(d)) : Proper(move)
<1>1. row[d].status \in Status
  BY DEF TypeOK, Row
<1>2. FactsOf(d) \in Facts
  BY FactsTyped
<1>3. QED
  BY <1>1, <1>2, ProperMoves

LEMMA TypingStep ==
  ASSUME TypeOK, [Next]_vars
  PROVE  TypeOK'
<1> USE DEF data, company
<1>1. ASSUME NEW d \in Declarations, GetOrCreate(d)  PROVE TypeOK'
  <2>1. [NewRow EXCEPT !.life = "active"] \in Row
    <3>1. NewRow \in Row
      BY DEF NewRow, Row, Status
    <3>2. QED
      BY <3>1 DEF Row
  <2>2. QED
    BY <1>1, <2>1 DEF GetOrCreate, TypeOK
<1>2. ASSUME NEW d \in Declarations, NEW hasChanged \in BOOLEAN,
             UpdateStep1(d, hasChanged)
      PROVE  TypeOK'
  <2>1. [row[d] EXCEPT !.currentStep = 1] \in Row
    BY DEF TypeOK, Row
  <2>2. QED
    BY <1>2, <2>1 DEF UpdateStep1, TypeOK, Categories
<1>3. ASSUME NEW d \in Declarations, NEW step \in IndicatorSteps,
             UpdateIndicatorStep(d, step)
      PROVE  TypeOK'
  <2>1. step \in 0..6
    BY DemarcheAssumption DEF DemarcheAssumption
  <2>2. [row[d] EXCEPT !.currentStep = step] \in Row
    BY <2>1 DEF TypeOK, Row
  <2>3. QED
    BY <1>3, <2>2 DEF UpdateIndicatorStep, TypeOK
<1>4. ASSUME NEW d \in Declarations, NEW c \in CategoryInputs,
             UpdateEmployeeCategories(d, c)
      PROVE  TypeOK'
  <2>1. c \in Categories
    BY DemarcheAssumption DEF DemarcheAssumption, Categories
  <2>2. [row[d] EXCEPT !.currentStep = 5] \in Row
    BY DEF TypeOK, Row
  <2>3. QED
    BY <1>4, <2>1, <2>2 DEF UpdateEmployeeCategories, TypeOK, Categories
<1>5. ASSUME NEW d \in Declarations, Submit(d)  PROVE TypeOK'
  <2> DEFINE g == initial[d] # "empty"
             gap == initial[d] = "gap"
             required == CseRequired(above, hasCse = "yes")
  <2>1. PICK move \in SubmitMoves(row[d].status, above, hasCse = "yes", g, gap) :
          /\ Record(d, move.events)
          /\ row' = [row EXCEPT ![d] =
               [Projected(row[d], move) EXCEPT !.cseRequired = required,
                                              !.currentStep = 6]]
    BY <1>5 DEF Submit
  <2>2. Proper(move)
    BY RouterMovesProper DEF TypeOK
  <2>3. row[d] \in Row /\ required \in BOOLEAN
    BY DEF TypeOK, CseRequired
  <2>4. Projected(row[d], move) \in Row
    BY <2>2, <2>3, ProjectedTyped
  <2>5. [Projected(row[d], move) EXCEPT !.cseRequired = required,
                                       !.currentStep = 6] \in Row
    <3> DEFINE r == [Projected(row[d], move) EXCEPT !.cseRequired = required]
    <3> HIDE DEF required
    <3>1. r \in Row
      BY <2>3, <2>4 DEF Row
    <3> HIDE DEF r
    <3>2. [r EXCEPT !.currentStep = 6] \in Row
      BY <3>1 DEF Row
    <3>3. QED
      BY <3>2 DEF r
  <2>6. UNCHANGED << data, company >>
    BY <1>5 DEF Submit
  <2>7. QED
    BY <2>1, <2>2, <2>5, <2>6, MoveTyped DEF TypeOK
<1>6. ASSUME NEW d \in Declarations, NEW path \in Path,
             NEW justification \in Justifications,
             SaveCompliancePath(d, path, justification)
      PROVE  TypeOK'
  <2>1. PICK move \in ChoosePathMoves(FactsOf(d), path) :
          /\ Record(d, move.events)
          /\ \/ row' = [row EXCEPT ![d] = [Projected(row[d], move) EXCEPT
                              !.firstJustification = justification]]
             \/ row' = [row EXCEPT ![d] = [Projected(row[d], move) EXCEPT
                              !.secondJustification = justification]]
    BY <1>6 DEF SaveCompliancePath
  <2>2. Proper(move)
    BY RouterMovesProper
  <2>3. /\ Projected(row[d], move) \in Row
        /\ justification \in GapJustification \union {None}
    BY <2>2, ProjectedTyped, DemarcheAssumption
    DEF TypeOK, DemarcheAssumption
  <2>4. /\ [Projected(row[d], move) EXCEPT
               !.firstJustification = justification] \in Row
        /\ [Projected(row[d], move) EXCEPT
               !.secondJustification = justification] \in Row
    BY <2>3 DEF Row
  <2>5. UNCHANGED << data, company >>
    BY <1>6 DEF SaveCompliancePath
  <2>6. QED
    BY <2>1, <2>2, <2>4, <2>5, MoveTyped DEF TypeOK
<1>7. ASSUME NEW d \in Declarations, NEW c \in CategoryInputs,
             SaveCorrection(d, c)
      PROVE  TypeOK'
  <2>1. c \in Categories
    BY DemarcheAssumption DEF DemarcheAssumption, Categories
  <2>2. [row[d] EXCEPT !.secondDeclarationStep = 2] \in Row
    BY DEF TypeOK, Row
  <2>3. QED
    BY <1>7, <2>1, <2>2 DEF SaveCorrection, TypeOK, Categories
<1>8. ASSUME NEW d \in Declarations, SubmitSecondDeclaration(d)
      PROVE  TypeOK'
  <2>1. PICK move \in SecondDeclarationMoves(FactsOf(d), correction[d] = "gap") :
          /\ Record(d, move.events)
          /\ row' = [row EXCEPT ![d] =
               [Projected(row[d], move) EXCEPT !.secondDeclarationStep = 3]]
    BY <1>8 DEF SubmitSecondDeclaration
  <2>2. Proper(move)
    BY RouterMovesProper
  <2>3. Projected(row[d], move) \in Row
    BY <2>2, ProjectedTyped DEF TypeOK
  <2>4. [Projected(row[d], move) EXCEPT !.secondDeclarationStep = 3] \in Row
    BY <2>3 DEF Row
  <2>5. UNCHANGED << data, company >>
    BY <1>8 DEF SubmitSecondDeclaration
  <2>6. QED
    BY <2>1, <2>2, <2>4, <2>5, MoveTyped DEF TypeOK
<1>9. ASSUME NEW d \in Declarations, UploadReport(d)  PROVE TypeOK'
  <2>1. clock[d] + 1 \in 0..MaxTime + 1
    BY DemarcheAssumption DEF TypeOK, DemarcheAssumption
  <2>2. QED
    BY <1>9, <2>1 DEF UploadReport, TypeOK
<1>10. ASSUME NEW d \in Declarations,
              NEW moves, \A move \in moves : Proper(move),
              \E move \in moves :
                /\ Record(d, move.events)
                /\ row' = [row EXCEPT ![d] = Projected(@, move)],
              UNCHANGED << data, company >>
       PROVE  TypeOK'
  <2>1. PICK move \in moves :
          /\ Record(d, move.events)
          /\ row' = [row EXCEPT ![d] = Projected(row[d], move)]
    BY <1>10
  <2>2. Projected(row[d], move) \in Row
    BY <1>10, ProjectedTyped DEF TypeOK
  <2>3. QED
    BY <1>10, <2>1, <2>2, MoveTyped DEF TypeOK
<1>11. ASSUME NEW d \in Declarations, SubmitJointEvaluation(d)
       PROVE  TypeOK'
  BY <1>10, <1>11, RouterMovesProper DEF SubmitJointEvaluation
<1>12. ASSUME NEW d \in Declarations, NEW o1 \in OpinionInputs,
              NEW o2 \in OpinionInputs \union {None}, SaveOpinions(d, o1, o2)
       PROVE  TypeOK'
  <2>1. o1 \in Opinion \union {None} /\ o2 \in Opinion \union {None}
    BY DemarcheAssumption DEF DemarcheAssumption
  <2>2. QED
    BY <1>12, <2>1 DEF SaveOpinions, TypeOK, Opinions
<1>13. ASSUME NEW d \in Declarations, FinalizeCseOpinion(d)  PROVE TypeOK'
  BY <1>10, <1>13, RouterMovesProper DEF FinalizeCseOpinion
<1>14. ASSUME NEW d \in Declarations, UploadFormalNotice(d)  PROVE TypeOK'
  BY <1>14 DEF UploadFormalNotice, TypeOK
<1>15. ASSUME NEW d \in Declarations, SubmitFormalNotice(d)  PROVE TypeOK'
  BY <1>10, <1>15, RouterMovesProper DEF SubmitFormalNotice
<1>16. ASSUME NEW d \in Declarations, ReconcileYear(d)  PROVE TypeOK'
  BY <1>16, ReconcileTyped DEF ReconcileYear, TypeOK
<1>17. ASSUME NEW d \in Declarations, Cancel(d)  PROVE TypeOK'
  <2>1. [row[d] EXCEPT !.life = "cancelled"] \in Row
    BY DEF TypeOK, Row
  <2>2. {Ev("cancel")} \in SUBSET Event
    BY EventsAreEvents
  <2>3. QED
    BY <1>17, <2>1, <2>2, RecordTyped DEF Cancel, TypeOK
<1>18. ASSUME NEW answer \in Answers, UpdateHasCse(answer)  PROVE TypeOK'
  <2>1. answer \in {"unknown", "yes", "no"}
    BY DemarcheAssumption DEF DemarcheAssumption
  <2>2. CASE UNCHANGED << row, journal, clock >>
    BY <1>18, <2>1, <2>2 DEF UpdateHasCse, TypeOK
  <2>3. CASE \E d \in Declarations : Active(d) /\ Reconcile(d, above, answer)
    BY <1>18, <2>1, <2>3, ReconcileTyped DEF UpdateHasCse, TypeOK
  <2>4. QED
    BY <1>18, <2>2, <2>3 DEF UpdateHasCse
<1>19. ASSUME NEW answer \in Answers, ResolveHasCse(answer)  PROVE TypeOK'
  BY <1>19, DemarcheAssumption DEF ResolveHasCse, TypeOK, DemarcheAssumption
<1>20. ASSUME ImportGip  PROVE TypeOK'
  BY <1>20, DemarcheAssumption DEF ImportGip, TypeOK, DemarcheAssumption
<1>21. CASE UNCHANGED vars
  BY <1>21 DEF vars, TypeOK
<1>22. QED
  BY <1>1, <1>2, <1>3, <1>4, <1>5, <1>6, <1>7, <1>8, <1>9, <1>11, <1>12,
     <1>13, <1>14, <1>15, <1>16, <1>17, <1>18, <1>19, <1>20, <1>21 DEF Next

(* The columns, the journal and the files of every declaration have the    *)
(* types of the schema, in every reachable state.                          *)
THEOREM Typing == Spec => []TypeOK
<1>1. Init => TypeOK
  BY DemarcheAssumption
  DEF Init, TypeOK, NewRow, NoOpinions, Row, Opinions, Status, Categories,
      DemarcheAssumption
<1>2. TypeOK /\ [Next]_vars => TypeOK'
  BY TypingStep
<1>3. QED
  BY <1>1, <1>2, PTL DEF Spec

(***************************************************************************)
(* What a step does to one row.                                            *)
(***************************************************************************)
(* Row d takes one of the moves: status, path choices and journal.         *)
Follows(d, moves) ==
  \E move \in moves :
    /\ row'[d].status = move.to
    /\ row'[d].first  = ProjectedChoice(move.events, 1, row[d].first)
    /\ row'[d].second = ProjectedChoice(move.events, 2, row[d].second)
    /\ journal'[d] = journal[d] \union Dated(move.events, clock[d] + 1)

SameProgress(d) ==
  /\ row'[d].status = row[d].status
  /\ row'[d].first = row[d].first
  /\ row'[d].second = row[d].second

(* A row that leaves "absent" never returns to it. *)
NeverForgotten(d) == row'[d] = row[d] \/ row'[d].life # "absent"

(* The state is left alone; so is the snapshot of a parked row that owes   *)
(* an opinion.                                                             *)
Idles(d) ==
  /\ SameProgress(d)
  /\ \/ journal'[d] = journal[d]
     \/ journal'[d] = journal[d] \union Dated({Ev("cancel")}, clock[d] + 1)
  /\ \/ row'[d].cseRequired
     \/ row[d].status # "awaiting_cse_opinion"
     \/ row'[d].cseRequired = row[d].cseRequired

Submits(d) ==
  \E b, c, g, gap \in BOOLEAN :
    /\ Follows(d, SubmitMoves(row[d].status, b, c, g, gap))
    /\ row'[d].cseRequired = CseRequired(b, c)

Continues(d) ==
  /\ row'[d].cseRequired = row[d].cseRequired
  /\ \/ \E path \in Path : Follows(d, ChoosePathMoves(FactsOf(d), path))
     \/ \E gap \in BOOLEAN :
          Follows(d, SecondDeclarationMoves(FactsOf(d), gap))
     \/ Follows(d, JointEvaluationMoves(FactsOf(d)))
     \/ Follows(d, CseOpinionMoves(FactsOf(d)))
     \/ Follows(d, FormalNoticeMoves(FactsOf(d)))

IsReleased(d) ==
  \E c \in BOOLEAN : Follows(d, SyncMoves(row[d].status, c))

RowStep(d) ==
  /\ NeverForgotten(d)
  /\ Idles(d) \/ Submits(d) \/ Continues(d) \/ IsReleased(d)

(* A row that was never opened is the row getOrCreate inserts.             *)
AbsentIsNew == \A d \in Declarations : row[d].life = "absent" => row[d] = NewRow

LEMMA UntouchedIdles ==
  ASSUME NEW d \in Declarations, row'[d] = row[d], journal'[d] = journal[d]
  PROVE  RowStep(d)
BY DEF RowStep, NeverForgotten, Idles, SameProgress

(* A step that writes the columns of one row and no journal.               *)
LEMMA ColumnsIdle ==
  ASSUME TypeOK, NEW d \in Declarations, NEW r \in Row,
         row' = [row EXCEPT ![d] = r], r.life # "absent",
         r.status = row[d].status, r.first = row[d].first,
         r.second = row[d].second,
         \/ r.cseRequired
         \/ row[d].status # "awaiting_cse_opinion"
         \/ r.cseRequired = row[d].cseRequired,
         UNCHANGED journal
  PROVE  \A o \in Declarations : RowStep(o)
<1>1. row'[d] = r /\ \A o \in Declarations \ {d} : row'[o] = row[o]
  BY DEF TypeOK
<1>2. RowStep(d)
  BY <1>1 DEF RowStep, NeverForgotten, Idles, SameProgress
<1>3. \A o \in Declarations \ {d} : RowStep(o)
  BY <1>1, UntouchedIdles
<1>4. QED
  BY <1>2, <1>3

(* r is what row d may become by a move.                                   *)
Lands(r, d, move) ==
  /\ r \in Row /\ r.life # "absent" /\ r.status = move.to
  /\ r.first = ProjectedChoice(move.events, 1, row[d].first)
  /\ r.second = ProjectedChoice(move.events, 2, row[d].second)

(* A step that follows a move: the row it moves, and the rows it does not. *)
LEMMA MoveFollowed ==
  ASSUME TypeOK, NEW d \in Declarations, NEW moves, NEW move \in moves,
         Proper(move), Record(d, move.events),
         NEW r, Lands(r, d, move), row' = [row EXCEPT ![d] = r]
  PROVE  /\ row'[d] = r
         /\ Follows(d, moves)
         /\ NeverForgotten(d)
         /\ \A o \in Declarations \ {d} : RowStep(o)
<1>1. row'[d] = r /\ \A o \in Declarations \ {d} : row'[o] = row[o]
  BY DEF TypeOK
<1>2. /\ journal'[d] = journal[d] \union Dated(move.events, clock[d] + 1)
      /\ \A o \in Declarations \ {d} : journal'[o] = journal[o]
  BY ProperEvents, RecordTyped
<1>3. Follows(d, moves)
  BY <1>1, <1>2 DEF Follows, Lands
<1>4. \A o \in Declarations \ {d} : RowStep(o)
  BY <1>1, <1>2, UntouchedIdles
<1>5. QED
  BY <1>1, <1>3, <1>4 DEF NeverForgotten, Lands

(* The columns of Projected. *)
LEMMA ProjectedIs ==
  ASSUME NEW r \in Row, NEW move
  PROVE  /\ Projected(r, move).life = r.life
         /\ Projected(r, move).cseRequired = r.cseRequired
         /\ Projected(r, move).status = move.to
         /\ Projected(r, move).first = ProjectedChoice(move.events, 1, r.first)
         /\ Projected(r, move).second = ProjectedChoice(move.events, 2, r.second)
BY DEF Projected, Row

(* Rows that agree on everything a row step is about.                      *)
Agrees(r, p) ==
  /\ r.life = p.life /\ r.cseRequired = p.cseRequired
  /\ r.status = p.status /\ r.first = p.first /\ r.second = p.second

(* A router step that follows a move and keeps the snapshot.               *)
LEMMA RouterFollows ==
  ASSUME TypeOK, NEW d \in Declarations, Active(d), NEW moves,
         NEW move \in moves, Proper(move), Record(d, move.events),
         NEW r \in Row, row' = [row EXCEPT ![d] = r],
         Agrees(r, Projected(row[d], move))
  PROVE  /\ Follows(d, moves)
         /\ row'[d].cseRequired = row[d].cseRequired
         /\ NeverForgotten(d)
         /\ \A o \in Declarations \ {d} : RowStep(o)
<1>1. row[d] \in Row /\ row[d].life # "absent"
  BY DEF TypeOK, Active
<1>2. Lands(r, d, move) /\ r.cseRequired = row[d].cseRequired
  BY <1>1, ProjectedIs DEF Agrees, Lands
<1>3. /\ row'[d] = r
      /\ Follows(d, moves)
      /\ NeverForgotten(d)
      /\ \A o \in Declarations \ {d} : RowStep(o)
  BY <1>2, MoveFollowed
<1>4. QED
  BY <1>2, <1>3

LEMMA ReconcileIsRowStep ==
  ASSUME TypeOK, NEW d \in Declarations, NEW b \in BOOLEAN, NEW answer,
         Active(d), Reconcile(d, b, answer)
  PROVE  \A o \in Declarations : RowStep(o)
<1> DEFINE required == CseRequired(b, answer = "yes")
<1>1. /\ required \in BOOLEAN
      /\ row[d] \in Row /\ row[d].life # "absent" /\ row[d].status \in Status
  BY DEF CseRequired, TypeOK, Row, Active
<1>2. CASE UNCHANGED << row, journal, clock >>
  BY <1>2, UntouchedIdles
<1>3. CASE /\ Reconciliation(row[d].status, row[d].cseRequired, required)
                = "refresh-snapshot"
           /\ row' = [row EXCEPT ![d].cseRequired = required]
           /\ UNCHANGED << journal, clock >>
  <2> DEFINE r == [row[d] EXCEPT !.cseRequired = required]
  <2> HIDE DEF required
  <2>1. r \in Row /\ r.life = row[d].life /\ r.status = row[d].status
        /\ r.first = row[d].first /\ r.second = row[d].second
        /\ r.cseRequired = required
    BY <1>1 DEF Row
  <2>2. required \/ row[d].status # "awaiting_cse_opinion"
    BY <1>1, <1>3 DEF Reconciliation
  <2>3. row' = [row EXCEPT ![d] = r]
    BY <1>3
  <2> HIDE DEF r
  <2>4. QED
    BY <1>1, <1>3, <2>1, <2>2, <2>3, ColumnsIdle
<1>4. CASE \E move \in SyncMoves(row[d].status, required) :
             /\ Record(d, move.events)
             /\ row' = [row EXCEPT ![d] =
                  [Projected(@, move) EXCEPT !.cseRequired = required]]
  <2>1. PICK move \in SyncMoves(row[d].status, required) :
          /\ Record(d, move.events)
          /\ row' = [row EXCEPT ![d] =
               [Projected(row[d], move) EXCEPT !.cseRequired = required]]
    BY <1>4
  <2>2. Proper(move)
    BY <1>1, ProperMoves
  <2> DEFINE p == Projected(row[d], move)
             r == [p EXCEPT !.cseRequired = required]
  <2> HIDE DEF required
  <2>3. p \in Row
    BY <1>1, <2>2, ProjectedTyped
  <2>4. /\ p.life = row[d].life /\ p.status = move.to
        /\ p.first = ProjectedChoice(move.events, 1, row[d].first)
        /\ p.second = ProjectedChoice(move.events, 2, row[d].second)
    BY <1>1, ProjectedIs
  <2>5. row' = [row EXCEPT ![d] = r]
    BY <2>1
  <2> HIDE DEF p
  <2>6. Lands(r, d, move)
    BY <1>1, <2>3, <2>4 DEF Row, Lands
  <2> HIDE DEF r
  <2>7. /\ Follows(d, SyncMoves(row[d].status, required))
        /\ NeverForgotten(d)
        /\ \A o \in Declarations \ {d} : RowStep(o)
    BY <2>1, <2>2, <2>5, <2>6, MoveFollowed
  <2>8. RowStep(d)
    BY <1>1, <2>7 DEF RowStep, IsReleased
  <2>9. QED
    BY <2>7, <2>8
<1>5. QED
  BY <1>2, <1>3, <1>4 DEF Reconcile

(* Every step of the system is a row step of every row.                    *)
LEMMA RowSteps ==
  ASSUME TypeOK, AbsentIsNew, [Next]_vars
  PROVE  \A o \in Declarations : RowStep(o)
<1> USE DEF data, company
<1>1. ASSUME NEW d \in Declarations, GetOrCreate(d)
      PROVE  \A o \in Declarations : RowStep(o)
  <2> DEFINE r == [NewRow EXCEPT !.life = "active"]
  <2>1. row[d] = NewRow
    BY <1>1 DEF GetOrCreate, AbsentIsNew
  <2>2. NewRow \in Row
    BY <2>1 DEF TypeOK
  <2>3. /\ r \in Row /\ r.life = "active" /\ r.status = NewRow.status
        /\ r.first = NewRow.first /\ r.second = NewRow.second
        /\ r.cseRequired = NewRow.cseRequired
    BY <2>2 DEF Row
  <2>4. row' = [row EXCEPT ![d] = r] /\ UNCHANGED journal
    BY <1>1 DEF GetOrCreate
  <2> HIDE DEF r
  <2>5. QED
    BY <2>1, <2>3, <2>4, ColumnsIdle
<1>2. ASSUME NEW d \in Declarations, Active(d), NEW r \in Row,
             row' = [row EXCEPT ![d] = r], Agrees(r, row[d]), UNCHANGED journal
      PROVE  \A o \in Declarations : RowStep(o)
  <2>1. r.life # "absent"
    BY <1>2 DEF Active, Agrees
  <2>2. QED
    BY <1>2, <2>1, ColumnsIdle DEF Agrees
<1>3. ASSUME NEW d \in Declarations, Active(d), NEW step \in 0..6,
             row' = [row EXCEPT ![d].currentStep = step], UNCHANGED journal
      PROVE  \A o \in Declarations : RowStep(o)
  <2> DEFINE r == [row[d] EXCEPT !.currentStep = step]
  <2>1. r \in Row /\ Agrees(r, row[d])
    BY DEF TypeOK, Row, Agrees
  <2>2. row' = [row EXCEPT ![d] = r]
    BY <1>3
  <2> HIDE DEF r
  <2>3. QED
    BY <1>2, <1>3, <2>1, <2>2
<1>4. ASSUME NEW d \in Declarations, NEW hasChanged \in BOOLEAN,
             UpdateStep1(d, hasChanged)
      PROVE  \A o \in Declarations : RowStep(o)
  <2> DEFINE step == 1
  <2>1. step \in 0..6
    OBVIOUS
  <2>2. Active(d) /\ row' = [row EXCEPT ![d].currentStep = step] /\ UNCHANGED journal
    BY <1>4 DEF UpdateStep1
  <2> HIDE DEF step
  <2>3. QED
    BY <1>3, <2>1, <2>2
<1>5. ASSUME NEW d \in Declarations, NEW step \in IndicatorSteps,
             UpdateIndicatorStep(d, step)
      PROVE  \A o \in Declarations : RowStep(o)
  <2>1. step \in 0..6
    BY DemarcheAssumption DEF DemarcheAssumption
  <2>2. QED
    BY <1>3, <1>5, <2>1 DEF UpdateIndicatorStep
<1>6. ASSUME NEW d \in Declarations, NEW c \in CategoryInputs,
             UpdateEmployeeCategories(d, c)
      PROVE  \A o \in Declarations : RowStep(o)
  <2> DEFINE step == 5
  <2>1. step \in 0..6
    OBVIOUS
  <2>2. Active(d) /\ row' = [row EXCEPT ![d].currentStep = step] /\ UNCHANGED journal
    BY <1>6 DEF UpdateEmployeeCategories
  <2> HIDE DEF step
  <2>3. QED
    BY <1>3, <2>1, <2>2
<1>7. ASSUME NEW d \in Declarations, Submit(d)
      PROVE  \A o \in Declarations : RowStep(o)
  <2> DEFINE b == above
             h == hasCse = "yes"
             g == initial[d] # "empty"
             gap == initial[d] = "gap"
             required == CseRequired(b, h)
             moves == SubmitMoves(row[d].status, b, h, g, gap)
  <2>1. PICK move \in moves :
          /\ Record(d, move.events)
          /\ row' = [row EXCEPT ![d] =
               [Projected(row[d], move) EXCEPT !.cseRequired = required,
                                              !.currentStep = 6]]
    BY <1>7 DEF Submit
  <2>2. /\ Proper(move) /\ row[d] \in Row /\ row[d].life # "absent"
        /\ required \in BOOLEAN
        /\ b \in BOOLEAN /\ h \in BOOLEAN /\ g \in BOOLEAN /\ gap \in BOOLEAN
    BY <1>7, RouterMovesProper DEF TypeOK, Submit, Active, CseRequired
  <2> DEFINE p == Projected(row[d], move)
             q == [p EXCEPT !.cseRequired = required]
             r == [q EXCEPT !.currentStep = 6]
  <2> HIDE DEF b, h, g, gap, required
  <2>3. p \in Row /\ Lands(p, d, move)
    BY <2>2, ProjectedTyped, ProjectedIs DEF Lands
  <2>4. row' = [row EXCEPT ![d] = r]
    BY <2>1
  <2> HIDE DEF p
  <2>5. q \in Row /\ Lands(q, d, move) /\ q.cseRequired = required
    BY <2>2, <2>3 DEF Row, Lands
  <2> HIDE DEF q
  <2>6. r \in Row /\ Lands(r, d, move) /\ r.cseRequired = required
    BY <2>5 DEF Row, Lands
  <2> HIDE DEF r, moves
  <2>7. /\ row'[d] = r /\ Follows(d, moves) /\ NeverForgotten(d)
        /\ \A o \in Declarations \ {d} : RowStep(o)
    BY <2>1, <2>2, <2>4, <2>6, MoveFollowed
  <2>8. Submits(d)
    BY <2>2, <2>6, <2>7 DEF Submits, moves, required
  <2>9. QED
    BY <2>7, <2>8 DEF RowStep
<1>8. ASSUME NEW d \in Declarations, NEW moves, NEW move \in moves,
             Active(d), Proper(move), Record(d, move.events),
             row' = [row EXCEPT ![d] = Projected(@, move)]
      PROVE  /\ Follows(d, moves)
             /\ row'[d].cseRequired = row[d].cseRequired
             /\ NeverForgotten(d)
             /\ \A o \in Declarations \ {d} : RowStep(o)
  <2> DEFINE r == Projected(row[d], move)
  <2>1. r \in Row /\ Agrees(r, Projected(row[d], move))
    BY <1>8, ProjectedTyped DEF TypeOK, Agrees
  <2>2. row' = [row EXCEPT ![d] = r]
    BY <1>8
  <2> HIDE DEF r
  <2>3. QED
    BY <1>8, <2>1, <2>2, RouterFollows
<1>9. ASSUME NEW d \in Declarations, NEW path \in Path,
             NEW justification \in Justifications,
             SaveCompliancePath(d, path, justification)
      PROVE  \A o \in Declarations : RowStep(o)
  <2> DEFINE moves == ChoosePathMoves(FactsOf(d), path)
  <2>1. PICK move \in moves :
          /\ Record(d, move.events)
          /\ \/ row' = [row EXCEPT ![d] = [Projected(row[d], move) EXCEPT
                              !.firstJustification = justification]]
             \/ row' = [row EXCEPT ![d] = [Projected(row[d], move) EXCEPT
                              !.secondJustification = justification]]
    BY <1>9 DEF SaveCompliancePath
  <2>2. /\ Active(d) /\ Proper(move)
        /\ justification \in GapJustification \union {None}
    BY <1>9, RouterMovesProper, DemarcheAssumption
    DEF SaveCompliancePath, DemarcheAssumption
  <2> DEFINE p == Projected(row[d], move)
             r1 == [p EXCEPT !.firstJustification = justification]
             r2 == [p EXCEPT !.secondJustification = justification]
  <2>3. p \in Row
    BY <2>2, ProjectedTyped DEF TypeOK
  <2>4. row' = [row EXCEPT ![d] = r1] \/ row' = [row EXCEPT ![d] = r2]
    BY <2>1
  <2> HIDE DEF p
  <2>5. r1 \in Row /\ Agrees(r1, p) /\ r2 \in Row /\ Agrees(r2, p)
    BY <2>2, <2>3 DEF Row, Agrees
  <2> HIDE DEF r1, r2, moves
  <2>6. PICK r \in Row : row' = [row EXCEPT ![d] = r] /\ Agrees(r, p)
    BY <2>4, <2>5
  <2>7. /\ Follows(d, moves) /\ row'[d].cseRequired = row[d].cseRequired
        /\ NeverForgotten(d) /\ \A o \in Declarations \ {d} : RowStep(o)
    BY <2>1, <2>2, <2>6, RouterFollows DEF p
  <2>8. QED
    BY <2>7 DEF moves, RowStep, Continues
<1>10. ASSUME NEW d \in Declarations, NEW c \in CategoryInputs,
              SaveCorrection(d, c)
       PROVE  \A o \in Declarations : RowStep(o)
  <2> DEFINE r == [row[d] EXCEPT !.secondDeclarationStep = 2]
  <2>1. r \in Row /\ Agrees(r, row[d])
    BY DEF TypeOK, Row, Agrees
  <2>2. row' = [row EXCEPT ![d] = r] /\ Active(d) /\ UNCHANGED journal
    BY <1>10 DEF SaveCorrection
  <2> HIDE DEF r
  <2>3. QED
    BY <1>2, <2>1, <2>2
<1>11. ASSUME NEW d \in Declarations, SubmitSecondDeclaration(d)
       PROVE  \A o \in Declarations : RowStep(o)
  <2> DEFINE gap == correction[d] = "gap"
             moves == SecondDeclarationMoves(FactsOf(d), gap)
  <2>1. PICK move \in moves :
          /\ Record(d, move.events)
          /\ row' = [row EXCEPT ![d] =
               [Projected(row[d], move) EXCEPT !.secondDeclarationStep = 3]]
    BY <1>11 DEF SubmitSecondDeclaration
  <2>2. Active(d) /\ Proper(move) /\ gap \in BOOLEAN
    BY <1>11, RouterMovesProper DEF SubmitSecondDeclaration
  <2> DEFINE p == Projected(row[d], move)
             r == [p EXCEPT !.secondDeclarationStep = 3]
  <2>3. p \in Row
    BY <2>2, ProjectedTyped DEF TypeOK
  <2>4. row' = [row EXCEPT ![d] = r]
    BY <2>1
  <2> HIDE DEF p, gap
  <2>5. r \in Row /\ Agrees(r, p)
    BY <2>3 DEF Row, Agrees
  <2> HIDE DEF r, moves
  <2>6. /\ Follows(d, moves) /\ row'[d].cseRequired = row[d].cseRequired
        /\ NeverForgotten(d) /\ \A o \in Declarations \ {d} : RowStep(o)
    BY <2>1, <2>2, <2>4, <2>5, RouterFollows DEF p
  <2>7. QED
    BY <2>2, <2>6 DEF moves, RowStep, Continues
<1>12. ASSUME NEW d \in Declarations, SubmitJointEvaluation(d)
       PROVE  \A o \in Declarations : RowStep(o)
  <2>1. PICK move \in JointEvaluationMoves(FactsOf(d)) :
          /\ Record(d, move.events)
          /\ row' = [row EXCEPT ![d] = Projected(@, move)]
    BY <1>12 DEF SubmitJointEvaluation
  <2>2. Active(d) /\ Proper(move)
    BY <1>12, RouterMovesProper DEF SubmitJointEvaluation
  <2>3. QED
    BY <1>8, <2>1, <2>2 DEF RowStep, Continues
<1>13. ASSUME NEW d \in Declarations, FinalizeCseOpinion(d)
       PROVE  \A o \in Declarations : RowStep(o)
  <2>1. PICK move \in CseOpinionMoves(FactsOf(d)) :
          /\ Record(d, move.events)
          /\ row' = [row EXCEPT ![d] = Projected(@, move)]
    BY <1>13 DEF FinalizeCseOpinion
  <2>2. Active(d) /\ Proper(move)
    BY <1>13, RouterMovesProper DEF FinalizeCseOpinion
  <2>3. QED
    BY <1>8, <2>1, <2>2 DEF RowStep, Continues
<1>14. ASSUME NEW d \in Declarations, SubmitFormalNotice(d)
       PROVE  \A o \in Declarations : RowStep(o)
  <2>1. PICK move \in FormalNoticeMoves(FactsOf(d)) :
          /\ Record(d, move.events)
          /\ row' = [row EXCEPT ![d] = Projected(@, move)]
    BY <1>14 DEF SubmitFormalNotice
  <2>2. Active(d) /\ Proper(move)
    BY <1>14, RouterMovesProper DEF SubmitFormalNotice
  <2>3. QED
    BY <1>8, <2>1, <2>2 DEF RowStep, Continues
<1>15. ASSUME NEW d \in Declarations, ReconcileYear(d)
       PROVE  \A o \in Declarations : RowStep(o)
  BY <1>15, ReconcileIsRowStep DEF ReconcileYear, TypeOK
<1>16. ASSUME NEW d \in Declarations, Cancel(d)
       PROVE  \A o \in Declarations : RowStep(o)
  <2> DEFINE r == [row[d] EXCEPT !.life = "cancelled"]
  <2>1. /\ r.life = "cancelled" /\ r.cseRequired = row[d].cseRequired
        /\ r.status = row[d].status /\ r.first = row[d].first
        /\ r.second = row[d].second
    BY DEF TypeOK, Row
  <2>2. row'[d] = r /\ \A o \in Declarations \ {d} : row'[o] = row[o]
    BY <1>16 DEF Cancel, TypeOK
  <2>3. /\ journal'[d] = journal[d] \union Dated({Ev("cancel")}, clock[d] + 1)
        /\ \A o \in Declarations \ {d} : journal'[o] = journal[o]
    BY <1>16, EventsAreEvents, RecordTyped DEF Cancel
  <2> HIDE DEF r
  <2>4. RowStep(d)
    BY <2>1, <2>2, <2>3 DEF RowStep, NeverForgotten, Idles, SameProgress
  <2>5. QED
    BY <2>2, <2>3, <2>4, UntouchedIdles
<1>17. ASSUME NEW answer \in Answers, UpdateHasCse(answer)
       PROVE  \A o \in Declarations : RowStep(o)
  BY <1>17, ReconcileIsRowStep, UntouchedIdles DEF UpdateHasCse, TypeOK
<1>18. ASSUME UNCHANGED row, UNCHANGED journal
       PROVE  \A o \in Declarations : RowStep(o)
  BY <1>18, UntouchedIdles
<1>19. ASSUME \/ \E d \in Declarations :
                   \/ UploadReport(d) \/ UploadFormalNotice(d)
                   \/ \E o1 \in OpinionInputs, o2 \in OpinionInputs \union {None} :
                        SaveOpinions(d, o1, o2)
              \/ \E answer \in Answers : ResolveHasCse(answer)
              \/ ImportGip
              \/ UNCHANGED vars
       PROVE  UNCHANGED row /\ UNCHANGED journal
  BY <1>19 DEF UploadReport, UploadFormalNotice, SaveOpinions, ResolveHasCse,
               ImportGip, vars
<1>20. QED
  BY <1>1, <1>4, <1>5, <1>6, <1>7, <1>9, <1>10, <1>11, <1>12, <1>13, <1>14,
     <1>15, <1>16, <1>17, <1>18, <1>19 DEF Next

(***************************************************************************)
(* The state of a row, its path choices and its journal agree.             *)
(***************************************************************************)
Second(j)   == Recorded(j, "second_declaration_submit")
Joint(j, r) == \E e \in j : e.type = "joint_evaluation_submit" /\ e.round = r

(* StateNamesChoice, RoundMatchesState and CompletionEarned, for one row:  *)
(* none of the three is inductive alone.                                   *)
Consistent(s, first, second, j) ==
  /\ s \in {"draft", "awaiting_compliance_path_choice"} => first = None
  /\ s = "corrective_actions_chosen" => first = "corrective_action"
  /\ s = "joint_evaluation_chosen" => first = "joint_evaluation"
  /\ s = "awaiting_revision_choice" => second = None
  /\ s = "revised_joint_evaluation_chosen" => second = "joint_evaluation"
  /\ Second(j) =>
       /\ first = "corrective_action"
       /\ s \in { "awaiting_revision_choice", "revised_joint_evaluation_chosen",
                  "awaiting_cse_opinion", "demarche_completed" }
  /\ ~Second(j) =>
       /\ second = None
       /\ s \notin {"awaiting_revision_choice", "revised_joint_evaluation_chosen"}
  /\ s \in {"awaiting_cse_opinion", "demarche_completed"} =>
       /\ first = "corrective_action" => Second(j)
       /\ first = "joint_evaluation" => Joint(j, 1)
       /\ second = "joint_evaluation" => Joint(j, 2)

ConsistentRow(d) ==
  Consistent(row[d].status, row[d].first, row[d].second, journal[d])

LEMMA ConsistencyIs ==
  (\A d \in Declarations : ConsistentRow(d))
    <=> StateNamesChoice /\ RoundMatchesState /\ CompletionEarned
<1>1. ASSUME NEW d \in Declarations
      PROVE  ConsistentRow(d) <=>
        /\ LET s == row[d].status IN
           /\ s \in {"draft", "awaiting_compliance_path_choice"}
                => row[d].first = None
           /\ s = "corrective_actions_chosen"
                => row[d].first = "corrective_action"
           /\ s = "joint_evaluation_chosen"
                => row[d].first = "joint_evaluation"
           /\ s = "awaiting_revision_choice" => row[d].second = None
           /\ s = "revised_joint_evaluation_chosen"
                => row[d].second = "joint_evaluation"
        /\ IF CurrentRound(journal[d]) = 2
           THEN /\ row[d].first = "corrective_action"
                /\ row[d].status \in
                     { "awaiting_revision_choice",
                       "revised_joint_evaluation_chosen",
                       "awaiting_cse_opinion", "demarche_completed" }
           ELSE /\ row[d].second = None
                /\ row[d].status \notin
                     {"awaiting_revision_choice", "revised_joint_evaluation_chosen"}
        /\ row[d].status \in {"awaiting_cse_opinion", "demarche_completed"} =>
             /\ row[d].first = "corrective_action"
                  => Recorded(journal[d], "second_declaration_submit")
             /\ \A r \in 1..2 : ChoiceColumn(d, r) = "joint_evaluation" =>
                  \E e \in journal[d] :
                    e.type = "joint_evaluation_submit" /\ e.round = r
  BY DEF ConsistentRow, Consistent, CurrentRound, ChoiceColumn, Second, Joint
<1>2. QED
  BY <1>1, Zenon DEF StateNamesChoice, RoundMatchesState, CompletionEarned

(* What an event adds to the journal, as far as consistency looks at it.   *)
LEMMA JournalAfter ==
  ASSUME NEW e \in Event, NEW events, OneEvent(events, e), NEW j, NEW t,
         NEW k, k = j \union Dated(events, t)
  PROVE  /\ Second(k) <=> Second(j) \/ e.type = "second_declaration_submit"
         /\ \A r \in 1..2 :
              Joint(k, r) <=>
                \/ Joint(j, r)
                \/ e.type = "joint_evaluation_submit" /\ e.round = r
<1> DEFINE dated(x) == [type |-> x.type, value |-> x.value, round |-> x.round,
                        at |-> t]
<1>1. /\ \A x \in events : dated(x) \in Dated(events, t)
      /\ \A y \in Dated(events, t) : \E x \in events : y = dated(x)
      /\ \A x : dated(x).type = x.type /\ dated(x).round = x.round
  BY DEF Dated
<1>2. e \in events /\ \A x \in events : x = e \/ x.type = "demarche_complete"
  BY DEF OneEvent, Complete, Ev
<1> HIDE DEF dated
<1>3. /\ dated(e) \in Dated(events, t)
      /\ dated(e).type = e.type /\ dated(e).round = e.round
      /\ \A y \in Dated(events, t) :
           \/ y.type = e.type /\ y.round = e.round
           \/ y.type = "demarche_complete"
  BY <1>1, <1>2
<1>4. Second(k) <=> Second(j) \/ e.type = "second_declaration_submit"
  BY <1>3 DEF Second, Recorded
<1>5. ASSUME NEW r \in 1..2
      PROVE  Joint(k, r) <=>
               \/ Joint(j, r)
               \/ e.type = "joint_evaluation_submit" /\ e.round = r
  BY <1>3 DEF Joint
<1>6. QED
  BY <1>4, <1>5

LEMMA AfterMove ==
  ASSUME NEW d, NEW e \in Event, NEW move, OneEvent(move.events, e),
         row'[d].first  = ProjectedChoice(move.events, 1, row[d].first),
         row'[d].second = ProjectedChoice(move.events, 2, row[d].second),
         journal'[d] = journal[d] \union Dated(move.events, clock[d] + 1)
  PROVE  /\ row'[d].first =
              IF e.type = "path_choice" /\ e.round = 1 THEN e.value
                                                       ELSE row[d].first
         /\ row'[d].second =
              IF e.type = "path_choice" /\ e.round = 2 THEN e.value
                                                       ELSE row[d].second
         /\ Second(journal'[d]) <=>
              Second(journal[d]) \/ e.type = "second_declaration_submit"
         /\ \A r \in 1..2 :
              Joint(journal'[d], r) <=>
                \/ Joint(journal[d], r)
                \/ e.type = "joint_evaluation_submit" /\ e.round = r
<1>1. 1 \in 1..2 /\ 2 \in 1..2
  OBVIOUS
<1>2. /\ row'[d].first =
           IF e.type = "path_choice" /\ e.round = 1 THEN e.value
                                                    ELSE row[d].first
      /\ row'[d].second =
           IF e.type = "path_choice" /\ e.round = 2 THEN e.value
                                                    ELSE row[d].second
  BY <1>1, ProjectedChoiceIs
<1>3. QED
  BY <1>2, JournalAfter

(* The states a choice of each round is taken from.                        *)
LEMMA ReplayStateIs ==
  ASSUME NEW f
  PROVE  /\ ReplayState(f) = "awaiting_compliance_path_choice" =>
              \/ f.currentState \in {"awaiting_compliance_path_choice",
                                    "corrective_actions_chosen",
                                    "joint_evaluation_chosen"}
              \/ f.currentState = "awaiting_cse_opinion" /\ f.first = "justify"
         /\ ReplayState(f) = "awaiting_revision_choice" =>
              \/ f.currentState \in {"awaiting_revision_choice",
                                    "revised_joint_evaluation_chosen"}
              \/ f.currentState = "awaiting_cse_opinion" /\ f.second = "justify"
BY DEF ReplayState, RevisesInitialChoice, RevisesRevisedChoice

LEMMA EventColumns ==
  /\ Ev("submit").type = "submit"
  /\ Ev("cancel").type = "cancel"
  /\ Ev("cse_opinion_submit").type = "cse_opinion_submit"
  /\ Ev("formal_notice_joint_evaluation_submit").type
       = "formal_notice_joint_evaluation_submit"
  /\ Complete.type = "demarche_complete"
  /\ RoundEv("second_declaration_submit", 2).type = "second_declaration_submit"
  /\ \A r : /\ RoundEv("joint_evaluation_submit", r).type
                 = "joint_evaluation_submit"
            /\ RoundEv("joint_evaluation_submit", r).round = r
  /\ \A path, r : /\ PathChoice(path, r).type = "path_choice"
                  /\ PathChoice(path, r).value = path
                  /\ PathChoice(path, r).round = r
BY DEF Ev, Complete, RoundEv, PathChoice

LEMMA ConsistentStep ==
  ASSUME TypeOK, NEW d \in Declarations, ConsistentRow(d), RowStep(d)
  PROVE  Consistent(row'[d].status, row'[d].first, row'[d].second, journal'[d])
<1> DEFINE f == FactsOf(d)
           Goal == Consistent(row'[d].status, row'[d].first, row'[d].second,
                              journal'[d])
<1>1. f \in Facts
  BY FactsTyped
<1>2. /\ f.currentState = row[d].status
      /\ f.first = row[d].first /\ f.second = row[d].second
  BY DEF FactsOf
<1>3. Consistent(row[d].status, row[d].first, row[d].second, journal[d])
  BY DEF ConsistentRow
<1> HIDE DEF f
<1>4. CASE Idles(d)
  <2>1. CASE journal'[d] = journal[d]
    BY <1>3, <1>4, <2>1 DEF Idles, SameProgress, Consistent
  <2>2. CASE journal'[d] = journal[d] \union Dated({Ev("cancel")}, clock[d] + 1)
    <3> DEFINE e == Ev("cancel")
               events == {e}
    <3>1. e \in Event /\ e.type = "cancel" /\ OneEvent(events, e)
      BY EventsAreEvents, EventColumns DEF OneEvent
    <3> HIDE DEF e
    <3>2. /\ Second(journal'[d]) <=> Second(journal[d])
          /\ \A r \in 1..2 : Joint(journal'[d], r) <=> Joint(journal[d], r)
      <4>1. journal'[d] = journal[d] \union Dated(events, clock[d] + 1)
        BY <2>2 DEF e
      <4> HIDE DEF events
      <4>2. QED
        BY <3>1, <4>1, JournalAfter
    <3>3. QED
      BY <1>3, <1>4, <3>2 DEF Idles, SameProgress, Consistent
  <2>3. QED
    BY <1>4, <2>1, <2>2 DEF Idles
<1>5. CASE Submits(d)
  <2>1. PICK b \in BOOLEAN, c \in BOOLEAN, g \in BOOLEAN, gap \in BOOLEAN :
          Follows(d, SubmitMoves(row[d].status, b, c, g, gap))
    BY <1>5 DEF Submits
  <2>2. PICK move \in SubmitMoves(row[d].status, b, c, g, gap) :
          /\ row'[d].status = move.to
          /\ row'[d].first  = ProjectedChoice(move.events, 1, row[d].first)
          /\ row'[d].second = ProjectedChoice(move.events, 2, row[d].second)
          /\ journal'[d] = journal[d] \union Dated(move.events, clock[d] + 1)
    BY <2>1 DEF Follows
  <2>3. /\ row[d].status = "draft" /\ OneEvent(move.events, Ev("submit"))
        /\ move.to \in {"awaiting_compliance_path_choice",
                        "awaiting_cse_opinion", "demarche_completed"}
    BY SubmitMovesAre
  <2>4. /\ row'[d].first = row[d].first /\ row'[d].second = row[d].second
        /\ Second(journal'[d]) <=> Second(journal[d])
    BY <2>2, <2>3, AfterMove, EventsAreEvents, EventColumns
  <2>5. QED
    BY <1>3, <2>2, <2>3, <2>4 DEF Consistent, None
<1>6. CASE \E path \in Path : Follows(d, ChoosePathMoves(f, path))
  <2>0. PICK path \in Path : Follows(d, ChoosePathMoves(f, path))
    BY <1>6
  <2>1. PICK move \in ChoosePathMoves(f, path) :
          /\ row'[d].status = move.to
          /\ row'[d].first  = ProjectedChoice(move.events, 1, row[d].first)
          /\ row'[d].second = ProjectedChoice(move.events, 2, row[d].second)
          /\ journal'[d] = journal[d] \union Dated(move.events, clock[d] + 1)
    BY <2>0 DEF Follows
  <2>2. ASSUME NEW r \in 1..2, OneEvent(move.events, PathChoice(path, r))
        PROVE  /\ row'[d].first = IF r = 1 THEN path ELSE row[d].first
               /\ row'[d].second = IF r = 2 THEN path ELSE row[d].second
               /\ Second(journal'[d]) <=> Second(journal[d])
               /\ \A i \in 1..2 : Joint(journal'[d], i) <=> Joint(journal[d], i)
    <3> DEFINE e == PathChoice(path, r)
    <3>1. /\ e \in Event /\ e.type = "path_choice"
          /\ e.value = path /\ e.round = r /\ OneEvent(move.events, e)
      BY <2>2, EventsAreEvents, EventColumns
    <3> HIDE DEF e
    <3>2. QED
      BY <2>1, <3>1, AfterMove
  <2>3. CASE /\ ReplayState(f) = "awaiting_compliance_path_choice"
             /\ OneEvent(move.events, PathChoice(path, 1))
             /\ \/ /\ path = "justify"
                   /\ move.to \in {"awaiting_cse_opinion", "demarche_completed"}
                \/ /\ path = "corrective_action"
                   /\ move.to = "corrective_actions_chosen"
                \/ /\ path = "joint_evaluation"
                   /\ move.to = "joint_evaluation_chosen"
    <3>1. /\ ~Second(journal[d]) /\ row[d].second = None
      BY <1>2, <1>3, <2>3, ReplayStateIs DEF Consistent
    <3>2. /\ row'[d].first = path /\ row'[d].second = row[d].second
          /\ ~Second(journal'[d])
      BY <2>2, <2>3, <3>1
    <3>3. QED
      BY <2>1, <2>3, <3>1, <3>2 DEF Consistent, None
  <2>4. CASE /\ ReplayState(f) = "awaiting_revision_choice"
             /\ OneEvent(move.events, PathChoice(path, 2))
             /\ \/ /\ path = "justify"
                   /\ move.to \in {"awaiting_cse_opinion", "demarche_completed"}
                \/ /\ path = "joint_evaluation"
                   /\ move.to = "revised_joint_evaluation_chosen"
    <3>1. Second(journal[d]) /\ row[d].first = "corrective_action"
      BY <1>2, <1>3, <2>4, ReplayStateIs DEF Consistent, None
    <3>2. /\ row'[d].first = row[d].first /\ row'[d].second = path
          /\ Second(journal'[d])
      BY <2>2, <2>4, <3>1
    <3>3. QED
      BY <2>1, <2>4, <3>1, <3>2 DEF Consistent, None
  <2>5. QED
    BY <1>1, <2>3, <2>4, ChoosePathMovesAre
<1>7. CASE \E gap \in BOOLEAN : Follows(d, SecondDeclarationMoves(f, gap))
  <2>0. PICK gap \in BOOLEAN : Follows(d, SecondDeclarationMoves(f, gap))
    BY <1>7
  <2>1. PICK move \in SecondDeclarationMoves(f, gap) :
          /\ row'[d].status = move.to
          /\ row'[d].first  = ProjectedChoice(move.events, 1, row[d].first)
          /\ row'[d].second = ProjectedChoice(move.events, 2, row[d].second)
          /\ journal'[d] = journal[d] \union Dated(move.events, clock[d] + 1)
    BY <2>0 DEF Follows
  <2>2. /\ row[d].status \in
             {"corrective_actions_chosen", "awaiting_revision_choice"}
        /\ OneEvent(move.events, RoundEv("second_declaration_submit", 2))
        /\ move.to \in {"awaiting_revision_choice", "awaiting_cse_opinion",
                        "demarche_completed"}
    BY <1>1, <1>2, SecondDeclarationMovesAre
  <2>3. /\ row'[d].first = row[d].first /\ row'[d].second = row[d].second
        /\ Second(journal'[d])
    BY <2>1, <2>2, AfterMove, EventsAreEvents, EventColumns
  <2>4. row[d].first = "corrective_action" /\ row[d].second = None
    BY <1>3, <2>2 DEF Consistent
  <2>5. QED
    BY <2>1, <2>2, <2>3, <2>4 DEF Consistent, None
<1>8. CASE Follows(d, JointEvaluationMoves(f))
  <2>1. PICK move \in JointEvaluationMoves(f) :
          /\ row'[d].status = move.to
          /\ row'[d].first  = ProjectedChoice(move.events, 1, row[d].first)
          /\ row'[d].second = ProjectedChoice(move.events, 2, row[d].second)
          /\ journal'[d] = journal[d] \union Dated(move.events, clock[d] + 1)
    BY <1>8 DEF Follows
  <2>2. PICK r \in 1..2 :
          /\ OneEvent(move.events, RoundEv("joint_evaluation_submit", r))
          /\ row[d].status = IF r = 1 THEN "joint_evaluation_chosen"
                                      ELSE "revised_joint_evaluation_chosen"
    BY <1>1, <1>2, JointEvaluationMovesAre
  <2>3. move.to \in {"awaiting_cse_opinion", "demarche_completed"}
    BY <1>1, JointEvaluationMovesAre
  <2>4. /\ row'[d].first = row[d].first /\ row'[d].second = row[d].second
        /\ Second(journal'[d]) <=> Second(journal[d])
        /\ Joint(journal'[d], r)
    <3> DEFINE e == RoundEv("joint_evaluation_submit", r)
    <3>1. /\ e \in Event /\ e.type = "joint_evaluation_submit"
          /\ e.round = r /\ OneEvent(move.events, e)
      BY <2>2, EventsAreEvents, EventColumns
    <3> HIDE DEF e
    <3>2. QED
      BY <2>1, <3>1, AfterMove
  <2>5. CASE r = 1
    BY <1>3, <2>1, <2>2, <2>3, <2>4, <2>5 DEF Consistent, None
  <2>6. CASE r = 2
    BY <1>3, <2>1, <2>2, <2>3, <2>4, <2>6 DEF Consistent, None
  <2>7. QED
    BY <2>5, <2>6
<1>9. ASSUME NEW moves, NEW e \in Event, Follows(d, moves),
             \A move \in moves : /\ move.to = "demarche_completed"
                                 /\ OneEvent(move.events, e),
             row[d].status \in {"awaiting_cse_opinion", "demarche_completed"},
             e.type \notin {"path_choice", "second_declaration_submit",
                           "joint_evaluation_submit"}
      PROVE  Goal
  <2>1. PICK move \in moves :
          /\ row'[d].status = move.to
          /\ row'[d].first  = ProjectedChoice(move.events, 1, row[d].first)
          /\ row'[d].second = ProjectedChoice(move.events, 2, row[d].second)
          /\ journal'[d] = journal[d] \union Dated(move.events, clock[d] + 1)
    BY <1>9 DEF Follows
  <2>2. /\ row'[d].first = row[d].first /\ row'[d].second = row[d].second
        /\ Second(journal'[d]) <=> Second(journal[d])
        /\ \A r \in 1..2 : Joint(journal'[d], r) <=> Joint(journal[d], r)
    BY <1>9, <2>1, AfterMove
  <2>3. QED
    BY <1>3, <1>9, <2>1, <2>2 DEF Consistent, None
<1>10. CASE Follows(d, CseOpinionMoves(f))
  <2> DEFINE e == Ev("cse_opinion_submit")
  <2>1. e \in Event /\ e.type = "cse_opinion_submit"
    BY EventsAreEvents, EventColumns
  <2>2. \A move \in CseOpinionMoves(f) :
          /\ row[d].status \in {"awaiting_cse_opinion", "demarche_completed"}
          /\ move.to = "demarche_completed" /\ OneEvent(move.events, e)
    BY <1>1, <1>2, CseOpinionMovesAre
  <2>3. QED
    BY <1>9, <1>10, <2>1, <2>2 DEF Follows
<1>11. CASE Follows(d, FormalNoticeMoves(f))
  <2> DEFINE e == Ev("formal_notice_joint_evaluation_submit")
  <2>1. e \in Event /\ e.type = "formal_notice_joint_evaluation_submit"
    BY EventsAreEvents, EventColumns
  <2>2. \A move \in FormalNoticeMoves(f) :
          /\ row[d].status = "demarche_completed"
          /\ move.to = "demarche_completed" /\ OneEvent(move.events, e)
    BY <1>1, <1>2, FormalNoticeMovesAre
  <2>3. QED
    BY <1>9, <1>11, <2>1, <2>2 DEF Follows
<1>12. CASE IsReleased(d)
  <2>1. PICK c \in BOOLEAN : Follows(d, SyncMoves(row[d].status, c))
    BY <1>12 DEF IsReleased
  <2>2. Complete \in Event /\ Complete.type = "demarche_complete"
    BY EventsAreEvents, EventColumns
  <2>3. \A move \in SyncMoves(row[d].status, c) :
          /\ row[d].status = "awaiting_cse_opinion"
          /\ move.to = "demarche_completed" /\ OneEvent(move.events, Complete)
    BY SyncMovesAre
  <2>4. QED
    BY <1>9, <2>1, <2>2, <2>3 DEF Follows
<1>13. QED
  BY <1>4, <1>5, <1>6, <1>7, <1>8, <1>10, <1>11, <1>12 DEF RowStep, Continues, f

(***************************************************************************)
(* A parked row owes an opinion; a closed row stays closed.                *)
(***************************************************************************)
LEMMA StatusAfter ==
  ASSUME TypeOK, NEW d \in Declarations, RowStep(d)
  PROVE  /\ row'[d].status = "awaiting_cse_opinion" =>
              \/ row'[d].cseRequired
              \/ /\ row[d].status = "awaiting_cse_opinion"
                 /\ row'[d].cseRequired = row[d].cseRequired
         /\ row[d].status = "demarche_completed" =>
              row'[d].status = "demarche_completed"
<1> DEFINE f == FactsOf(d)
           Goal ==
             /\ row'[d].status = "awaiting_cse_opinion" =>
                  \/ row'[d].cseRequired
                  \/ /\ row[d].status = "awaiting_cse_opinion"
                     /\ row'[d].cseRequired = row[d].cseRequired
             /\ row[d].status = "demarche_completed" =>
                  row'[d].status = "demarche_completed"
<1>1. /\ f \in Facts /\ f.currentState = row[d].status
      /\ f.cseRequired = row[d].cseRequired
      /\ row[d].cseRequired \in BOOLEAN
  BY FactsTyped DEF FactsOf, TypeOK, Row
<1> HIDE DEF f
<1>2. CASE Idles(d)
  BY <1>2 DEF Idles, SameProgress
<1>3. CASE Submits(d)
  <2>1. PICK b \in BOOLEAN, c \in BOOLEAN, g \in BOOLEAN, gap \in BOOLEAN :
          /\ Follows(d, SubmitMoves(row[d].status, b, c, g, gap))
          /\ row'[d].cseRequired = CseRequired(b, c)
    BY <1>3 DEF Submits
  <2>2. PICK move \in SubmitMoves(row[d].status, b, c, g, gap) :
          row'[d].status = move.to
    BY <2>1 DEF Follows
  <2>3. QED
    BY <2>1, <2>2, SubmitMovesAre
<1>4. ASSUME NEW moves, Follows(d, moves),
             row'[d].cseRequired = row[d].cseRequired,
             \A move \in moves :
               /\ move.to = "awaiting_cse_opinion" => f.cseRequired
               /\ f.currentState = "demarche_completed"
                    => move.to = "demarche_completed"
      PROVE  Goal
  <2>1. PICK move \in moves : row'[d].status = move.to
    BY <1>4 DEF Follows
  <2>2. QED
    BY <1>1, <1>4, <2>1
<1>5. CASE Continues(d)
  <2>1. ASSUME NEW path \in Path, NEW move \in ChoosePathMoves(f, path)
        PROVE  /\ move.to = "awaiting_cse_opinion" => f.cseRequired
               /\ f.currentState = "demarche_completed"
                    => move.to = "demarche_completed"
    BY <1>1, ChoosePathMovesAre, ReplayStateIs
  <2>2. ASSUME NEW gap \in BOOLEAN, NEW move \in SecondDeclarationMoves(f, gap)
        PROVE  /\ move.to = "awaiting_cse_opinion" => f.cseRequired
               /\ f.currentState = "demarche_completed"
                    => move.to = "demarche_completed"
    BY <1>1, SecondDeclarationMovesAre
  <2>3. ASSUME NEW move \in JointEvaluationMoves(f)
        PROVE  /\ move.to = "awaiting_cse_opinion" => f.cseRequired
               /\ f.currentState = "demarche_completed"
                    => move.to = "demarche_completed"
    BY <1>1, JointEvaluationMovesAre
  <2>4. ASSUME NEW move \in CseOpinionMoves(f) \union FormalNoticeMoves(f)
        PROVE  move.to = "demarche_completed"
    BY <1>1, CseOpinionMovesAre, FormalNoticeMovesAre
  <2>5. QED
    BY <1>4, <1>5, <2>1, <2>2, <2>3, <2>4 DEF Continues, f
<1>6. CASE IsReleased(d)
  <2>1. PICK c \in BOOLEAN : Follows(d, SyncMoves(row[d].status, c))
    BY <1>6 DEF IsReleased
  <2>2. PICK move \in SyncMoves(row[d].status, c) : row'[d].status = move.to
    BY <2>1 DEF Follows
  <2>3. QED
    BY <2>2, SyncMovesAre
<1>7. QED
  BY <1>2, <1>3, <1>5, <1>6 DEF RowStep

(***************************************************************************)
(* The invariant and the theorems.                                         *)
(***************************************************************************)
IInv ==
  /\ TypeOK
  /\ AbsentIsNew
  /\ ParkedOnlyWhenOwed
  /\ \A d \in Declarations : ConsistentRow(d)

LEMMA InvInit == Init => IInv
<1> SUFFICES ASSUME Init  PROVE IInv
  OBVIOUS
<1>1. TypeOK
  BY DemarcheAssumption
  DEF Init, TypeOK, NewRow, NoOpinions, Row, Opinions, Status, Categories,
      DemarcheAssumption
<1>2. \A d \in Declarations :
        /\ row[d] = NewRow /\ journal[d] = {}
        /\ NewRow.status = "draft" /\ NewRow.first = None /\ NewRow.second = None
  BY DEF Init, NewRow
<1>3. \A d \in Declarations : ConsistentRow(d)
  BY <1>2 DEF ConsistentRow, Consistent, Second, Recorded, None
<1>4. QED
  BY <1>1, <1>2, <1>3 DEF IInv, AbsentIsNew, ParkedOnlyWhenOwed

LEMMA InvStep == IInv /\ [Next]_vars => IInv'
<1> SUFFICES ASSUME IInv, [Next]_vars  PROVE IInv'
  OBVIOUS
<1>1. TypeOK /\ AbsentIsNew /\ \A d \in Declarations : RowStep(d)
  BY RowSteps DEF IInv
<1>2. TypeOK'
  BY <1>1, TypingStep
<1>3. AbsentIsNew'
  BY <1>1 DEF AbsentIsNew, RowStep, NeverForgotten
<1>4. ParkedOnlyWhenOwed'
  BY <1>1, StatusAfter DEF IInv, ParkedOnlyWhenOwed
<1>5. ASSUME NEW d \in Declarations  PROVE ConsistentRow(d)'
  BY <1>1, ConsistentStep DEF IInv, ConsistentRow
<1>6. QED
  BY <1>2, <1>3, <1>4, <1>5 DEF IInv

(* The inductive invariant holds in every reachable state.                 *)
THEOREM Invariance == Spec => []IInv
BY InvInit, InvStep, PTL DEF Spec

(* No démarche is parked on the CSE step while its snapshot says that no   *)
(* opinion is owed, whatever the interleaving of submissions, answers,     *)
(* imports and reconciliations.                                            *)
THEOREM Parked == Spec => []ParkedOnlyWhenOwed
<1>1. IInv => ParkedOnlyWhenOwed
  BY DEF IInv
<1>2. QED
  BY <1>1, Invariance, PTL

(* The state, the path columns and the round derived from the journal      *)
(* agree, and nothing is closed or sent to the CSE before what its path    *)
(* choices call for was transmitted.                                       *)
THEOREM Agreement ==
  Spec => []StateNamesChoice /\ []RoundMatchesState /\ []CompletionEarned
<1>1. IInv => StateNamesChoice /\ RoundMatchesState /\ CompletionEarned
  BY ConsistencyIs DEF IInv
<1>2. QED
  BY <1>1, Invariance, PTL

(* No revision, sync or later submission reopens a closed démarche.        *)
THEOREM Terminal == Spec => CompletedIsTerminal
<1>1. IInv /\ [Next]_vars =>
        [\A d \in Declarations :
           row[d].status = "demarche_completed" =>
             row'[d].status = "demarche_completed"]_vars
  <2> SUFFICES ASSUME IInv, [Next]_vars, NEW d \in Declarations
               PROVE  row[d].status = "demarche_completed" =>
                        row'[d].status = "demarche_completed"
    OBVIOUS
  <2>1. RowStep(d)
    BY RowSteps DEF IInv
  <2>2. QED
    BY <2>1, StatusAfter DEF IInv
<1>2. QED
  BY <1>1, Invariance, PTL DEF Spec, CompletedIsTerminal

(***************************************************************************)
(* Demarche implements RulesMachine for every declaration row.             *)
(***************************************************************************)
(* The rule set that the instance of RulesMachine carries is the rule set. *)
LEMMA SameProjection ==
  ASSUME NEW d
  PROVE  \A events, r, old :
           Engine(d)!ProjectedChoice(events, r, old)
             = ProjectedChoice(events, r, old)
BY Zenon DEF ProjectedChoice, Engine!ProjectedChoice

LEMMA SameMoves ==
  ASSUME NEW d
  PROVE  /\ \A s, b, c, g, gap : Engine(d)!SubmitMoves(s, b, c, g, gap)
                                   = SubmitMoves(s, b, c, g, gap)
         /\ \A f, path : Engine(d)!ChoosePathMoves(f, path)
                           = ChoosePathMoves(f, path)
         /\ \A f, gap : Engine(d)!SecondDeclarationMoves(f, gap)
                          = SecondDeclarationMoves(f, gap)
         /\ \A f : Engine(d)!JointEvaluationMoves(f) = JointEvaluationMoves(f)
         /\ \A f : Engine(d)!CseOpinionMoves(f) = CseOpinionMoves(f)
         /\ \A f : Engine(d)!FormalNoticeMoves(f) = FormalNoticeMoves(f)
         /\ \A s, c : Engine(d)!SyncMoves(s, c) = SyncMoves(s, c)
<1>1. \A s, b, c, g, gap : Engine(d)!SubmitMoves(s, b, c, g, gap)
                             = SubmitMoves(s, b, c, g, gap)
  BY Zenon
  DEF Move, ToOpinionOrEnd, Ev, Complete, SubmitMoves, Phase2Required, CseRequired,
    Engine!Move, Engine!ToOpinionOrEnd, Engine!Ev, Engine!Complete,
    Engine!SubmitMoves, Engine!Phase2Required, Engine!CseRequired, None, Engine!None
<1>2. \A f, path : Engine(d)!ChoosePathMoves(f, path)
                           = ChoosePathMoves(f, path)
  BY Zenon
  DEF ChoosePathMoves, ReplayState, RevisesInitialChoice, RevisesRevisedChoice,
      Engine!ChoosePathMoves, Engine!ReplayState, Engine!RevisesInitialChoice,
      Engine!RevisesRevisedChoice, Move, ToOpinionOrEnd, PathChoice, Complete, Ev,
      Engine!Move, Engine!ToOpinionOrEnd, Engine!PathChoice, Engine!Complete,
      Engine!Ev, None, Engine!None
<1>3. \A f, gap : Engine(d)!SecondDeclarationMoves(f, gap)
                          = SecondDeclarationMoves(f, gap)
  BY Zenon
  DEF SecondDeclarationMoves, Engine!SecondDeclarationMoves,
   Move, ToOpinionOrEnd, RoundEv, Complete, Ev,Engine!Ev,
    Engine!Move, Engine!ToOpinionOrEnd, Engine!RoundEv, Engine!Complete, None, Engine!None
<1>4. \A f : Engine(d)!JointEvaluationMoves(f) = JointEvaluationMoves(f)
  BY Zenon
  DEF JointEvaluationMoves, Engine!JointEvaluationMoves,
      Move, ToOpinionOrEnd, RoundEv, Complete, Ev, None,
      Engine!Move, Engine!ToOpinionOrEnd, Engine!RoundEv, Engine!Complete,
      Engine!Ev, Engine!None
<1>5. \A f : Engine(d)!CseOpinionMoves(f) = CseOpinionMoves(f)
  BY Zenon
  DEF CseOpinionMoves, Engine!CseOpinionMoves, Move, Complete, Ev, None,
      Engine!Move, Engine!Complete, Engine!Ev, Engine!None
<1>6. \A f : Engine(d)!FormalNoticeMoves(f) = FormalNoticeMoves(f)
  BY Zenon
  DEF FormalNoticeMoves, Engine!FormalNoticeMoves, FormalNoticeExposure,
      Engine!FormalNoticeExposure, Move, Ev, None,
      Engine!Move, Engine!Ev, Engine!None
<1>7. \A s, c : Engine(d)!SyncMoves(s, c) = SyncMoves(s, c)
  BY Zenon
  DEF SyncMoves, Engine!SyncMoves, Move, Complete, Ev, None,
      Engine!Move, Engine!Complete, Engine!Ev, Engine!None
<1>8. QED
  BY <1>1, <1>2, <1>3, <1>4, <1>5, <1>6, <1>7

(* Only the formal notice looks at the CSE's opinions.                     *)
LEMMA OpinionsUnread ==
  ASSUME NEW d
  PROVE  LET f == FactsOf(d)
             a == Engine(d)!AnyFacts(row[d].cseRequired, None, None)
         IN  /\ \A path : ChoosePathMoves(a, path) = ChoosePathMoves(f, path)
             /\ \A gap : SecondDeclarationMoves(a, gap)
                           = SecondDeclarationMoves(f, gap)
             /\ JointEvaluationMoves(a) = JointEvaluationMoves(f)
             /\ CseOpinionMoves(a) = CseOpinionMoves(f)
BY DEF FactsOf, Engine!AnyFacts, ChoosePathMoves, SecondDeclarationMoves,
       JointEvaluationMoves, CseOpinionMoves, ReplayState,
       RevisesInitialChoice, RevisesRevisedChoice

LEMMA FollowIs ==
  ASSUME NEW d, NEW moves, Follows(d, moves)
  PROVE  Engine(d)!Follow(moves)
BY SameProjection DEF Follows, Engine!Follow

LEMMA RowTransition ==
  ASSUME TypeOK, NEW d \in Declarations, RowStep(d)
  PROVE  UNCHANGED Engine(d)!progress \/ Engine(d)!Transition
<1> DEFINE f == FactsOf(d)
           a == Engine(d)!AnyFacts(row[d].cseRequired, Engine(d)!None, Engine(d)!None)
<1>1. /\ row[d].cseRequired \in BOOLEAN
      /\ opinions[d].first \in Opinion \union {None}
      /\ opinions[d].second \in Opinion \union {None}
  BY DEF TypeOK, Row, Opinions
<1>2. /\ Engine(d)!Opinion = Opinion /\ Engine(d)!Path = Path
      /\ Engine(d)!None = None
  BY DEF Opinion, Path, None, Engine!Opinion, Engine!Path, Engine!None
<1>3. CASE Idles(d)
  BY <1>3 DEF Idles, SameProgress, Engine!progress
<1>4. CASE Submits(d)
  <2>1. \E b, c, g, gap \in BOOLEAN :
          Engine(d)!Follow(Engine(d)!SubmitMoves(row[d].status, b, c, g, gap))
    BY <1>4, SameMoves, FollowIs DEF Submits
  <2>2. QED
    BY <2>1 DEF Engine!Transition
<1>5. CASE \E path \in Path : Follows(d, ChoosePathMoves(f, path))
  <2>1. \E path \in Engine(d)!Path :
          Engine(d)!Follow(Engine(d)!ChoosePathMoves(a, path))
    BY <1>2, <1>5, SameMoves, OpinionsUnread, FollowIs
  <2>2. QED
    BY <1>1, <2>1 DEF Engine!Transition
<1>6. CASE \E gap \in BOOLEAN : Follows(d, SecondDeclarationMoves(f, gap))
  <2>1. \E gap \in BOOLEAN :
          Engine(d)!Follow(Engine(d)!SecondDeclarationMoves(a, gap))
    BY <1>2, <1>6, SameMoves, OpinionsUnread, FollowIs
  <2>2. QED
    BY <1>1, <2>1 DEF Engine!Transition
<1>7. CASE Follows(d, JointEvaluationMoves(f))
  <2>1. Engine(d)!Follow(Engine(d)!JointEvaluationMoves(a))
    BY <1>2, <1>7, SameMoves, OpinionsUnread, FollowIs
  <2>2. QED
    BY <1>1, <2>1 DEF Engine!Transition
<1>8. CASE Follows(d, CseOpinionMoves(f))
  <2>1. Engine(d)!Follow(Engine(d)!CseOpinionMoves(a))
    BY <1>2, <1>8, SameMoves, OpinionsUnread, FollowIs
  <2>2. QED
    BY <1>1, <2>1 DEF Engine!Transition
<1>9. CASE Follows(d, FormalNoticeMoves(f))
  <2>1. f = Engine(d)!AnyFacts(row[d].cseRequired, opinions[d].first,
                               opinions[d].second)
    BY DEF FactsOf, Engine!AnyFacts
  <2>2. Engine(d)!Follow(Engine(d)!FormalNoticeMoves(f))
    BY <1>9, SameMoves, FollowIs
  <2> HIDE DEF f
  <2>3. QED
    BY <1>1, <1>2, <2>1, <2>2 DEF Engine!Transition
<1>10. CASE IsReleased(d)
  <2>1. \E c \in BOOLEAN :
          Engine(d)!Follow(Engine(d)!SyncMoves(row[d].status, c))
    BY <1>10, SameMoves, FollowIs DEF IsReleased
  <2>2. QED
    BY <2>1 DEF Engine!Transition
<1>11. QED
  BY <1>3, <1>4, <1>5, <1>6, <1>7, <1>8, <1>9, <1>10 DEF RowStep, Continues

(* Every write of a row's state and path choices is one transition of the  *)
(* rule engine, taken from the state the row is in: Demarche implements    *)
(* RulesMachine for each of its declarations.                              *)
THEOREM Refinement == Spec => EngineDecides
<1>1. Init => \A d \in Declarations : Engine(d)!Start
  BY DEF Init, NewRow, Engine!Start, None, Engine!None
<1>2. IInv /\ [Next]_vars =>
        [\A d \in Declarations :
           UNCHANGED Engine(d)!progress \/ Engine(d)!Transition]_vars
  BY RowSteps, RowTransition DEF IInv
<1>3. QED
  BY <1>1, <1>2, Invariance, PTL DEF Spec, EngineDecides
=============================================================================

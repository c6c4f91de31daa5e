----------------------- MODULE DemarcheJournalProofs -----------------------
(***************************************************************************)
(* What the journal of a démarche proves about its row and its files, for  *)
(* every value of the constants of Demarche: the projection follows the    *)
(* journal, the justifications and the notice answer the choices on        *)
(* record, the awaited choice is open, and the panel, the reminders, the   *)
(* exports and the transmitted report are read accordingly.                *)
(*                                                                         *)
(* The argument: a step of the system does one deed to each row (a row     *)
(* step of DemarcheProofs does not tell the guards of the routers, a deed  *)
(* does), and every deed preserves what the journal says of the row.       *)
(***************************************************************************)
EXTENDS DemarcheProofs, DemarcheReaders, WellFoundedInduction

(***************************************************************************)
(* The deeds.                                                              *)
(***************************************************************************)
SameJustifications(d) ==
  /\ row'[d].firstJustification = row[d].firstJustification
  /\ row'[d].secondJustification = row[d].secondJustification

SameFirstDeclaration(d) ==
  /\ initial'[d] = initial[d]
  /\ row'[d].currentStep = row[d].currentStep

(* The event e is recorded for d, at the next date, with its path choice.  *)
Inscribes(d, e) ==
  /\ \E events :
       /\ OneEvent(events, e)
       /\ journal'[d] = journal[d] \union Dated(events, clock[d] + 1)
  /\ clock'[d] = clock[d] + 1
  /\ row'[d].first =
       IF e.type = "path_choice" /\ e.round = 1 THEN e.value ELSE row[d].first
  /\ row'[d].second =
       IF e.type = "path_choice" /\ e.round = 2 THEN e.value ELSE row[d].second
  /\ report'[d] = report[d] /\ opinions'[d] = opinions[d]
  /\ initial'[d] = initial[d]

(* Nothing is recorded: a draft is written, a report or opinions are saved. *)
Stays(d) ==
  /\ SameProgress(d) /\ SameJustifications(d)
  /\ journal'[d] = journal[d] /\ clock'[d] = clock[d]
  /\ report'[d] \in {report[d], clock[d] + 1}
  /\ opinions[d].saved => opinions'[d].saved
  /\ Modifiable(d) \/ SameFirstDeclaration(d)

Transmits(d) ==
  /\ Inscribes(d, Ev("submit")) /\ SameJustifications(d)
  /\ Active(d) /\ row[d].status = "draft" /\ Modifiable(d)
  /\ row'[d].status \in {"awaiting_compliance_path_choice",
                         "awaiting_cse_opinion", "demarche_completed"}

(* A choice for round r, with the justification stored for the round that  *)
(* the journal is in.                                                      *)
Chooses(d, path, justification, r) ==
  /\ Inscribes(d, PathChoice(path, r)) /\ SameFirstDeclaration(d)
  /\ LET round == CurrentRound(journal[d]) IN
     /\ path \in PathsFor(justification, round)
     /\ IF round = 2
        THEN /\ row'[d].firstJustification = row[d].firstJustification
             /\ row'[d].secondJustification = justification
        ELSE /\ row'[d].firstJustification = justification
             /\ row'[d].secondJustification = row[d].secondJustification
  /\ ReplayState(FactsOf(d)) =
       IF r = 1 THEN "awaiting_compliance_path_choice"
                ELSE "awaiting_revision_choice"
  /\ row'[d].status \notin {"draft", "awaiting_compliance_path_choice",
                            "awaiting_revision_choice"}

Corrects(d) ==
  /\ Inscribes(d, RoundEv("second_declaration_submit", 2))
  /\ SameJustifications(d) /\ SameFirstDeclaration(d)
  /\ row[d].status \in {"corrective_actions_chosen", "awaiting_revision_choice"}
  /\ row'[d].status \in {"awaiting_revision_choice", "awaiting_cse_opinion",
                         "demarche_completed"}

Evaluates(d, r) ==
  /\ Inscribes(d, RoundEv("joint_evaluation_submit", r))
  /\ SameJustifications(d) /\ SameFirstDeclaration(d)
  /\ HasReport(d)
  /\ row[d].status = IF r = 1 THEN "joint_evaluation_chosen"
                              ELSE "revised_joint_evaluation_chosen"
  /\ row'[d].status \in {"awaiting_cse_opinion", "demarche_completed"}

(* An event that closes the démarche, or is recorded once it is closed.    *)
Closes(d, e) ==
  /\ Inscribes(d, e) /\ SameJustifications(d) /\ SameFirstDeclaration(d)
  /\ row'[d].status = "demarche_completed"
  /\ \/ /\ e = Ev("cse_opinion_submit")
        /\ row[d].status \in {"awaiting_cse_opinion", "demarche_completed"}
        /\ opinions[d].saved
     \/ /\ e = Ev("formal_notice_joint_evaluation_submit")
        /\ row[d].status = "demarche_completed"
        /\ FormalNoticeExposure(FactsOf(d))
     \/ /\ e = Complete
        /\ row[d].status = "awaiting_cse_opinion"

IsCancelled(d) ==
  /\ Inscribes(d, Ev("cancel"))
  /\ SameProgress(d) /\ SameJustifications(d) /\ SameFirstDeclaration(d)

(* Only an opening and a cancellation change whether the row is active.    *)
LifeStep(d) ==
  row'[d].life = row[d].life \/ GetOrCreate(d) \/ Cancel(d)

Deed(d) ==
  /\ LifeStep(d)
  /\ \/ Stays(d)
     \/ Transmits(d)
     \/ \E path \in Path, j \in GapJustification, r \in 1..2 :
          Chooses(d, path, j, r)
     \/ Corrects(d)
     \/ \E r \in 1..2 : Evaluates(d, r)
     \/ \E e \in Event : Closes(d, e)
     \/ IsCancelled(d)

(***************************************************************************)
(* Every step does a deed to every row.                                    *)
(***************************************************************************)
Untouched(d) ==
  /\ row'[d] = row[d] /\ journal'[d] = journal[d] /\ clock'[d] = clock[d]
  /\ initial'[d] = initial[d] /\ report'[d] = report[d]
  /\ opinions'[d] = opinions[d]

LEMMA UntouchedStays ==
  ASSUME NEW d \in Declarations, Untouched(d)
  PROVE  Deed(d)
BY DEF Untouched, Deed, LifeStep, Stays, SameProgress, SameJustifications,
       SameFirstDeclaration

LEMMA ProjectedKeeps ==
  ASSUME NEW r \in Row, NEW move
  PROVE  /\ Projected(r, move).life = r.life
         /\ Projected(r, move).currentStep = r.currentStep
         /\ Projected(r, move).firstJustification = r.firstJustification
         /\ Projected(r, move).secondJustification = r.secondJustification
BY DEF Projected, Row

(* A router records a move and writes the row r that it projects to.       *)
LEMMA MoveInscribes ==
  ASSUME TypeOK, NEW d \in Declarations, NEW move, NEW e \in Event,
         OneEvent(move.events, e), Record(d, move.events), UNCHANGED data,
         NEW r, row' = [row EXCEPT ![d] = r],
         r.first = ProjectedChoice(move.events, 1, row[d].first),
         r.second = ProjectedChoice(move.events, 2, row[d].second)
  PROVE  /\ row'[d] = r
         /\ Inscribes(d, e)
         /\ \A o \in Declarations \ {d} : Deed(o)
<1>1. row'[d] = r /\ \A o \in Declarations \ {d} : row'[o] = row[o]
  BY DEF TypeOK
<1>2. move.events \in SUBSET Event
  BY EventsAreEvents DEF OneEvent
<1>3. /\ journal'[d] = journal[d] \union Dated(move.events, clock[d] + 1)
      /\ \A o \in Declarations \ {d} : journal'[o] = journal[o]
  BY <1>2, RecordTyped
<1>4. /\ clock'[d] = clock[d] + 1
      /\ \A o \in Declarations \ {d} : clock'[o] = clock[o]
  BY DEF Record, TypeOK
<1>5. /\ row'[d].first =
           IF e.type = "path_choice" /\ e.round = 1 THEN e.value ELSE row[d].first
      /\ row'[d].second =
           IF e.type = "path_choice" /\ e.round = 2 THEN e.value ELSE row[d].second
  <2>1. 1 \in 1..2 /\ 2 \in 1..2
    OBVIOUS
  <2>2. QED
    BY <1>1, <2>1, ProjectedChoiceIs
<1>6. Inscribes(d, e)
  BY <1>3, <1>4, <1>5 DEF Inscribes, data
<1>7. \A o \in Declarations \ {d} : Deed(o)
  BY <1>1, <1>3, <1>4, UntouchedStays DEF Untouched, data
<1>8. QED
  BY <1>1, <1>6, <1>7

(* A step that writes columns of one row and no journal.                   *)
LEMMA ColumnsStay ==
  ASSUME TypeOK, NEW d \in Declarations, NEW r, row' = [row EXCEPT ![d] = r],
         r.status = row[d].status, r.first = row[d].first,
         r.second = row[d].second,
         r.firstJustification = row[d].firstJustification,
         r.secondJustification = row[d].secondJustification,
         r.life = row[d].life \/ GetOrCreate(d),
         UNCHANGED << journal, clock, report, opinions >>,
         \A o \in Declarations \ {d} : initial'[o] = initial[o],
         \/ Modifiable(d)
         \/ initial'[d] = initial[d] /\ r.currentStep = row[d].currentStep
  PROVE  \A o \in Declarations : Deed(o)
<1>1. row'[d] = r /\ \A o \in Declarations \ {d} : row'[o] = row[o]
  BY DEF TypeOK
<1>2. Stays(d)
  BY <1>1 DEF Stays, SameProgress, SameJustifications, SameFirstDeclaration
<1>3. \A o \in Declarations \ {d} : Deed(o)
  BY <1>1, UntouchedStays DEF Untouched
<1>4. QED
  BY <1>1, <1>2, <1>3 DEF Deed, LifeStep

(* The journal of a row is the same, before and after a reconciliation, or *)
(* it is closed.                                                           *)
LEMMA ReconcileDeed ==
  ASSUME TypeOK, NEW d \in Declarations, NEW b \in BOOLEAN, NEW answer,
         Reconcile(d, b, answer), UNCHANGED data
  PROVE  \A o \in Declarations : Deed(o)
<1> DEFINE required == CseRequired(b, answer = "yes")
<1>1. required \in BOOLEAN /\ row[d] \in Row
  BY DEF CseRequired, TypeOK
<1>2. CASE UNCHANGED << row, journal, clock >>
  BY <1>2, UntouchedStays DEF Untouched, data
<1>3. CASE /\ row' = [row EXCEPT ![d].cseRequired = required]
           /\ UNCHANGED << journal, clock >>
  <2> DEFINE r == [row[d] EXCEPT !.cseRequired = required]
  <2>1. /\ r.status = row[d].status /\ r.first = row[d].first
        /\ r.second = row[d].second /\ r.currentStep = row[d].currentStep
        /\ r.life = row[d].life
        /\ r.firstJustification = row[d].firstJustification
        /\ r.secondJustification = row[d].secondJustification
    BY <1>1 DEF Row
  <2>2. row' = [row EXCEPT ![d] = r]
    BY <1>3
  <2> HIDE DEF r
  <2>3. QED
    BY <1>3, <2>1, <2>2, ColumnsStay DEF data
<1>4. CASE \E move \in SyncMoves(row[d].status, required) :
             /\ Record(d, move.events)
             /\ row' = [row EXCEPT ![d] =
                  [Projected(@, move) EXCEPT !.cseRequired = required]]
  <2>1. PICK move \in SyncMoves(row[d].status, required) :
          /\ Record(d, move.events)
          /\ row' = [row EXCEPT ![d] =
               [Projected(row[d], move) EXCEPT !.cseRequired = required]]
    BY <1>4
  <2>2. /\ row[d].status = "awaiting_cse_opinion"
        /\ move.to = "demarche_completed" /\ OneEvent(move.events, Complete)
        /\ Proper(move)
    BY <1>1, SyncMovesAre, ProperMoves DEF Row
  <2> DEFINE p == Projected(row[d], move)
             r == [p EXCEPT !.cseRequired = required]
  <2> HIDE DEF required
  <2>3. p \in Row
    BY <1>1, <2>2, ProjectedTyped
  <2>4. /\ p.status = move.to
        /\ p.first = ProjectedChoice(move.events, 1, row[d].first)
        /\ p.second = ProjectedChoice(move.events, 2, row[d].second)
        /\ p.currentStep = row[d].currentStep /\ p.life = row[d].life
        /\ p.firstJustification = row[d].firstJustification
        /\ p.secondJustification = row[d].secondJustification
    BY <1>1, ProjectedIs, ProjectedKeeps
  <2>5. row' = [row EXCEPT ![d] = r]
    BY <2>1
  <2> HIDE DEF p
  <2>6. /\ r.status = p.status /\ r.first = p.first /\ r.second = p.second
        /\ r.currentStep = p.currentStep /\ r.life = p.life
        /\ r.firstJustification = p.firstJustification
        /\ r.secondJustification = p.secondJustification
    BY <2>3 DEF Row
  <2> HIDE DEF r
  <2>7. /\ row'[d] = r /\ Inscribes(d, Complete)
        /\ \A o \in Declarations \ {d} : Deed(o)
    <3>1. Record(d, move.events) /\ Complete \in Event
      BY <2>1, EventsAreEvents
    <3>2. /\ r.first = ProjectedChoice(move.events, 1, row[d].first)
          /\ r.second = ProjectedChoice(move.events, 2, row[d].second)
      BY <2>4, <2>6
    <3>3. QED
      BY <2>2, <2>5, <3>1, <3>2, MoveInscribes
  <2>8. Closes(d, Complete)
    BY <2>2, <2>4, <2>6, <2>7
    DEF Closes, SameJustifications, SameFirstDeclaration, Inscribes
  <2>9. LifeStep(d)
    BY <2>4, <2>6, <2>7 DEF LifeStep
  <2>10. QED
    BY <2>7, <2>8, <2>9, EventsAreEvents DEF Deed
<1>5. QED
  BY <1>2, <1>3, <1>4 DEF Reconcile

(* A router that writes nothing but the move. *)
LEMMA MoveAlone ==
  ASSUME TypeOK, NEW d \in Declarations, NEW move, Proper(move),
         NEW e \in Event, OneEvent(move.events, e), Record(d, move.events),
         UNCHANGED data, row' = [row EXCEPT ![d] = Projected(@, move)]
  PROVE  /\ Inscribes(d, e) /\ SameJustifications(d) /\ SameFirstDeclaration(d)
         /\ row'[d].status = move.to /\ LifeStep(d)
         /\ \A o \in Declarations \ {d} : Deed(o)
<1> DEFINE p == Projected(row[d], move)
<1>1. row[d] \in Row /\ row' = [row EXCEPT ![d] = p]
  BY DEF TypeOK
<1>2. /\ p.status = move.to
      /\ p.first = ProjectedChoice(move.events, 1, row[d].first)
      /\ p.second = ProjectedChoice(move.events, 2, row[d].second)
      /\ p.currentStep = row[d].currentStep /\ p.life = row[d].life
      /\ p.firstJustification = row[d].firstJustification
      /\ p.secondJustification = row[d].secondJustification
  BY <1>1, ProjectedIs, ProjectedKeeps
<1> HIDE DEF p
<1>3. /\ row'[d] = p /\ Inscribes(d, e)
      /\ \A o \in Declarations \ {d} : Deed(o)
  <2>1. /\ row' = [row EXCEPT ![d] = p]
        /\ p.first = ProjectedChoice(move.events, 1, row[d].first)
        /\ p.second = ProjectedChoice(move.events, 2, row[d].second)
    BY <1>1, <1>2
  <2>2. QED
    BY <2>1, MoveInscribes
<1>4. SameJustifications(d) /\ SameFirstDeclaration(d) /\ LifeStep(d)
  BY <1>2, <1>3 DEF SameJustifications, SameFirstDeclaration, LifeStep, data
<1>5. QED
  BY <1>2, <1>3, <1>4

(* saveCompliancePath stores the choice and its justification.             *)
LEMMA ChoiceDeed ==
  ASSUME TypeOK, NEW d \in Declarations, NEW path \in Path,
         NEW justification \in Justifications,
         SaveCompliancePath(d, path, justification)
  PROVE  \A o \in Declarations : Deed(o)
<1> DEFINE round == CurrentRound(journal[d])
           f == FactsOf(d)
<1>1. PICK move \in ChoosePathMoves(f, path) :
        /\ Record(d, move.events)
        /\ row' = [row EXCEPT ![d] =
             IF round = 2
             THEN [Projected(row[d], move) EXCEPT
                     !.secondJustification = justification]
             ELSE [Projected(row[d], move) EXCEPT
                     !.firstJustification = justification]]
  BY DEF SaveCompliancePath
<1>2. /\ path \in PathsFor(justification, round)
      /\ UNCHANGED data
      /\ row[d] \in Row /\ f \in Facts /\ Proper(move)
      /\ justification \in GapJustification
  BY FactsTyped, RouterMovesProper, DemarcheAssumption
  DEF SaveCompliancePath, TypeOK, DemarcheAssumption
<1>3. PICK r \in 1..2 :
        /\ OneEvent(move.events, PathChoice(path, r))
        /\ ReplayState(f) = IF r = 1 THEN "awaiting_compliance_path_choice"
                                     ELSE "awaiting_revision_choice"
  BY <1>2, ChoosePathMovesAre
<1>4. move.to \notin {"draft", "awaiting_compliance_path_choice",
                      "awaiting_revision_choice"}
  BY <1>2, ChoosePathMovesAre
<1> DEFINE p == Projected(row[d], move)
           p1 == [p EXCEPT !.firstJustification = justification]
           p2 == [p EXCEPT !.secondJustification = justification]
           q == IF round = 2 THEN p2 ELSE p1
<1>5. row' = [row EXCEPT ![d] = q]
  BY <1>1
<1>6. /\ p \in Row
      /\ p.status = move.to
      /\ p.first = ProjectedChoice(move.events, 1, row[d].first)
      /\ p.second = ProjectedChoice(move.events, 2, row[d].second)
      /\ p.currentStep = row[d].currentStep /\ p.life = row[d].life
      /\ p.firstJustification = row[d].firstJustification
      /\ p.secondJustification = row[d].secondJustification
  BY <1>2, ProjectedTyped, ProjectedIs, ProjectedKeeps
<1> HIDE DEF p, f, round
<1>7. /\ p1.status = p.status /\ p1.first = p.first /\ p1.second = p.second
      /\ p1.currentStep = p.currentStep /\ p1.life = p.life
      /\ p1.firstJustification = justification
      /\ p1.secondJustification = p.secondJustification
      /\ p2.status = p.status /\ p2.first = p.first /\ p2.second = p.second
      /\ p2.currentStep = p.currentStep /\ p2.life = p.life
      /\ p2.firstJustification = p.firstJustification
      /\ p2.secondJustification = justification
  BY <1>6 DEF Row
<1> HIDE DEF p1, p2
<1>8. /\ q.status = move.to /\ q.currentStep = row[d].currentStep
      /\ q.life = row[d].life
      /\ q.first = ProjectedChoice(move.events, 1, row[d].first)
      /\ q.second = ProjectedChoice(move.events, 2, row[d].second)
      /\ IF round = 2
         THEN /\ q.firstJustification = row[d].firstJustification
              /\ q.secondJustification = justification
         ELSE /\ q.firstJustification = justification
              /\ q.secondJustification = row[d].secondJustification
  BY <1>6, <1>7
<1> HIDE DEF q
<1>9. /\ row'[d] = q /\ Inscribes(d, PathChoice(path, r))
      /\ \A o \in Declarations \ {d} : Deed(o)
  <2>1. Record(d, move.events) /\ PathChoice(path, r) \in Event
    BY <1>1, EventsAreEvents
  <2>2. /\ q.first = ProjectedChoice(move.events, 1, row[d].first)
        /\ q.second = ProjectedChoice(move.events, 2, row[d].second)
        /\ OneEvent(move.events, PathChoice(path, r))
        /\ UNCHANGED data
    BY <1>2, <1>3, <1>8
  <2>3. QED
    BY <1>5, <2>1, <2>2, MoveInscribes
<1>10. Chooses(d, path, justification, r) /\ LifeStep(d)
  BY <1>2, <1>3, <1>4, <1>8, <1>9
  DEF Chooses, SameFirstDeclaration, LifeStep, data, f, round
<1>11. QED
  BY <1>2, <1>9, <1>10 DEF Deed

LEMMA SubmitDeed ==
  ASSUME TypeOK, NEW d \in Declarations, Submit(d)
  PROVE  \A o \in Declarations : Deed(o)
<1> DEFINE b == above
           h == hasCse = "yes"
           g == initial[d] # "empty"
           gap == initial[d] = "gap"
           required == CseRequired(b, h)
<1>1. PICK move \in SubmitMoves(row[d].status, b, h, g, gap) :
        /\ Record(d, move.events)
        /\ row' = [row EXCEPT ![d] =
             [Projected(row[d], move) EXCEPT !.cseRequired = required,
                                            !.currentStep = 6]]
  BY DEF Submit
<1>2. /\ Active(d) /\ Modifiable(d) /\ UNCHANGED data /\ row[d] \in Row
      /\ required \in BOOLEAN /\ Proper(move)
      /\ b \in BOOLEAN /\ h \in BOOLEAN /\ g \in BOOLEAN /\ gap \in BOOLEAN
  BY RouterMovesProper DEF Submit, TypeOK, CseRequired
<1> HIDE DEF b, h, g, gap, required
<1>3. /\ row[d].status = "draft" /\ OneEvent(move.events, Ev("submit"))
      /\ move.to \in {"awaiting_compliance_path_choice",
                      "awaiting_cse_opinion", "demarche_completed"}
  BY <1>2, SubmitMovesAre
<1> DEFINE p == Projected(row[d], move)
           q == [p EXCEPT !.cseRequired = required]
           r == [q EXCEPT !.currentStep = 6]
<1>4. row' = [row EXCEPT ![d] = r]
  BY <1>1
<1>5. /\ p \in Row
      /\ p.status = move.to /\ p.life = row[d].life
      /\ p.first = ProjectedChoice(move.events, 1, row[d].first)
      /\ p.second = ProjectedChoice(move.events, 2, row[d].second)
      /\ p.firstJustification = row[d].firstJustification
      /\ p.secondJustification = row[d].secondJustification
  BY <1>2, ProjectedTyped, ProjectedIs, ProjectedKeeps
<1> HIDE DEF p
<1>6. /\ q \in Row /\ q.life = p.life
      /\ q.status = p.status /\ q.first = p.first /\ q.second = p.second
      /\ q.firstJustification = p.firstJustification
      /\ q.secondJustification = p.secondJustification
  BY <1>2, <1>5 DEF Row
<1> HIDE DEF q
<1>7. /\ r.life = q.life /\ r.status = q.status
      /\ r.first = q.first /\ r.second = q.second
      /\ r.firstJustification = q.firstJustification
      /\ r.secondJustification = q.secondJustification
  BY <1>6 DEF Row
<1> HIDE DEF r
<1>8. /\ row'[d] = r /\ Inscribes(d, Ev("submit"))
      /\ \A o \in Declarations \ {d} : Deed(o)
  <2>1. Record(d, move.events) /\ UNCHANGED data /\ Ev("submit") \in Event
    BY <1>1, <1>2, EventsAreEvents
  <2>2. /\ r.first = ProjectedChoice(move.events, 1, row[d].first)
        /\ r.second = ProjectedChoice(move.events, 2, row[d].second)
    BY <1>5, <1>6, <1>7
  <2>3. QED
    BY <1>3, <1>4, <2>1, <2>2, MoveInscribes
<1>9. Transmits(d)
  BY <1>2, <1>3, <1>5, <1>6, <1>7, <1>8 DEF Transmits, SameJustifications
<1>10. LifeStep(d)
  BY <1>5, <1>6, <1>7, <1>8 DEF LifeStep
<1>11. QED
  BY <1>8, <1>9, <1>10 DEF Deed

LEMMA CorrectionDeed ==
  ASSUME TypeOK, NEW d \in Declarations, SubmitSecondDeclaration(d)
  PROVE  \A o \in Declarations : Deed(o)
<1> DEFINE e == RoundEv("second_declaration_submit", 2)
           gap == correction[d] = "gap"
           f == FactsOf(d)
<1>1. PICK move \in SecondDeclarationMoves(f, gap) :
        /\ Record(d, move.events)
        /\ row' = [row EXCEPT ![d] =
             [Projected(row[d], move) EXCEPT !.secondDeclarationStep = 3]]
  BY DEF SubmitSecondDeclaration
<1>2. /\ UNCHANGED data /\ row[d] \in Row /\ Proper(move) /\ gap \in BOOLEAN
      /\ f \in Facts /\ f.currentState = row[d].status
  BY FactsTyped, RouterMovesProper DEF SubmitSecondDeclaration, TypeOK, FactsOf
<1>3. /\ row[d].status \in {"corrective_actions_chosen", "awaiting_revision_choice"}
      /\ OneEvent(move.events, e)
      /\ move.to \in {"awaiting_revision_choice", "awaiting_cse_opinion",
                      "demarche_completed"}
  BY <1>2, SecondDeclarationMovesAre
<1> DEFINE p == Projected(row[d], move)
           r == [p EXCEPT !.secondDeclarationStep = 3]
<1> HIDE DEF gap, f
<1>4. row' = [row EXCEPT ![d] = r]
  BY <1>1
<1>5. /\ p \in Row
      /\ p.status = move.to
      /\ p.first = ProjectedChoice(move.events, 1, row[d].first)
      /\ p.second = ProjectedChoice(move.events, 2, row[d].second)
      /\ p.currentStep = row[d].currentStep /\ p.life = row[d].life
      /\ p.firstJustification = row[d].firstJustification
      /\ p.secondJustification = row[d].secondJustification
  BY <1>2, ProjectedTyped, ProjectedIs, ProjectedKeeps
<1> HIDE DEF p
<1>6. /\ r.status = p.status /\ r.first = p.first /\ r.second = p.second
      /\ r.currentStep = p.currentStep /\ r.life = p.life
      /\ r.firstJustification = p.firstJustification
      /\ r.secondJustification = p.secondJustification
  BY <1>5 DEF Row
<1> HIDE DEF r
<1>7. /\ row'[d] = r /\ Inscribes(d, e)
      /\ \A o \in Declarations \ {d} : Deed(o)
  <2>1. Record(d, move.events) /\ UNCHANGED data /\ e \in Event
    BY <1>1, <1>2, EventsAreEvents
  <2>2. /\ r.first = ProjectedChoice(move.events, 1, row[d].first)
        /\ r.second = ProjectedChoice(move.events, 2, row[d].second)
    BY <1>5, <1>6
  <2> HIDE DEF e
  <2>3. QED
    BY <1>3, <1>4, <2>1, <2>2, MoveInscribes
<1>8. Corrects(d)
  BY <1>2, <1>3, <1>5, <1>6, <1>7
  DEF Corrects, SameJustifications, SameFirstDeclaration, data
<1>9. LifeStep(d)
  BY <1>5, <1>6, <1>7 DEF LifeStep
<1>10. QED
  BY <1>7, <1>8, <1>9 DEF Deed

LEMMA TransmissionDeed ==
  ASSUME TypeOK, NEW d \in Declarations,
         \/ SubmitJointEvaluation(d)
         \/ FinalizeCseOpinion(d)
         \/ SubmitFormalNotice(d)
  PROVE  \A o \in Declarations : Deed(o)
<1> DEFINE f == FactsOf(d)
<1>1. f \in Facts /\ f.currentState = row[d].status
  BY FactsTyped DEF FactsOf
<1>2. CASE SubmitJointEvaluation(d)
  <2>1. PICK move \in JointEvaluationMoves(f) :
          /\ Record(d, move.events)
          /\ row' = [row EXCEPT ![d] = Projected(@, move)]
    BY <1>2 DEF SubmitJointEvaluation
  <2>2. UNCHANGED data /\ HasReport(d) /\ Proper(move)
    BY <1>2, RouterMovesProper DEF SubmitJointEvaluation
  <2>3. PICK r \in 1..2 :
          /\ OneEvent(move.events, RoundEv("joint_evaluation_submit", r))
          /\ row[d].status = IF r = 1 THEN "joint_evaluation_chosen"
                                      ELSE "revised_joint_evaluation_chosen"
    BY <1>1, JointEvaluationMovesAre
  <2>4. move.to \in {"awaiting_cse_opinion", "demarche_completed"}
    BY <1>1, JointEvaluationMovesAre
  <2> DEFINE e == RoundEv("joint_evaluation_submit", r)
  <2>5. e \in Event /\ OneEvent(move.events, e)
    BY <2>3, EventsAreEvents
  <2> HIDE DEF e, f
  <2>6. /\ Inscribes(d, e) /\ SameJustifications(d) /\ SameFirstDeclaration(d)
        /\ row'[d].status = move.to /\ LifeStep(d)
        /\ \A o \in Declarations \ {d} : Deed(o)
    BY <2>1, <2>2, <2>5, MoveAlone
  <2>7. Evaluates(d, r)
    BY <2>2, <2>3, <2>4, <2>6 DEF Evaluates, e
  <2>8. QED
    BY <2>6, <2>7 DEF Deed
<1>3. CASE FinalizeCseOpinion(d)
  <2>1. PICK move \in CseOpinionMoves(f) :
          /\ Record(d, move.events)
          /\ row' = [row EXCEPT ![d] = Projected(@, move)]
    BY <1>3 DEF FinalizeCseOpinion
  <2>2. UNCHANGED data /\ opinions[d].saved /\ Proper(move)
    BY <1>3, RouterMovesProper DEF FinalizeCseOpinion
  <2> DEFINE e == Ev("cse_opinion_submit")
  <2>3. /\ row[d].status \in {"awaiting_cse_opinion", "demarche_completed"}
        /\ move.to = "demarche_completed"
        /\ e \in Event /\ OneEvent(move.events, e)
    BY <1>1, CseOpinionMovesAre, EventsAreEvents
  <2> HIDE DEF e, f
  <2>4. /\ Inscribes(d, e) /\ SameJustifications(d) /\ SameFirstDeclaration(d)
        /\ row'[d].status = move.to /\ LifeStep(d)
        /\ \A o \in Declarations \ {d} : Deed(o)
    BY <2>1, <2>2, <2>3, MoveAlone
  <2>5. Closes(d, e)
    BY <2>2, <2>3, <2>4 DEF Closes, e
  <2>6. QED
    BY <2>3, <2>4, <2>5 DEF Deed
<1>4. CASE SubmitFormalNotice(d)
  <2>1. PICK move \in FormalNoticeMoves(f) :
          /\ Record(d, move.events)
          /\ row' = [row EXCEPT ![d] = Projected(@, move)]
    BY <1>4 DEF SubmitFormalNotice
  <2>2. UNCHANGED data /\ Proper(move) /\ FormalNoticeExposure(f)
    BY <1>4, <2>1, RouterMovesProper
    DEF SubmitFormalNotice, FormalNoticeMoves, Move
  <2> DEFINE e == Ev("formal_notice_joint_evaluation_submit")
  <2>3. /\ row[d].status = "demarche_completed"
        /\ move.to = "demarche_completed"
        /\ e \in Event /\ OneEvent(move.events, e)
    BY <1>1, FormalNoticeMovesAre, EventsAreEvents
  <2> HIDE DEF e
  <2>4. /\ Inscribes(d, e) /\ SameJustifications(d) /\ SameFirstDeclaration(d)
        /\ row'[d].status = move.to /\ LifeStep(d)
        /\ \A o \in Declarations \ {d} : Deed(o)
    BY <2>1, <2>2, <2>3, MoveAlone
  <2>5. Closes(d, e)
    BY <2>2, <2>3, <2>4 DEF Closes, e
  <2>6. QED
    BY <2>3, <2>4, <2>5 DEF Deed
<1>5. QED
  BY <1>2, <1>3, <1>4

LEMMA CancelDeed ==
  ASSUME TypeOK, NEW d \in Declarations, Cancel(d)
  PROVE  \A o \in Declarations : Deed(o)
<1> DEFINE r == [row[d] EXCEPT !.life = "cancelled"]
           events == {Ev("cancel")}
<1>1. /\ r.status = row[d].status /\ r.first = row[d].first
      /\ r.second = row[d].second /\ r.currentStep = row[d].currentStep
      /\ r.firstJustification = row[d].firstJustification
      /\ r.secondJustification = row[d].secondJustification
  BY DEF TypeOK, Row
<1>2. /\ row'[d] = r /\ \A o \in Declarations \ {d} : row'[o] = row[o]
      /\ clock'[d] = clock[d] + 1
      /\ \A o \in Declarations \ {d} : clock'[o] = clock[o]
      /\ UNCHANGED data
  BY DEF Cancel, Record, TypeOK
<1> HIDE DEF r
<1>3. /\ journal'[d] = journal[d] \union Dated(events, clock[d] + 1)
      /\ \A o \in Declarations \ {d} : journal'[o] = journal[o]
  BY EventsAreEvents, RecordTyped DEF Cancel
<1>4. OneEvent(events, Ev("cancel")) /\ Ev("cancel").type = "cancel"
  BY EventColumns DEF OneEvent
<1> HIDE DEF events
<1>5. IsCancelled(d)
  BY <1>1, <1>2, <1>3, <1>4
  DEF IsCancelled, Inscribes, SameProgress, SameJustifications,
      SameFirstDeclaration, data
<1>6. \A o \in Declarations \ {d} : Deed(o)
  BY <1>2, <1>3, UntouchedStays DEF Untouched, data
<1>7. QED
  BY <1>5, <1>6 DEF Deed, LifeStep

(* Every step of the system does one deed to every row.                    *)
LEMMA Deeds ==
  ASSUME TypeOK, AbsentIsNew, [Next]_vars
  PROVE  \A o \in Declarations : Deed(o)
<1> USE DEF data
<1>1. ASSUME NEW d \in Declarations, GetOrCreate(d)
      PROVE  \A o \in Declarations : Deed(o)
  <2> DEFINE r == [NewRow EXCEPT !.life = "active"]
  <2>1. row[d] = NewRow /\ row[d] \in Row
    BY <1>1 DEF GetOrCreate, AbsentIsNew, TypeOK
  <2>2. /\ r.status = row[d].status /\ r.first = row[d].first
        /\ r.second = row[d].second /\ r.currentStep = row[d].currentStep
        /\ r.firstJustification = row[d].firstJustification
        /\ r.secondJustification = row[d].secondJustification
    BY <2>1 DEF Row
  <2>3. row' = [row EXCEPT ![d] = r] /\ UNCHANGED << journal, clock, data >>
    BY <1>1 DEF GetOrCreate
  <2> HIDE DEF r
  <2>4. QED
    BY <1>1, <2>2, <2>3, ColumnsStay
<1>2. ASSUME NEW d \in Declarations, Modifiable(d), NEW step,
             row' = [row EXCEPT ![d].currentStep = step],
             UNCHANGED << journal, clock, report, opinions >>,
             \A o \in Declarations \ {d} : initial'[o] = initial[o]
      PROVE  \A o \in Declarations : Deed(o)
  <2> DEFINE r == [row[d] EXCEPT !.currentStep = step]
  <2>1. /\ r.status = row[d].status /\ r.first = row[d].first
        /\ r.second = row[d].second /\ r.life = row[d].life
        /\ r.firstJustification = row[d].firstJustification
        /\ r.secondJustification = row[d].secondJustification
    BY DEF TypeOK, Row
  <2>2. row' = [row EXCEPT ![d] = r]
    BY <1>2
  <2> HIDE DEF r
  <2>3. QED
    BY <1>2, <2>1, <2>2, ColumnsStay
<1>3. ASSUME NEW d \in Declarations, NEW hasChanged \in BOOLEAN,
             UpdateStep1(d, hasChanged)
      PROVE  \A o \in Declarations : Deed(o)
  <2> DEFINE step == 1
  <2>1. /\ Modifiable(d) /\ row' = [row EXCEPT ![d].currentStep = step]
        /\ UNCHANGED << journal, clock, report, opinions >>
        /\ \A o \in Declarations \ {d} : initial'[o] = initial[o]
    BY <1>3 DEF UpdateStep1, TypeOK
  <2> HIDE DEF step
  <2>2. QED
    BY <1>2, <2>1
<1>4. ASSUME NEW d \in Declarations, NEW step \in IndicatorSteps,
             UpdateIndicatorStep(d, step)
      PROVE  \A o \in Declarations : Deed(o)
  <2>1. /\ Modifiable(d) /\ row' = [row EXCEPT ![d].currentStep = step]
        /\ UNCHANGED << journal, clock, report, opinions >>
        /\ \A o \in Declarations \ {d} : initial'[o] = initial[o]
    BY <1>4 DEF UpdateIndicatorStep
  <2>2. QED
    BY <1>2, <2>1
<1>5. ASSUME NEW d \in Declarations, NEW c \in CategoryInputs,
             UpdateEmployeeCategories(d, c)
      PROVE  \A o \in Declarations : Deed(o)
  <2> DEFINE step == 5
  <2>1. /\ Modifiable(d) /\ row' = [row EXCEPT ![d].currentStep = step]
        /\ UNCHANGED << journal, clock, report, opinions >>
        /\ \A o \in Declarations \ {d} : initial'[o] = initial[o]
    BY <1>5 DEF UpdateEmployeeCategories, TypeOK
  <2> HIDE DEF step
  <2>2. QED
    BY <1>2, <2>1
<1>6. ASSUME NEW d \in Declarations, NEW c \in CategoryInputs,
             SaveCorrection(d, c)
      PROVE  \A o \in Declarations : Deed(o)
  <2> DEFINE r == [row[d] EXCEPT !.secondDeclarationStep = 2]
  <2>1. /\ r.status = row[d].status /\ r.first = row[d].first
        /\ r.second = row[d].second /\ r.currentStep = row[d].currentStep
        /\ r.life = row[d].life
        /\ r.firstJustification = row[d].firstJustification
        /\ r.secondJustification = row[d].secondJustification
    BY DEF TypeOK, Row
  <2>2. /\ row' = [row EXCEPT ![d] = r]
        /\ UNCHANGED << journal, clock, initial, report, opinions >>
    BY <1>6 DEF SaveCorrection
  <2> HIDE DEF r
  <2>3. QED
    BY <2>1, <2>2, ColumnsStay
<1>7. ASSUME NEW d \in Declarations, UploadReport(d)
      PROVE  \A o \in Declarations : Deed(o)
  <2>1. /\ UNCHANGED << row, journal, clock, initial, opinions >>
        /\ report'[d] = clock[d] + 1
        /\ \A o \in Declarations \ {d} : report'[o] = report[o]
    BY <1>7 DEF UploadReport, TypeOK
  <2>2. Stays(d)
    BY <2>1 DEF Stays, SameProgress, SameJustifications, SameFirstDeclaration
  <2>3. QED
    BY <2>1, <2>2, UntouchedStays DEF Untouched, Deed, LifeStep
<1>8. ASSUME NEW d \in Declarations, NEW o1 \in OpinionInputs,
             NEW o2 \in OpinionInputs \union {None}, SaveOpinions(d, o1, o2)
      PROVE  \A o \in Declarations : Deed(o)
  <2>1. /\ UNCHANGED << row, journal, clock, initial, report >>
        /\ opinions'[d].saved
        /\ \A o \in Declarations \ {d} : opinions'[o] = opinions[o]
    BY <1>8 DEF SaveOpinions, TypeOK
  <2>2. Stays(d)
    BY <2>1 DEF Stays, SameProgress, SameJustifications, SameFirstDeclaration
  <2>3. QED
    BY <2>1, <2>2, UntouchedStays DEF Untouched, Deed, LifeStep
<1>9. ASSUME \/ \E d \in Declarations : UploadFormalNotice(d)
             \/ \E answer \in Answers : ResolveHasCse(answer)
             \/ ImportGip
             \/ UNCHANGED vars
      PROVE  \A o \in Declarations : Deed(o)
  <2>1. UNCHANGED << row, journal, clock, initial, report, opinions >>
    BY <1>9 DEF UploadFormalNotice, ResolveHasCse, ImportGip, vars
  <2>2. QED
    BY <2>1, UntouchedStays DEF Untouched
<1>10. ASSUME NEW d \in Declarations, ReconcileYear(d)
       PROVE  \A o \in Declarations : Deed(o)
  BY <1>10, ReconcileDeed DEF ReconcileYear, TypeOK
<1>11. ASSUME NEW answer \in Answers, UpdateHasCse(answer)
       PROVE  \A o \in Declarations : Deed(o)
  <2>1. UNCHANGED data /\ above \in BOOLEAN
    BY <1>11 DEF UpdateHasCse, TypeOK
  <2>2. CASE UNCHANGED << row, journal, clock >>
    BY <2>1, <2>2, UntouchedStays DEF Untouched
  <2>3. CASE \E d \in Declarations : Active(d) /\ Reconcile(d, above, answer)
    BY <2>1, <2>3, ReconcileDeed
  <2>4. QED
    BY <1>11, <2>2, <2>3 DEF UpdateHasCse
<1>12. ASSUME NEW d \in Declarations, NEW path \in Path, NEW j \in Justifications,
              SaveCompliancePath(d, path, j)
       PROVE  \A o \in Declarations : Deed(o)
  BY <1>12, ChoiceDeed
<1>13. QED
  BY <1>1, <1>3, <1>4, <1>5, <1>6, <1>7, <1>8, <1>9, <1>10, <1>11, <1>12,
     SubmitDeed, CorrectionDeed, TransmissionDeed, CancelDeed DEF Next

(***************************************************************************)
(* The journal after an inscription.                                       *)
(***************************************************************************)
(* n is the entry of e, and all that is new but a closing entry.           *)
Enters(d, n, e) ==
  /\ n.type = e.type /\ n.value = e.value /\ n.round = e.round
  /\ n.at = clock[d] + 1
  /\ n \in journal'[d]
  /\ journal[d] \subseteq journal'[d]
  /\ \A y \in journal'[d] \ journal[d] :
       \/ y = n
       \/ y.type = "demarche_complete" /\ y.at = clock[d] + 1

LEMMA Inscribed ==
  ASSUME NEW d, NEW e \in Event, Inscribes(d, e)
  PROVE  \E n : Enters(d, n, e)
<1> DEFINE t == clock[d] + 1
           dated(x) == [type |-> x.type, value |-> x.value, round |-> x.round,
                        at |-> t]
<1>1. PICK events : /\ OneEvent(events, e)
                    /\ journal'[d] = journal[d] \union Dated(events, t)
  BY DEF Inscribes
<1>2. /\ \A x \in events : dated(x) \in Dated(events, t)
      /\ \A y \in Dated(events, t) : \E x \in events : y = dated(x)
      /\ \A x : /\ dated(x).type = x.type /\ dated(x).round = x.round
                /\ dated(x).value = x.value /\ dated(x).at = t
  BY DEF Dated
<1>3. e \in events /\ \A x \in events : x = e \/ x.type = "demarche_complete"
  BY <1>1 DEF OneEvent, Complete, Ev
<1> HIDE DEF dated
<1> DEFINE n == dated(e)
<1>4. /\ n \in Dated(events, t)
      /\ n.type = e.type /\ n.round = e.round /\ n.value = e.value /\ n.at = t
      /\ \A y \in Dated(events, t) :
           y = n \/ (y.type = "demarche_complete" /\ y.at = t)
  BY <1>2, <1>3
<1> HIDE DEF n
<1>5. Enters(d, n, e)
  BY <1>1, <1>4 DEF Enters
<1>6. QED
  BY <1>5

(***************************************************************************)
(* What the journal says of the row and of the files of a declaration.     *)
(***************************************************************************)
Closed(s)  == s = "demarche_completed"
Settled(s) == s \in {"awaiting_cse_opinion", "demarche_completed"}

(* An entry was written by now, and what it transmitted still stands.      *)
Stands(d, e) ==
  LET s == row[d].status IN
  /\ e.at <= clock[d]
  /\ e.type = "submit" => s # "draft"
  /\ e.type = "cse_opinion_submit" => Closed(s) /\ opinions[d].saved
  /\ e.type = "formal_notice_joint_evaluation_submit" =>
       /\ Closed(s)
       /\ \/ row[d].second = "justify"
          \/ row[d].second = None /\ row[d].first = "justify"
  /\ e.type = "joint_evaluation_submit" =>
       /\ Settled(s) /\ report[d] > 0
       /\ \/ e.round = 1 /\ row[d].first = "joint_evaluation"
          \/ e.round = 2 /\ row[d].second = "joint_evaluation"

Chronicle(d) ==
  /\ \A e \in journal[d] : Stands(d, e)
  /\ row[d].status = "draft" \/ Recorded(journal[d], "submit")

(* A choice is taken, or taken back, in its round and while nothing that   *)
(* depends on it was transmitted.                                          *)
LEMMA ChoiceIsOpen ==
  ASSUME NEW d, ConsistentRow(d), Chronicle(d), NEW path, NEW j,
         NEW r \in 1..2, Chooses(d, path, j, r)
  PROVE  /\ row[d].status \notin {"draft", "demarche_completed"}
         /\ \A e \in journal[d] :
              e.type \notin {"joint_evaluation_submit", "cse_opinion_submit",
                             "formal_notice_joint_evaluation_submit"}
         /\ CurrentRound(journal[d]) = r
         /\ IF r = 1 THEN row[d].second = None
                     ELSE row[d].first = "corrective_action"
<1> DEFINE f == FactsOf(d)
<1>1. f.currentState = row[d].status /\ f.first = row[d].first
      /\ f.second = row[d].second
  BY DEF FactsOf
<1>2. ReplayState(f) = IF r = 1 THEN "awaiting_compliance_path_choice"
                                ELSE "awaiting_revision_choice"
  BY DEF Chooses
<1> HIDE DEF f
<1>3. CASE r = 1
  <2>1. \/ row[d].status \in {"awaiting_compliance_path_choice",
                             "corrective_actions_chosen",
                             "joint_evaluation_chosen"}
        \/ row[d].status = "awaiting_cse_opinion" /\ row[d].first = "justify"
    BY <1>1, <1>2, <1>3, ReplayStateIs
  <2>2. ~Second(journal[d]) /\ row[d].second = None
    BY <2>1 DEF ConsistentRow, Consistent
  <2>3. QED
    BY <1>3, <2>1, <2>2
    DEF Chronicle, Stands, Settled, Closed, None, CurrentRound, Second
<1>4. CASE r = 2
  <2>1. \/ row[d].status \in {"awaiting_revision_choice",
                             "revised_joint_evaluation_chosen"}
        \/ row[d].status = "awaiting_cse_opinion" /\ row[d].second = "justify"
    BY <1>1, <1>2, <1>4, ReplayStateIs
  <2>2. Second(journal[d]) /\ row[d].first = "corrective_action"
    BY <2>1 DEF ConsistentRow, Consistent, None
  <2>3. QED
    BY <1>4, <2>1, <2>2
    DEF Chronicle, Stands, Settled, Closed, None, CurrentRound, Second
<1>5. QED
  BY <1>3, <1>4

(* Dates are numbers, and everything recorded by now stays before what is  *)
(* recorded next.                                                          *)
LEMMA DatesTyped ==
  ASSUME TypeOK, NEW d \in Declarations
  PROVE  /\ clock[d] \in Nat /\ report[d] \in Nat
         /\ \A e \in journal[d] : e.at \in Nat /\ e.round \in 0..2
BY DemarcheAssumption DEF TypeOK, JournalEntry, DemarcheAssumption

LEMMA ChronicleStep ==
  ASSUME TypeOK, NEW d \in Declarations, ConsistentRow(d), Chronicle(d), Deed(d)
  PROVE  Chronicle(d)'
<1> DEFINE c == clock[d]
<1>1. c \in Nat /\ report[d] \in Nat /\ \A e \in journal[d] : e.at \in Nat
  BY DatesTyped
<1>2. /\ \A e \in journal[d] : Stands(d, e)
      /\ row[d].status = "draft" \/ Recorded(journal[d], "submit")
  BY DEF Chronicle
<1>3. Consistent(row[d].status, row[d].first, row[d].second, journal[d])
  BY DEF ConsistentRow
<1>4. CASE Stays(d)
  <2>1. /\ journal'[d] = journal[d] /\ clock'[d] = clock[d]
        /\ row'[d].status = row[d].status /\ row'[d].first = row[d].first
        /\ row'[d].second = row[d].second
        /\ report'[d] > 0 \/ report'[d] = report[d]
        /\ opinions[d].saved => opinions'[d].saved
    BY <1>1, <1>4 DEF Stays, SameProgress
  <2>2. ASSUME NEW e \in journal[d]  PROVE Stands(d, e)'
    BY <1>2, <2>1, <2>2 DEF Stands, Settled, Closed
  <2>3. QED
    BY <1>2, <2>1, <2>2 DEF Chronicle, Recorded
<1>5. ASSUME NEW x \in Event, Inscribes(d, x), NEW n, Enters(d, n, x),
             row'[d].status # "draft" \/ row'[d].status = row[d].status,
             Stands(d, n)',
             \A e \in journal[d] : Stands(d, e)',
             row[d].status = "draft" =>
               row'[d].status = "draft" \/ x.type = "submit"
      PROVE  Chronicle(d)'
  <2>1. clock'[d] = c + 1
    BY <1>5 DEF Inscribes
  <2>2. ASSUME NEW y \in journal'[d]  PROVE Stands(d, y)'
    <3>1. CASE y \in journal[d]
      BY <1>5, <3>1
    <3>2. CASE y = n
      BY <1>5, <3>2
    <3>3. CASE y.type = "demarche_complete" /\ y.at = c + 1
      BY <1>1, <2>1, <3>3 DEF Stands
    <3>4. QED
      BY <1>5, <3>1, <3>2, <3>3 DEF Enters
  <2>3. row'[d].status = "draft" \/ Recorded(journal'[d], "submit")
    BY <1>2, <1>5 DEF Enters, Recorded
  <2>4. QED
    BY <2>2, <2>3 DEF Chronicle
<1>6. ASSUME NEW x \in Event, Inscribes(d, x), NEW n, Enters(d, n, x),
             x.type # "path_choice"
      PROVE  /\ clock'[d] = c + 1 /\ n.at <= clock'[d] /\ n.type = x.type
             /\ n.round = x.round
             /\ row'[d].first = row[d].first /\ row'[d].second = row[d].second
             /\ report'[d] = report[d] /\ opinions'[d] = opinions[d]
             /\ \A e \in journal[d] : e.at <= clock'[d]
             /\ (\/ row'[d].status = row[d].status
                 \/ Closed(row'[d].status)
                 \/ row[d].status \notin {"awaiting_cse_opinion",
                                          "demarche_completed"}
                    /\ row'[d].status # "draft")
                => \A e \in journal[d] : Stands(d, e)'
  <2>1. /\ clock'[d] = c + 1 /\ n.at = c + 1 /\ n.type = x.type
        /\ n.round = x.round
        /\ row'[d].first = row[d].first /\ row'[d].second = row[d].second
        /\ report'[d] = report[d] /\ opinions'[d] = opinions[d]
    BY <1>6 DEF Inscribes, Enters
  <2>2. ASSUME NEW e \in journal[d]
        PROVE  e.at <= clock'[d]
    BY <1>1, <1>2, <2>1, <2>2 DEF Stands
  <2>3. ASSUME NEW e \in journal[d],
               \/ row'[d].status = row[d].status
               \/ Closed(row'[d].status)
               \/ row[d].status \notin {"awaiting_cse_opinion",
                                        "demarche_completed"}
                  /\ row'[d].status # "draft"
        PROVE  Stands(d, e)'
    <3>1. Stands(d, e) /\ e.at <= clock'[d]
      BY <1>2, <2>2, <2>3
    <3>2. QED
      BY <2>1, <2>3, <3>1 DEF Stands, Settled, Closed
  <2>4. QED
    BY <1>1, <2>1, <2>2, <2>3
<1>7. CASE Transmits(d)
  <2> DEFINE x == Ev("submit")
  <2>1. x \in Event /\ x.type = "submit" /\ Inscribes(d, x)
    BY <1>7, EventsAreEvents, EventColumns DEF Transmits
  <2> HIDE DEF x
  <2>2. PICK n : Enters(d, n, x)
    BY <2>1, Inscribed
  <2>3. row[d].status = "draft" /\ row'[d].status # "draft"
    BY <1>7 DEF Transmits
  <2>4. \A e \in journal[d] : Stands(d, e)'
    BY <1>6, <2>1, <2>2, <2>3
  <2>5. Stands(d, n)'
    BY <1>6, <2>1, <2>2, <2>3 DEF Stands
  <2>6. QED
    BY <1>5, <2>1, <2>2, <2>3, <2>4, <2>5
<1>8. ASSUME NEW path \in Path, NEW j \in GapJustification, NEW r \in 1..2,
             Chooses(d, path, j, r)
      PROVE  Chronicle(d)'
  <2> DEFINE x == PathChoice(path, r)
  <2>1. x \in Event /\ x.type = "path_choice" /\ Inscribes(d, x)
    BY <1>8, EventsAreEvents, EventColumns DEF Chooses
  <2> HIDE DEF x
  <2>2. PICK n : Enters(d, n, x)
    BY <2>1, Inscribed
  <2>3. /\ row[d].status # "draft" /\ row'[d].status # "draft"
        /\ \A e \in journal[d] :
             e.type \notin {"joint_evaluation_submit", "cse_opinion_submit",
                            "formal_notice_joint_evaluation_submit"}
    BY <1>8, ChoiceIsOpen DEF Chooses
  <2>4. /\ clock'[d] = c + 1 /\ n.at = c + 1 /\ n.type = "path_choice"
        /\ \A e \in journal[d] : e.at <= c
    BY <1>2, <2>1, <2>2 DEF Inscribes, Enters, Stands
  <2>5. \A e \in journal[d] : Stands(d, e)'
    BY <1>1, <2>3, <2>4 DEF Stands
  <2>6. Stands(d, n)'
    BY <1>1, <2>4 DEF Stands
  <2>7. QED
    BY <1>5, <2>1, <2>2, <2>3, <2>5, <2>6
<1>9. CASE Corrects(d)
  <2> DEFINE x == RoundEv("second_declaration_submit", 2)
  <2>1. x \in Event /\ x.type = "second_declaration_submit" /\ Inscribes(d, x)
    BY <1>9, EventsAreEvents, EventColumns DEF Corrects
  <2> HIDE DEF x
  <2>2. PICK n : Enters(d, n, x)
    BY <2>1, Inscribed
  <2>3. /\ row[d].status \in {"corrective_actions_chosen", "awaiting_revision_choice"}
        /\ row'[d].status # "draft"
    BY <1>9 DEF Corrects
  <2>4. \A e \in journal[d] : Stands(d, e)'
    BY <1>6, <2>1, <2>2, <2>3
  <2>5. Stands(d, n)'
    BY <1>6, <2>1, <2>2 DEF Stands
  <2>6. QED
    BY <1>5, <2>1, <2>2, <2>3, <2>4, <2>5
<1>10. ASSUME NEW r \in 1..2, Evaluates(d, r)
       PROVE  Chronicle(d)'
  <2> DEFINE x == RoundEv("joint_evaluation_submit", r)
  <2>1. /\ x \in Event /\ x.type = "joint_evaluation_submit" /\ x.round = r
        /\ Inscribes(d, x)
    BY <1>10, EventsAreEvents, EventColumns DEF Evaluates
  <2> HIDE DEF x
  <2>2. PICK n : Enters(d, n, x)
    BY <2>1, Inscribed
  <2>3. /\ row[d].status = IF r = 1 THEN "joint_evaluation_chosen"
                                    ELSE "revised_joint_evaluation_chosen"
        /\ Settled(row'[d].status) /\ report[d] > 0
    BY <1>10 DEF Evaluates, Settled, HasReport
  <2>4. IF r = 1 THEN row[d].first = "joint_evaluation"
                 ELSE row[d].second = "joint_evaluation"
    BY <1>3, <2>3 DEF Consistent
  <2>5. row[d].status # "draft" /\ row'[d].status # "draft"
    BY <2>3 DEF Settled
  <2>6. \A e \in journal[d] : Stands(d, e)'
    BY <1>6, <2>1, <2>2, <2>3, <2>5
  <2>7. Stands(d, n)'
    BY <1>6, <2>1, <2>2, <2>3, <2>4 DEF Stands
  <2>8. QED
    BY <1>5, <2>1, <2>2, <2>5, <2>6, <2>7
<1>11. ASSUME NEW x \in Event, Closes(d, x)
       PROVE  Chronicle(d)'
  <2>1. /\ Inscribes(d, x) /\ Closed(row'[d].status)
        /\ row[d].status # "draft" /\ row'[d].status # "draft"
        /\ \/ x.type = "demarche_complete"
           \/ x.type = "cse_opinion_submit" /\ opinions[d].saved
           \/ /\ x.type = "formal_notice_joint_evaluation_submit"
              /\ FormalNoticeExposure(FactsOf(d))
    BY <1>11, EventColumns DEF Closes, Closed
  <2>2. PICK n : Enters(d, n, x)
    BY <2>1, Inscribed
  <2>3. x.type # "path_choice"
    BY <2>1
  <2>4. FormalNoticeExposure(FactsOf(d)) =>
          \/ row[d].second = "justify"
          \/ row[d].second = None /\ row[d].first = "justify"
    BY DEF FormalNoticeExposure, FactsOf
  <2>5. \A e \in journal[d] : Stands(d, e)'
    BY <1>6, <2>1, <2>2, <2>3
  <2>6. Stands(d, n)'
    BY <1>6, <2>1, <2>2, <2>3, <2>4 DEF Stands
  <2>7. QED
    BY <1>5, <2>1, <2>2, <2>5, <2>6
<1>12. CASE IsCancelled(d)
  <2> DEFINE x == Ev("cancel")
  <2>1. /\ x \in Event /\ x.type = "cancel" /\ Inscribes(d, x)
        /\ row'[d].status = row[d].status
    BY <1>12, EventsAreEvents, EventColumns DEF IsCancelled, SameProgress
  <2> HIDE DEF x
  <2>2. PICK n : Enters(d, n, x)
    BY <2>1, Inscribed
  <2>3. \A e \in journal[d] : Stands(d, e)'
    BY <1>6, <2>1, <2>2
  <2>4. Stands(d, n)'
    BY <1>6, <2>1, <2>2 DEF Stands
  <2>5. QED
    BY <1>5, <2>1, <2>2, <2>3, <2>4
<1>13. QED
  BY <1>4, <1>7, <1>8, <1>9, <1>10, <1>11, <1>12 DEF Deed

(***************************************************************************)
(* The choice columns and their justifications follow the journal.         *)
(***************************************************************************)
FollowsJournal(d, r) ==
  \/ ChoiceColumn(d, r) = None /\ Choices(d, r) = {}
  \/ \E e \in Choices(d, r) :
       /\ ChoiceColumn(d, r) = e.value
       /\ \A o \in Choices(d, r) : o.at <= e.at

Justified(d) ==
  /\ row[d].first # None
       => row[d].first \in PathsFor(row[d].firstJustification, 1)
  /\ row[d].second # None
       => row[d].second \in PathsFor(row[d].secondJustification, 2)
  /\ row[d].first = None  => row[d].firstJustification = None
  /\ row[d].second = None => row[d].secondJustification = None

(* A deed records a choice, or leaves the choices on record as they are.   *)
LEMMA ChosenOrKept ==
  ASSUME NEW d \in Declarations, Deed(d)
  PROVE  \/ \E path \in Path, j \in GapJustification, r \in 1..2 :
              Chooses(d, path, j, r)
         \/ /\ row'[d].first = row[d].first /\ row'[d].second = row[d].second
            /\ SameJustifications(d)
            /\ \A e \in journal'[d] : e.type = "path_choice" => e \in journal[d]
            /\ journal[d] \subseteq journal'[d]
<1>1. ASSUME NEW e \in Event, Inscribes(d, e), e.type # "path_choice"
      PROVE  /\ row'[d].first = row[d].first /\ row'[d].second = row[d].second
             /\ \A y \in journal'[d] : y.type = "path_choice" => y \in journal[d]
             /\ journal[d] \subseteq journal'[d]
  <2>1. PICK n : Enters(d, n, e)
    BY <1>1, Inscribed
  <2>2. QED
    BY <1>1, <2>1 DEF Inscribes, Enters
<1>2. CASE Stays(d)
  BY <1>2 DEF Stays, SameProgress
<1>3. CASE Transmits(d)
  <2> DEFINE x == Ev("submit")
  <2>1. x \in Event /\ x.type # "path_choice" /\ Inscribes(d, x)
        /\ SameJustifications(d)
    BY <1>3, EventsAreEvents, EventColumns DEF Transmits
  <2> HIDE DEF x
  <2>2. QED
    BY <1>1, <2>1
<1>4. CASE Corrects(d)
  <2> DEFINE x == RoundEv("second_declaration_submit", 2)
  <2>1. x \in Event /\ x.type # "path_choice" /\ Inscribes(d, x)
        /\ SameJustifications(d)
    BY <1>4, EventsAreEvents, EventColumns DEF Corrects
  <2> HIDE DEF x
  <2>2. QED
    BY <1>1, <2>1
<1>5. ASSUME NEW r \in 1..2, Evaluates(d, r)
      PROVE  /\ row'[d].first = row[d].first /\ row'[d].second = row[d].second
             /\ SameJustifications(d)
             /\ \A e \in journal'[d] : e.type = "path_choice" => e \in journal[d]
             /\ journal[d] \subseteq journal'[d]
  <2> DEFINE x == RoundEv("joint_evaluation_submit", r)
  <2>1. x \in Event /\ x.type # "path_choice" /\ Inscribes(d, x)
        /\ SameJustifications(d)
    BY <1>5, EventsAreEvents, EventColumns DEF Evaluates
  <2> HIDE DEF x
  <2>2. QED
    BY <1>1, <2>1
<1>6. ASSUME NEW x \in Event, Closes(d, x)
      PROVE  /\ row'[d].first = row[d].first /\ row'[d].second = row[d].second
             /\ SameJustifications(d)
             /\ \A e \in journal'[d] : e.type = "path_choice" => e \in journal[d]
             /\ journal[d] \subseteq journal'[d]
  <2>1. x.type # "path_choice" /\ Inscribes(d, x) /\ SameJustifications(d)
    BY <1>6, EventColumns DEF Closes
  <2>2. QED
    BY <1>1, <2>1
<1>7. CASE IsCancelled(d)
  <2> DEFINE x == Ev("cancel")
  <2>1. x \in Event /\ x.type # "path_choice" /\ Inscribes(d, x)
        /\ SameJustifications(d)
    BY <1>7, EventsAreEvents, EventColumns DEF IsCancelled
  <2> HIDE DEF x
  <2>2. QED
    BY <1>1, <2>1
<1>8. QED
  BY <1>2, <1>3, <1>4, <1>5, <1>6, <1>7 DEF Deed

LEMMA ProjectionStep ==
  ASSUME TypeOK, NEW d \in Declarations, ConsistentRow(d), Chronicle(d),
         Deed(d), NEW r \in 1..2, FollowsJournal(d, r)
  PROVE  FollowsJournal(d, r)'
<1>1. ASSUME ChoiceColumn(d, r)' = ChoiceColumn(d, r),
             Choices(d, r)' = Choices(d, r)
      PROVE  FollowsJournal(d, r)'
  BY <1>1 DEF FollowsJournal
<1>2. ASSUME NEW path \in Path, NEW j \in GapJustification, NEW i \in 1..2,
             Chooses(d, path, j, i)
      PROVE  FollowsJournal(d, r)'
  <2> DEFINE x == PathChoice(path, i)
  <2>1. /\ x \in Event /\ x.type = "path_choice" /\ x.value = path
        /\ x.round = i /\ Inscribes(d, x)
    BY <1>2, EventsAreEvents, EventColumns DEF Chooses
  <2> HIDE DEF x
  <2>2. PICK n : Enters(d, n, x)
    BY <2>1, Inscribed
  <2>3. Choices(d, r)' = IF r = i THEN Choices(d, r) \union {n} ELSE Choices(d, r)
    BY <2>1, <2>2 DEF Choices, Enters
  <2>4. ChoiceColumn(d, r)' = IF r = i THEN path ELSE ChoiceColumn(d, r)
    BY <2>1 DEF ChoiceColumn, Inscribes
  <2>5. CASE r # i
    BY <1>1, <2>3, <2>4, <2>5
  <2>6. CASE r = i
    <3>1. \A o \in Choices(d, r) : o.at <= n.at
      BY <2>2, DatesTyped DEF Choices, Chronicle, Stands, Enters
    <3>2. n.at \in Nat /\ n.value = path
      BY <2>1, <2>2, DatesTyped DEF Enters
    <3>3. QED
      BY <2>3, <2>4, <2>6, <3>1, <3>2 DEF FollowsJournal
  <2>7. QED
    BY <2>5, <2>6
<1>3. ASSUME row'[d].first = row[d].first, row'[d].second = row[d].second,
             \A e \in journal'[d] : e.type = "path_choice" => e \in journal[d],
             journal[d] \subseteq journal'[d]
      PROVE  FollowsJournal(d, r)'
  <2>1. ChoiceColumn(d, r)' = ChoiceColumn(d, r)
    BY <1>3 DEF ChoiceColumn
  <2>2. Choices(d, r)' = Choices(d, r)
    BY <1>3 DEF Choices
  <2>3. QED
    BY <1>1, <2>1, <2>2
<1>4. QED
  BY <1>2, <1>3, ChosenOrKept

LEMMA JustifiedStep ==
  ASSUME TypeOK, NEW d \in Declarations, ConsistentRow(d), Chronicle(d),
         Deed(d), Justified(d)
  PROVE  Justified(d)'
<1>1. ASSUME NEW path \in Path, NEW j \in GapJustification, NEW r \in 1..2,
             Chooses(d, path, j, r)
      PROVE  Justified(d)'
  <2>1. /\ PathChoice(path, r).type = "path_choice"
        /\ PathChoice(path, r).value = path /\ PathChoice(path, r).round = r
    BY EventColumns
  <2>2. /\ row'[d].first = IF r = 1 THEN path ELSE row[d].first
        /\ row'[d].second = IF r = 2 THEN path ELSE row[d].second
    BY <1>1, <2>1 DEF Chooses, Inscribes
  <2>3. /\ path \in PathsFor(j, r)
        /\ IF r = 2
           THEN /\ row'[d].firstJustification = row[d].firstJustification
                /\ row'[d].secondJustification = j
           ELSE /\ row'[d].firstJustification = j
                /\ row'[d].secondJustification = row[d].secondJustification
    BY <1>1, ChoiceIsOpen DEF Chooses
  <2>4. path # None
    BY DEF Path, None
  <2>5. QED
    BY <2>2, <2>3, <2>4 DEF Justified
<1>2. ASSUME row'[d].first = row[d].first, row'[d].second = row[d].second,
             SameJustifications(d)
      PROVE  Justified(d)'
  BY <1>2 DEF Justified, SameJustifications
<1>3. QED
  BY <1>1, <1>2, ChosenOrKept

(***************************************************************************)
(* The rows of one company and year follow each other: every row below one *)
(* that was opened is cancelled, so at most one is active, the last opened. *)
(***************************************************************************)
OneLine ==
  \A d, e \in Declarations :
    d < e /\ row[e].life # "absent" => row[d].life = "cancelled"

LEMMA OneLineStep ==
  ASSUME TypeOK, OneLine, \A d \in Declarations : LifeStep(d)
  PROVE  OneLine'
<1>1. row \in [Declarations -> Row]
      /\ \A d \in Declarations : row[d].life \in {"absent", "active", "cancelled"}
  BY DEF TypeOK, Row
<1>2. CASE \E o \in Declarations : GetOrCreate(o)
  <2>1. PICK o \in Declarations : GetOrCreate(o)
    BY <1>2
  <2>2. /\ row[o].life = "absent"
        /\ \A d \in Declarations : d < o => row[d].life = "cancelled"
    BY <1>1, <2>1 DEF GetOrCreate, Active
  <2>3. \A d \in Declarations \ {o} : row'[d] = row[d]
    BY <1>1, <2>1 DEF GetOrCreate
  <2>4. ASSUME NEW d \in Declarations, NEW e \in Declarations,
               d < e, row'[e].life # "absent"
        PROVE  row'[d].life = "cancelled"
    <3>1. d # e
      BY <2>4 DEF Declarations
    <3>2. CASE e = o
      BY <2>2, <2>3, <2>4, <3>1, <3>2
    <3>3. CASE e # o
      <4>1. row[d].life = "cancelled"
        BY <2>3, <2>4, <3>3 DEF OneLine
      <4>2. QED
        BY <2>2, <2>3, <4>1
    <3>4. QED
      BY <3>2, <3>3
  <2>5. QED
    BY <2>4 DEF OneLine
<1>3. CASE \A d \in Declarations : row'[d].life = row[d].life \/ Cancel(d)
  <2>1. ASSUME NEW d \in Declarations
        PROVE  \/ row'[d].life = row[d].life
               \/ row[d].life = "active" /\ row'[d].life = "cancelled"
    <3>1. CASE Cancel(d)
      <4>1. row'[d] = [row[d] EXCEPT !.life = "cancelled"] /\ row[d] \in Row
        BY <1>1, <3>1 DEF Cancel
      <4>2. QED
        BY <3>1, <4>1 DEF Cancel, Active, Row
    <3>2. QED
      BY <1>3, <3>1
  <2>2. QED
    BY <2>1 DEF OneLine
<1>4. QED
  BY <1>2, <1>3 DEF LifeStep

(***************************************************************************)
(* The inductive invariant of the journal.                                 *)
(***************************************************************************)
JournalInv ==
  /\ IInv
  /\ OneLine
  /\ \A d \in Declarations :
       /\ Chronicle(d)
       /\ \A r \in 1..2 : FollowsJournal(d, r)
       /\ Justified(d)

LEMMA JournalInvInit == Init => JournalInv
<1> SUFFICES ASSUME Init  PROVE JournalInv
  OBVIOUS
<1>1. IInv
  BY InvInit
<1>2. \A d \in Declarations : row[d] = NewRow /\ journal[d] = {}
  BY DEF Init
<1>3. /\ NewRow.life = "absent" /\ NewRow.status = "draft"
      /\ NewRow.first = None /\ NewRow.second = None
      /\ NewRow.firstJustification = None /\ NewRow.secondJustification = None
  BY DEF NewRow
<1>4. QED
  BY <1>1, <1>2, <1>3
  DEF JournalInv, OneLine, Chronicle, FollowsJournal, ChoiceColumn, Choices,
      Justified

LEMMA JournalInvStep == JournalInv /\ [Next]_vars => JournalInv'
<1> SUFFICES ASSUME JournalInv, [Next]_vars  PROVE JournalInv'
  OBVIOUS
<1>1. /\ TypeOK /\ AbsentIsNew /\ IInv /\ OneLine
      /\ \A d \in Declarations : ConsistentRow(d) /\ Chronicle(d) /\ Justified(d)
      /\ \A d \in Declarations, r \in 1..2 : FollowsJournal(d, r)
  BY DEF JournalInv, IInv
<1>2. \A d \in Declarations : Deed(d)
  BY <1>1, Deeds
<1>3. OneLine'
  BY <1>1, <1>2, OneLineStep DEF Deed
<1>4. ASSUME NEW d \in Declarations
      PROVE  /\ Chronicle(d)' /\ Justified(d)'
             /\ \A r \in 1..2 : FollowsJournal(d, r)'
  BY <1>1, <1>2, ChronicleStep, JustifiedStep, ProjectionStep
<1>5. QED
  BY <1>1, <1>3, <1>4, InvStep DEF JournalInv

THEOREM JournalInvariance == Spec => []JournalInv
BY JournalInvInit, JournalInvStep, PTL DEF Spec

(***************************************************************************)
(* The theorems: what the row says of the journal.                         *)
(***************************************************************************)
(* Each path-choice column of a row is the newest choice of its round in   *)
(* the journal, and is empty when there is none, however often the choices *)
(* are revised: the projection that the routers write never drifts from    *)
(* the events that they record.                                            *)
THEOREM Projection == Spec => []ProjectionFollowsJournal
<1>1. JournalInv => ProjectionFollowsJournal
  BY DEF JournalInv, FollowsJournal, ProjectionFollowsJournal
<1>2. QED
  BY <1>1, JournalInvariance, PTL

(* The justification stored for a round allows the path stored for it: the *)
(* round that saveCompliancePath reads in the journal is always the round  *)
(* of the state that the engine replays the choice from.                   *)
THEOREM Justification == Spec => []JustificationMatchesPath
<1>1. JournalInv => JustificationMatchesPath
  BY DEF JournalInv, Justified, JustificationMatchesPath
<1>2. QED
  BY <1>1, JournalInvariance, PTL

(* A démarche waits for the CSE or is closed only when what its choices    *)
(* call for was transmitted.                                               *)
THEOREM Earned == Spec => []CompletionEarned
<1>1. IInv => CompletionEarned
  BY ConsistencyIs DEF IInv
<1>2. QED
  BY <1>1, Invariance, PTL

(* A state that waits for a path choice never comes with an event that     *)
(* locks it: the evaluation that would lock a choice is recorded only for  *)
(* the path that was chosen, and settles the démarche.                     *)
THEOREM OpenChoice == Spec => []AwaitedChoiceIsOpen
<1>1. ASSUME JournalInv, NEW d \in Declarations, NEW r \in 1..2,
             row[d].status \in {"awaiting_compliance_path_choice",
                                "awaiting_revision_choice"}
      PROVE  ~PathChoiceLocked(journal[d], r)
  <2>1. \A e \in journal[d] : Stands(d, e)
    BY <1>1 DEF JournalInv, Chronicle
  <2>2. QED
    BY <1>1, <2>1 DEF Stands, Settled, Closed, PathChoiceLocked, Recorded
<1>2. JournalInv => AwaitedChoiceIsOpen
  BY <1>1 DEF AwaitedChoiceIsOpen
<1>3. QED
  BY <1>2, JournalInvariance, PTL

(* An evaluation that answered a formal notice keeps answering the         *)
(* justification that exposed the company to it.                           *)
THEOREM NoticeAnswers == Spec => []FormalNoticeAnswersJustification
<1>1. JournalInv => FormalNoticeAnswersJustification
  BY DEF JournalInv, Chronicle, Stands, FormalNoticeAnswersJustification,
         Recorded
<1>2. QED
  BY <1>1, JournalInvariance, PTL

(***************************************************************************)
(* The theorems: what a step never does.                                   *)
(***************************************************************************)
(* Once a later transmission supersedes the first declaration, no router   *)
(* writes its categories or its step.                                      *)
THEOREM Frozen == Spec => SupersededIsFrozen
<1>1. ASSUME NEW d \in Declarations, Deed(d),
             FirstDeclarationSuperseded(journal[d])
      PROVE  SameFirstDeclaration(d)
  BY <1>1 DEF Deed, Modifiable, Stays, Transmits, Chooses, Corrects, Evaluates,
              Closes, IsCancelled
<1>2. JournalInv /\ [Next]_vars =>
        [\A d \in Declarations :
           FirstDeclarationSuperseded(journal[d]) =>
             /\ initial'[d] = initial[d]
             /\ row'[d].currentStep = row[d].currentStep]_vars
  BY <1>1, Deeds DEF JournalInv, IInv, SameFirstDeclaration
<1>3. QED
  BY <1>2, JournalInvariance, PTL DEF Spec, SupersededIsFrozen

(* Only the evaluation that is transmitted records a joint evaluation, and *)
(* it finds the report on file to be newer than every departure.           *)
LEMMA EvaluationsHaveReports ==
  ASSUME NEW d \in Declarations, Deed(d), NEW y \in journal'[d] \ journal[d],
         y.type = "joint_evaluation_submit"
  PROVE  HasReport(d) /\ row'[d].status \in {"awaiting_cse_opinion",
                                             "demarche_completed"}
<1>1. ASSUME NEW x \in Event, Inscribes(d, x)
      PROVE  x.type = "joint_evaluation_submit"
  <2>1. PICK n : Enters(d, n, x)
    BY <1>1, Inscribed
  <2>2. QED
    BY <2>1 DEF Enters
<1>2. CASE \E r \in 1..2 : Evaluates(d, r)
  BY <1>2 DEF Evaluates
<1>3. CASE Stays(d)
  BY <1>3 DEF Stays
<1>4. ASSUME NEW path \in Path, NEW j \in GapJustification, NEW r \in 1..2,
             Chooses(d, path, j, r)
      PROVE  FALSE
  <2>1. PathChoice(path, r) \in Event
    BY EventsAreEvents
  <2>2. QED
    BY <1>1, <1>4, <2>1, EventColumns DEF Chooses
<1>5. ~Transmits(d) /\ ~Corrects(d) /\ ~IsCancelled(d)
  BY <1>1, EventsAreEvents, EventColumns DEF Transmits, Corrects, IsCancelled
<1>6. \A e \in Event : ~Closes(d, e)
  BY <1>1, EventColumns DEF Closes
<1>7. QED
  BY <1>2, <1>3, <1>4, <1>5, <1>6 DEF Deed

(* The report that a revised joint evaluation transmits was uploaded after *)
(* the second declaration, whatever was uploaded before it.                *)
THEOREM NewReport == Spec => RevisedReportIsNew
<1>1. ASSUME JournalInv, [Next]_vars, NEW d \in Declarations,
             NEW e \in journal'[d] \ journal[d],
             e.type = "joint_evaluation_submit" /\ e.round = 2,
             NEW s \in journal[d], s.type = "second_declaration_submit"
      PROVE  report[d] > s.at
  <2>1. HasReport(d)
    BY <1>1, Deeds, EvaluationsHaveReports DEF JournalInv, IInv
  <2>2. QED
    BY <1>1, <2>1 DEF HasReport, Departure
<1>2. JournalInv /\ [Next]_vars =>
        [\A d \in Declarations : \A e \in journal'[d] \ journal[d] :
           e.type = "joint_evaluation_submit" /\ e.round = 2 =>
             \A s \in journal[d] :
               s.type = "second_declaration_submit" => report[d] > s.at]_vars
  BY <1>1
<1>3. QED
  BY <1>2, JournalInvariance, PTL DEF Spec, RevisedReportIsNew

(***************************************************************************)
(* The theorems: what is read of the row.                                  *)
(***************************************************************************)
(* Any number of declarations has a last one.                              *)
LEMMA LastDeclaration ==
  ASSUME NEW T, T \subseteq Declarations, T # {}
  PROVE  \E m \in T : \A x \in T : x <= m
<1> DEFINE N == MaxDeclarations
           L == { N - x : x \in T }
           less == OpToRel(<, Nat)
<1>1. N \in Nat /\ \A x \in T : x \in 1..N
  BY DemarcheAssumption DEF Declarations, DemarcheAssumption
<1>2. L \subseteq Nat /\ L # {}
  BY <1>1
<1>3. IsWellFoundedOn(less, Nat)
  BY NatLessThanWellFounded
<1>4. \A a, b \in Nat : a < b => << a, b >> \in less
  BY DEF OpToRel
<1> HIDE DEF less
<1>5. \E l \in L : \A k \in L : ~(<< k, l >> \in less)
  <2> HIDE DEF L
  <2>1. QED
    BY <1>2, <1>3, WFMin
<1>6. PICK m \in T : \A k \in L : ~(<< k, N - m >> \in less)
  BY <1>5
<1>7. ASSUME NEW x \in T  PROVE x <= m
  <2>1. N - x \in L /\ N - x \in Nat /\ N - m \in Nat
    BY <1>1
  <2>2. ~(N - x < N - m)
    BY <1>4, <1>6, <2>1
  <2>3. QED
    BY <1>1, <2>2
<1>8. QED
  BY <1>7

(* What was submitted is what is neither absent nor a draft.               *)
LEMMA SubmittedIs ==
  ASSUME JournalInv, NEW d \in Declarations
  PROVE  Recorded(journal[d], "submit") <=> Transmitted(d)
<1>1. /\ \A e \in journal[d] : e.type = "submit" => row[d].status # "draft"
      /\ row[d].status = "draft" \/ Recorded(journal[d], "submit")
  BY DEF JournalInv, Chronicle, Stands
<1>2. row[d].life = "absent" => row[d].status = "draft"
  BY DEF JournalInv, IInv, AbsentIsNew, NewRow
<1>3. QED
  BY <1>1, <1>2 DEF Transmitted, Recorded

(* Whatever was submitted stays visible to the export readers: the last    *)
(* declaration transmitted is the one exported, since every row below it   *)
(* is cancelled and a row above it is a draft.                             *)
THEOREM Export == Spec => []ExportNeverMasked
<1>1. ASSUME JournalInv, NEW d \in Declarations, Recorded(journal[d], "submit")
      PROVE  \E e \in Declarations :
               e >= d /\ ExportDeclaration(e) /\ Recorded(journal[e], "submit")
  <2> DEFINE T == { x \in Declarations : Transmitted(x) }
  <2>1. d \in T
    BY <1>1, SubmittedIs
  <2>2. PICK m \in T : \A x \in T : x <= m
    <3> HIDE DEF T
    <3>1. T \subseteq Declarations
      BY DEF T
    <3>2. QED
      BY <2>1, <3>1, LastDeclaration
  <2>3. m \in Declarations /\ Transmitted(m) /\ row[m].life # "absent"
    BY DEF Transmitted
  <2>4. ASSUME NEW x \in Declarations, Transmitted(x), ~Active(m)
        PROVE  x <= m /\ ~Active(x)
    <3>1. x <= m /\ x \in Int /\ m \in Int
      BY <2>2, <2>4 DEF Declarations
    <3>2. x < m => row[x].life = "cancelled"
      BY <1>1, <2>3 DEF JournalInv, OneLine
    <3>3. QED
      BY <2>4, <3>1, <3>2 DEF Active
  <2>5. ExportDeclaration(m)
    BY <2>3, <2>4 DEF ExportDeclaration
  <2>6. m >= d
    BY <2>1, <2>2 DEF Declarations
  <2>7. QED
    BY <1>1, <2>3, <2>5, <2>6, SubmittedIs
<1>2. JournalInv => ExportNeverMasked
  BY <1>1 DEF ExportNeverMasked
<1>3. QED
  BY <1>2, JournalInvariance, PTL

(* Once an evaluation is on record, no entry makes its report the report   *)
(* of an abandoned path.                                                   *)
LEMMA NoLateDeparture ==
  ASSUME JournalInv, NEW d \in Declarations, Deed(d),
         Recorded(journal[d], "joint_evaluation_submit")
  PROVE  /\ journal[d] \subseteq journal'[d]
         /\ \A y \in journal'[d] \ journal[d] : ~Departure(y)
<1>1. /\ Settled(row[d].status) /\ ConsistentRow(d) /\ Chronicle(d)
  BY DEF JournalInv, IInv, Chronicle, Stands, Recorded
<1>2. ASSUME NEW x \in Event, Inscribes(d, x),
             x.type \notin {"second_declaration_submit", "path_choice"}
      PROVE  /\ journal[d] \subseteq journal'[d]
             /\ \A y \in journal'[d] \ journal[d] : ~Departure(y)
  <2>1. PICK n : Enters(d, n, x)
    BY <1>2, Inscribed
  <2>2. QED
    BY <1>2, <2>1 DEF Enters, Departure
<1>3. CASE Stays(d)
  BY <1>3 DEF Stays
<1>4. CASE Transmits(d)
  BY <1>2, <1>4, EventsAreEvents, EventColumns DEF Transmits
<1>5. \A path \in Path, j \in GapJustification, r \in 1..2 :
        ~Chooses(d, path, j, r)
  BY <1>1, ChoiceIsOpen DEF Recorded
<1>6. ~Corrects(d)
  BY <1>1 DEF Corrects, Settled
<1>7. ASSUME NEW r \in 1..2, Evaluates(d, r)
      PROVE  /\ journal[d] \subseteq journal'[d]
             /\ \A y \in journal'[d] \ journal[d] : ~Departure(y)
  BY <1>2, <1>7, EventsAreEvents, EventColumns DEF Evaluates
<1>8. ASSUME NEW x \in Event, Closes(d, x)
      PROVE  /\ journal[d] \subseteq journal'[d]
             /\ \A y \in journal'[d] \ journal[d] : ~Departure(y)
  BY <1>2, <1>8, EventColumns DEF Closes
<1>9. CASE IsCancelled(d)
  BY <1>2, <1>9, EventsAreEvents, EventColumns DEF IsCancelled
<1>10. QED
  BY <1>3, <1>4, <1>5, <1>6, <1>7, <1>8, <1>9 DEF Deed

(* A report shown as transmitted is shown until another is uploaded,       *)
(* whatever is chosen, corrected or cancelled meanwhile.                   *)
THEOREM ReportStays == Spec => TransmittedReportStays
<1>1. ASSUME JournalInv, [Next]_vars, NEW d \in Declarations,
             TransmittedReport(d), report'[d] = report[d]
      PROVE  TransmittedReport(d)'
  <2>1. PICK e \in journal[d] :
          e.type = "joint_evaluation_submit" /\ report[d] <= e.at
    BY <1>1 DEF TransmittedReport
  <2>2. /\ journal[d] \subseteq journal'[d]
        /\ \A y \in journal'[d] \ journal[d] : ~Departure(y)
    BY <1>1, <2>1, Deeds, NoLateDeparture DEF JournalInv, IInv, Recorded
  <2>3. HasReport(d)'
    BY <1>1, <2>2 DEF TransmittedReport, HasReport
  <2>4. QED
    BY <1>1, <2>1, <2>2, <2>3 DEF TransmittedReport
<1>2. JournalInv /\ [Next]_vars =>
        [\A d \in Declarations :
           TransmittedReport(d) /\ report'[d] = report[d]
             => TransmittedReport(d)']_vars
  BY <1>1
<1>3. QED
  BY <1>2, JournalInvariance, PTL DEF Spec, TransmittedReportStays

(* The states each panel is shown in.                                      *)
LEMMA PanelVariantIs ==
  ASSUME TypeOK, NEW d \in Declarations
  PROVE  LET s == row[d].status IN
         /\ PanelVariant(d) = "compliance_choice" <=>
              s \in {"awaiting_compliance_path_choice", "awaiting_revision_choice"}
         /\ PanelVariant(d) = "compliance" <=> s = "corrective_actions_chosen"
         /\ PanelVariant(d) = "evaluation" <=>
              s \in {"joint_evaluation_chosen", "revised_joint_evaluation_chosen"}
         /\ PanelVariant(d) = "cse" <=>
              \/ s = "awaiting_cse_opinion"
              \/ s = "demarche_completed" /\ ~CseOpinionResolved(d)
<1> DEFINE s == row[d].status
           open == CseOpinionResolved(d)
<1>1. s \in Status
  BY DEF TypeOK, Row
<1>2. PanelVariant(d) =
        CASE s = "draft" -> "start"
          [] s \in {"awaiting_compliance_path_choice", "awaiting_revision_choice"}
             -> "compliance_choice"
          [] s = "corrective_actions_chosen" -> "compliance"
          [] s \in {"joint_evaluation_chosen", "revised_joint_evaluation_chosen"}
             -> "evaluation"
          [] s = "awaiting_cse_opinion" -> "cse"
          [] s = "demarche_completed" -> IF open THEN "closed" ELSE "cse"
  BY DEF PanelVariant
<1> HIDE DEF s, open
<1>3. /\ PanelVariant(d) = "compliance_choice" <=>
           s \in {"awaiting_compliance_path_choice", "awaiting_revision_choice"}
      /\ PanelVariant(d) = "compliance" <=> s = "corrective_actions_chosen"
      /\ PanelVariant(d) = "evaluation" <=>
           s \in {"joint_evaluation_chosen", "revised_joint_evaluation_chosen"}
      /\ PanelVariant(d) = "cse" <=>
           \/ s = "awaiting_cse_opinion"
           \/ s = "demarche_completed" /\ ~open
  BY <1>1, <1>2 DEF Status
<1>4. QED
  BY <1>3 DEF s, open

(* saveCompliancePath takes some choice when the engine can replay one and *)
(* nothing on record locks it: a full justification is always on offer.    *)
LEMMA AcceptedIs ==
  ASSUME TypeOK, NEW d \in Declarations
  PROVE  PathChoiceAccepted(d) <=>
           /\ ReplayState(FactsOf(d)) \in {"awaiting_compliance_path_choice",
                                           "awaiting_revision_choice"}
           /\ ~PathChoiceLocked(journal[d], CurrentRound(journal[d]))
<1> DEFINE f == FactsOf(d)
           round == CurrentRound(journal[d])
<1>1. f \in Facts /\ f.cseRequired \in BOOLEAN
  BY FactsTyped DEF Facts
<1>2. ASSUME PathChoiceAccepted(d)
      PROVE  /\ ReplayState(f) \in {"awaiting_compliance_path_choice",
                                    "awaiting_revision_choice"}
             /\ ~PathChoiceLocked(journal[d], round)
  <2>1. PICK path \in Path : /\ ~PathChoiceLocked(journal[d], round)
                             /\ ChoosePathMoves(f, path) # {}
    BY <1>2 DEF PathChoiceAccepted
  <2>2. PICK move \in ChoosePathMoves(f, path) : TRUE
    BY <2>1
  <2> HIDE DEF f
  <2>3. QED
    BY <1>1, <2>1, <2>2, ChoosePathMovesAre
<1>3. ASSUME ReplayState(f) \in {"awaiting_compliance_path_choice",
                                 "awaiting_revision_choice"},
             ~PathChoiceLocked(journal[d], round)
      PROVE  PathChoiceAccepted(d)
  <2>1. /\ "justify" \in Path /\ "all" \in GapJustification
        /\ "justify" \in PathsFor("all", round)
    BY DEF Path, GapJustification, PathsFor
  <2>2. ChoosePathMoves(f, "justify") # {}
    <3> HIDE DEF f
    <3>1. QED
      BY <1>1, <1>3 DEF ChoosePathMoves, ToOpinionOrEnd, Move
  <2>3. QED
    BY <1>3, <2>1, <2>2 DEF PathChoiceAccepted
<1>4. QED
  BY <1>2, <1>3

(* A path choice is offered exactly when one would be accepted.            *)
LEMMA OfferIsAccepted ==
  ASSUME JournalInv, NEW d \in Declarations
  PROVE  PathChoiceAccepted(d) <=>
           PanelVariant(d) = "compliance_choice" \/ PathChoiceModifiable(d)
<1> DEFINE s      == row[d].status
           first  == row[d].first
           second == row[d].second
           j      == journal[d]
           cse    == Recorded(j, "cse_opinion_submit")
           joint  == Recorded(j, "joint_evaluation_submit")
           replay == ReplayState(FactsOf(d))
<1>1. /\ TypeOK /\ s \in Status
      /\ first \in Path \union {None} /\ second \in Path \union {None}
  BY DEF JournalInv, IInv, TypeOK, Row
<1>2. Consistent(s, first, second, j)
  BY DEF JournalInv, IInv, ConsistentRow
<1>3. /\ joint <=> Joint(j, 1) \/ Joint(j, 2)
      /\ Joint(j, 1) => first = "joint_evaluation"
      /\ Joint(j, 2) => second = "joint_evaluation"
      /\ joint => s \in {"awaiting_cse_opinion", "demarche_completed"}
      /\ cse => s = "demarche_completed"
  BY DEF JournalInv, Chronicle, Stands, Settled, Closed, Recorded, Joint
<1>4. PathChoiceLocked(j, CurrentRound(j)) <=>
        cse \/ IF Second(j) THEN joint ELSE Joint(j, 1)
  BY DEF PathChoiceLocked, CurrentRound, Second, Recorded, Joint
<1>5. second # "corrective_action"
  BY <1>1 DEF JournalInv, Justified, PathsFor, None
<1>6. /\ replay = "awaiting_compliance_path_choice" <=>
           \/ s \in {"awaiting_compliance_path_choice",
                     "corrective_actions_chosen", "joint_evaluation_chosen"}
           \/ s = "awaiting_cse_opinion" /\ first = "justify"
      /\ replay = "awaiting_revision_choice" <=>
           \/ s \in {"awaiting_revision_choice",
                     "revised_joint_evaluation_chosen"}
           \/ /\ s = "awaiting_cse_opinion"
              /\ first # "justify" /\ second = "justify"
  <2>1. /\ FactsOf(d).currentState = s /\ FactsOf(d).first = first
        /\ FactsOf(d).second = second
    BY DEF FactsOf
  <2>2. QED
    BY <2>1 DEF ReplayState, RevisesInitialChoice, RevisesRevisedChoice
<1>7. PathChoiceAccepted(d) <=>
        /\ replay \in {"awaiting_compliance_path_choice",
                       "awaiting_revision_choice"}
        /\ ~(cse \/ IF Second(j) THEN joint ELSE Joint(j, 1))
  BY <1>1, <1>4, AcceptedIs
<1>8. PathChoiceModifiable(d) <=>
        LET path == IF second # None THEN second ELSE first IN
        /\ path # None /\ s # "demarche_completed"
        /\ ~(path = "justify" /\ cse)
        /\ ~(path = "corrective_action" /\ Second(j))
        /\ ~(path = "joint_evaluation" /\ joint)
  BY DEF PathChoiceModifiable, PathReadOnly, CurrentPath, Second
<1>9. PanelVariant(d) = "compliance_choice" <=>
        s \in {"awaiting_compliance_path_choice", "awaiting_revision_choice"}
  BY <1>1, PanelVariantIs
<1> HIDE DEF s, first, second, j, cse, joint, replay
<1>10. QED
  BY <1>1, <1>2, <1>3, <1>5, <1>6, <1>7, <1>8, <1>9
  DEF Consistent, Status, Path, None

(* The panel and the server agree: a choice is offered exactly when one    *)
(* would be accepted, and the step a panel calls for is one the engine can *)
(* move on from, after any history of the démarche.                        *)
THEOREM Panel == Spec => []PanelAgreesWithEngine
<1>1. ASSUME JournalInv, NEW d \in Declarations
      PROVE  /\ PanelVariant(d) = "compliance" =>
                  /\ SecondDeclarationWritable(d)
                  /\ SecondDeclarationMoves(FactsOf(d), FALSE) # {}
             /\ PanelVariant(d) = "evaluation" =>
                  JointEvaluationMoves(FactsOf(d)) # {}
             /\ PanelVariant(d) = "cse" => CseOpinionMoves(FactsOf(d)) # {}
  <2> DEFINE f == FactsOf(d)
  <2>1. /\ TypeOK /\ f \in Facts /\ f.cseRequired \in BOOLEAN
        /\ f.currentState = row[d].status
    BY <1>1, FactsTyped DEF JournalInv, IInv, FactsOf, TypeOK, Row
  <2> HIDE DEF f
  <2>2. PanelVariant(d) = "compliance" =>
          SecondDeclarationWritable(d) /\ SecondDeclarationMoves(f, FALSE) # {}
    BY <2>1, PanelVariantIs
    DEF SecondDeclarationWritable, SecondDeclarationMoves, ToOpinionOrEnd, Move
  <2>3. PanelVariant(d) = "evaluation" => JointEvaluationMoves(f) # {}
    BY <2>1, PanelVariantIs DEF JointEvaluationMoves, ToOpinionOrEnd, Move
  <2>4. PanelVariant(d) = "cse" => CseOpinionMoves(f) # {}
    BY <2>1, PanelVariantIs DEF CseOpinionMoves, Move
  <2>5. QED
    BY <2>2, <2>3, <2>4 DEF f
<1>2. JournalInv => PanelAgreesWithEngine
  BY <1>1, OfferIsAccepted DEF PanelAgreesWithEngine
<1>3. QED
  BY <1>2, JournalInvariance, PTL

(* The reminder queries read the choices and the files, the panel reads    *)
(* the status: a company is reminded of a path choice or of a joint        *)
(* evaluation exactly when its panel calls for it, and of an opinion only  *)
(* when its panel calls for the opinion.                                   *)
THEOREM Reminding == Spec => []RemindersMatchPanel
<1>1. ASSUME JournalInv, NEW d \in Declarations, Active(d)
      PROVE  /\ (\E r \in 1..2 : AwaitingPathChoice(d, r)) <=>
                  PanelVariant(d) = "compliance_choice"
             /\ (\E r \in 1..2 : JointEvaluationPending(d, r)) <=>
                  PanelVariant(d) = "evaluation" /\ ~Uploaded(d)
             /\ CseOpinionPending(d, "justify") \/ CseOpinionPending(d, "corrective")
                  => PanelVariant(d) = "cse"
  <2> DEFINE s      == row[d].status
             first  == row[d].first
             second == row[d].second
             j      == journal[d]
             cse    == Recorded(j, "cse_opinion_submit")
             owed   == row[d].cseRequired
             saved  == opinions[d].saved
  <2>1. TypeOK /\ s \in Status
    BY <1>1 DEF JournalInv, IInv, TypeOK, Row
  <2>2. Consistent(s, first, second, j)
    BY <1>1 DEF JournalInv, IInv, ConsistentRow
  <2>3. /\ Joint(j, 1) \/ Joint(j, 2) => Uploaded(d)
        /\ cse => saved
    BY <1>1 DEF JournalInv, Chronicle, Stands, Recorded, Joint, Uploaded
  <2>4. /\ (\E r \in 1..2 : AwaitingPathChoice(d, r)) <=>
             \/ s = "awaiting_compliance_path_choice" /\ first = None
             \/ s = "awaiting_revision_choice" /\ second = None
        /\ (\E r \in 1..2 : JointEvaluationPending(d, r)) <=>
             /\ ~Uploaded(d)
             /\ \/ first = "joint_evaluation" /\ second = None
                \/ second = "joint_evaluation"
        /\ CseOpinionPending(d, "justify") =>
             owed /\ ~saved /\ (first = "justify" \/ second = "justify")
        /\ CseOpinionPending(d, "corrective") => s = "awaiting_cse_opinion"
    <3>1. /\ (\E r \in 1..2 : AwaitingPathChoice(d, r)) <=>
               AwaitingPathChoice(d, 1) \/ AwaitingPathChoice(d, 2)
          /\ (\E r \in 1..2 : JointEvaluationPending(d, r)) <=>
               JointEvaluationPending(d, 1) \/ JointEvaluationPending(d, 2)
      OBVIOUS
    <3>2. /\ AwaitingPathChoice(d, 1) <=>
               s = "awaiting_compliance_path_choice" /\ first = None
          /\ AwaitingPathChoice(d, 2) <=>
               s = "awaiting_revision_choice" /\ second = None
      BY <1>1 DEF AwaitingPathChoice
    <3>3. /\ JointEvaluationPending(d, 1) <=>
               first = "joint_evaluation" /\ second = None /\ ~Uploaded(d)
          /\ JointEvaluationPending(d, 2) <=>
               second = "joint_evaluation" /\ ~Uploaded(d)
      BY <1>1 DEF JointEvaluationPending, ChoiceColumn
    <3>4. /\ CseOpinionPending(d, "justify") =>
               owed /\ ~saved /\ (first = "justify" \/ second = "justify")
          /\ CseOpinionPending(d, "corrective") => s = "awaiting_cse_opinion"
      BY DEF CseOpinionPending
    <3> HIDE DEF s, first, second, owed, saved
    <3>5. QED
      BY <3>1, <3>2, <3>3, <3>4
  <2>5. /\ PanelVariant(d) = "compliance_choice" <=>
             s \in {"awaiting_compliance_path_choice", "awaiting_revision_choice"}
        /\ PanelVariant(d) = "evaluation" <=>
             s \in {"joint_evaluation_chosen", "revised_joint_evaluation_chosen"}
        /\ PanelVariant(d) = "cse" <=>
             \/ s = "awaiting_cse_opinion"
             \/ s = "demarche_completed" /\ owed /\ ~cse
    BY <2>1, PanelVariantIs DEF CseOpinionResolved
  <2> HIDE DEF s, first, second, j, cse, owed, saved
  <2>6. QED
    BY <2>1, <2>2, <2>3, <2>4, <2>5 DEF Consistent, Status, None
<1>2. JournalInv => RemindersMatchPanel
  BY <1>1 DEF RemindersMatchPanel
<1>3. QED
  BY <1>2, JournalInvariance, PTL

(***************************************************************************)
(* No démarche hangs.                                                      *)
(***************************************************************************)
(* The way on from the status of d: what the router of the next step asks  *)
(* of the journal holds, and the engine has a transition for whatever the  *)
(* declarant is then allowed to answer.                                    *)
WayOn(d) ==
  LET s     == row[d].status
      f     == FactsOf(d)
      round == CurrentRound(journal[d])
  IN
  /\ s = "draft" =>
       /\ Modifiable(d)
       /\ \A a, h, g, gap \in BOOLEAN : SubmitMoves(s, a, h, g, gap) # {}
  /\ s \in {"awaiting_compliance_path_choice", "awaiting_revision_choice"} =>
       /\ ~PathChoiceLocked(journal[d], round)
       /\ \A j \in GapJustification : \A path \in PathsFor(j, round) :
            /\ ~(round = 2 /\ path = "corrective_action")
            /\ ChoosePathMoves(f, path) # {}
  /\ s = "corrective_actions_chosen" =>
       /\ Modifiable(d)
       /\ \A gap \in BOOLEAN : SecondDeclarationMoves(f, gap) # {}
  /\ s \in {"joint_evaluation_chosen", "revised_joint_evaluation_chosen"} =>
       JointEvaluationMoves(f) # {}
  /\ s = "awaiting_cse_opinion" => CseOpinionMoves(f) # {}

LEMMA MovesAreOffered ==
  ASSUME NEW f \in Facts
  PROVE  /\ f.currentState = "draft" =>
              \A a, h, g, gap \in BOOLEAN :
                SubmitMoves(f.currentState, a, h, g, gap) # {}
         /\ f.currentState = "corrective_actions_chosen" =>
              \A gap \in BOOLEAN : SecondDeclarationMoves(f, gap) # {}
         /\ f.currentState \in {"joint_evaluation_chosen",
                                "revised_joint_evaluation_chosen"} =>
              JointEvaluationMoves(f) # {}
         /\ f.currentState = "awaiting_cse_opinion" => CseOpinionMoves(f) # {}
<1> DEFINE move(to, events) == [to |-> to, events |-> events]
           ended(event) == {event, Complete}
<1>1. f.cseRequired \in BOOLEAN
  BY DEF Facts
<1>2. ASSUME NEW a \in BOOLEAN, NEW h \in BOOLEAN, NEW g \in BOOLEAN,
             NEW gap \in BOOLEAN
      PROVE  \/ move("awaiting_compliance_path_choice", {Ev("submit")})
                  \in SubmitMoves("draft", a, h, g, gap)
             \/ move("awaiting_cse_opinion", {Ev("submit")})
                  \in SubmitMoves("draft", a, h, g, gap)
             \/ move("demarche_completed", ended(Ev("submit")))
                  \in SubmitMoves("draft", a, h, g, gap)
  BY DEF SubmitMoves, ToOpinionOrEnd, Move, Phase2Required, CseRequired
<1>3. ASSUME f.currentState = "corrective_actions_chosen", NEW gap \in BOOLEAN
      PROVE  LET e == RoundEv("second_declaration_submit", 2)
                 m == SecondDeclarationMoves(f, gap)
             IN  \/ move("awaiting_revision_choice", {e}) \in m
                 \/ move("awaiting_cse_opinion", {e}) \in m
                 \/ move("demarche_completed", ended(e)) \in m
  BY <1>1, <1>3 DEF SecondDeclarationMoves, ToOpinionOrEnd, Move
<1>4. ASSUME NEW r \in 1..2,
             f.currentState = IF r = 1 THEN "joint_evaluation_chosen"
                                       ELSE "revised_joint_evaluation_chosen"
      PROVE  LET e == RoundEv("joint_evaluation_submit", r)
                 m == JointEvaluationMoves(f)
             IN  \/ move("awaiting_cse_opinion", {e}) \in m
                 \/ move("demarche_completed", ended(e)) \in m
  BY <1>1, <1>4 DEF JointEvaluationMoves, ToOpinionOrEnd, Move
<1>5. f.currentState = "awaiting_cse_opinion" =>
        move("demarche_completed", ended(Ev("cse_opinion_submit")))
          \in CseOpinionMoves(f)
  BY DEF CseOpinionMoves, Move
<1> HIDE DEF move, ended
<1>6. QED
  BY <1>2, <1>3, <1>4, <1>5

(* No démarche hangs: whatever was revised, imported, answered or uploaded *)
(* on the way, a declaration that is not closed has its next step open.  A *)
(* choice is not locked, its round in the journal is the round of the      *)
(* state that the engine replays it from, and the categories that a second *)
(* declaration corrects can still be written.                              *)
THEOREM NeverStuck == Spec => [](\A d \in Declarations : WayOn(d))
<1>1. ASSUME JournalInv, NEW d \in Declarations
      PROVE  WayOn(d)
  <2> DEFINE s     == row[d].status
             f     == FactsOf(d)
             round == CurrentRound(journal[d])
  <2>1. /\ f \in Facts /\ f.currentState = s
        /\ ConsistentRow(d) /\ Chronicle(d)
    BY <1>1, FactsTyped DEF JournalInv, IInv, FactsOf
  <2>2. \A e \in journal[d] : Stands(d, e)
    BY <2>1 DEF Chronicle
  <2>3. round = IF Second(journal[d]) THEN 2 ELSE 1
    BY DEF CurrentRound, Second
  <2>4. ASSUME s \in {"draft", "corrective_actions_chosen"}
        PROVE  Modifiable(d)
    <3>1. ~Second(journal[d])
      BY <2>1, <2>4 DEF ConsistentRow, Consistent
    <3>2. QED
      BY <2>2, <2>4, <3>1 DEF Modifiable, FirstDeclarationSuperseded, Second,
                              Recorded, Stands, Settled, Closed
  <2>5. ASSUME s \in {"awaiting_compliance_path_choice",
                      "awaiting_revision_choice"}
        PROVE  /\ ~PathChoiceLocked(journal[d], round)
               /\ \A j \in GapJustification : \A path \in PathsFor(j, round) :
                    /\ ~(round = 2 /\ path = "corrective_action")
                    /\ ChoosePathMoves(f, path) # {}
    <3>1. ~PathChoiceLocked(journal[d], round)
      BY <2>2, <2>5 DEF PathChoiceLocked, Recorded, Stands, Settled, Closed
    <3>2. round = IF s = "awaiting_compliance_path_choice" THEN 1 ELSE 2
      BY <2>1, <2>3, <2>5 DEF ConsistentRow, Consistent
    <3>3. ReplayState(f) = s
      BY <2>1, <2>5 DEF ReplayState, RevisesInitialChoice, RevisesRevisedChoice
    <3> HIDE DEF s, f, round
    <3>4. ASSUME NEW j \in GapJustification, NEW path \in PathsFor(j, round)
          PROVE  /\ ~(round = 2 /\ path = "corrective_action")
                 /\ ChoosePathMoves(f, path) # {}
      <4>1. ~(round = 2 /\ path = "corrective_action")
        BY <3>4 DEF PathsFor
      <4>2. round \in 1..2
        BY <3>2
      <4>3. ReplayState(f) =
              IF round = 1 THEN "awaiting_compliance_path_choice"
                           ELSE "awaiting_revision_choice"
        BY <2>5, <3>2, <3>3
      <4>4. QED
        BY <2>1, <4>1, <4>2, <4>3, PathsAreOffered
    <3>5. QED
      BY <3>1, <3>4
  <2> HIDE DEF f, round
  <2>6. QED
    BY <2>1, <2>4, <2>5, MovesAreOffered DEF WayOn, f, round
<1>2. JournalInv => \A d \in Declarations : WayOn(d)
  BY <1>1
<1>3. QED
  BY <1>2, JournalInvariance, PTL

(***************************************************************************)
(* A démarche only goes forward, but for a choice that is revised in time. *)
(***************************************************************************)
Stage ==
  [ draft                           |-> 0,
    awaiting_compliance_path_choice |-> 1,
    corrective_actions_chosen       |-> 2,
    awaiting_revision_choice        |-> 3,
    joint_evaluation_chosen         |-> 4,
    revised_joint_evaluation_chosen |-> 4,
    awaiting_cse_opinion            |-> 5,
    demarche_completed              |-> 6 ]

(* The step records a choice of the round that the journal is in, and      *)
(* nothing that could rest on the choice it replaces was transmitted.      *)
RevisesInTime(d) ==
  /\ \E e \in journal'[d] \ journal[d] :
       e.type = "path_choice" /\ e.round = CurrentRound(journal[d])
  /\ \A e \in journal[d] :
       e.type \notin {"joint_evaluation_submit", "cse_opinion_submit",
                      "formal_notice_joint_evaluation_submit"}

OnlyForward ==
  [][\A d \in Declarations :
       \/ Stage[row'[d].status] >= Stage[row[d].status]
       \/ RevisesInTime(d)]_vars

(* No upload, import, realignment, cancellation or transmission takes a    *)
(* démarche back to an earlier stage; a path choice may, and only before   *)
(* the evaluation or the opinion that would rest on the path it leaves.    *)
THEOREM Forward == Spec => OnlyForward
<1> DEFINE goes(d) == Stage[row'[d].status] >= Stage[row[d].status]
<1>1. ASSUME JournalInv, NEW d \in Declarations, Deed(d)
      PROVE  goes(d) \/ RevisesInTime(d)
  <2>1. row[d].status \in Status /\ ConsistentRow(d) /\ Chronicle(d)
    BY <1>1 DEF JournalInv, IInv, TypeOK, Row
  <2>2. CASE row'[d].status = row[d].status
    BY <2>1, <2>2 DEF Stage, Status
  <2>3. CASE \/ Transmits(d) \/ Corrects(d)
             \/ \E r \in 1..2 : Evaluates(d, r)
             \/ \E e \in Event : Closes(d, e)
    BY <2>1, <2>3 DEF Transmits, Corrects, Evaluates, Closes, Stage, Status
  <2>4. ASSUME NEW path \in Path, NEW j \in GapJustification, NEW r \in 1..2,
               Chooses(d, path, j, r)
        PROVE  RevisesInTime(d)
    <3>1. /\ CurrentRound(journal[d]) = r
          /\ \A e \in journal[d] :
               e.type \notin {"joint_evaluation_submit", "cse_opinion_submit",
                              "formal_notice_joint_evaluation_submit"}
      BY <2>1, <2>4, ChoiceIsOpen
    <3> DEFINE e == PathChoice(path, r)
    <3>2. e \in Event /\ e.type = "path_choice" /\ e.round = r
      <4>1. e \in Event
        BY EventsAreEvents
      <4>2. QED
        BY <4>1 DEF PathChoice
    <3> HIDE DEF e
    <3>3. PICK n : Enters(d, n, e)
      BY <2>4, <3>2, Inscribed DEF Chooses, e
    <3>4. n \notin journal[d]
      <4>1. clock[d] \in Nat
        BY <1>1, DatesTyped DEF JournalInv, IInv
      <4>2. \A o \in journal[d] : o.at <= clock[d]
        BY <2>1 DEF Chronicle, Stands
      <4>3. n.at = clock[d] + 1
        BY <3>3 DEF Enters
      <4>4. QED
        BY <4>1, <4>2, <4>3
    <3>5. QED
      BY <3>1, <3>2, <3>3, <3>4 DEF RevisesInTime, Enters
  <2>5. CASE Stays(d) \/ IsCancelled(d)
    BY <2>2, <2>5 DEF Stays, IsCancelled, SameProgress
  <2>6. QED
    BY <1>1, <2>3, <2>4, <2>5 DEF Deed
<1>2. JournalInv /\ [Next]_vars =>
        [\A d \in Declarations :
           \/ Stage[row'[d].status] >= Stage[row[d].status]
           \/ RevisesInTime(d)]_vars
  BY <1>1, Deeds DEF JournalInv, IInv
<1>3. QED
  BY <1>2, JournalInvariance, PTL DEF Spec, OnlyForward
=============================================================================

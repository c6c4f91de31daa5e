------------------------- MODULE CseSyncRaceProofs -------------------------
(***************************************************************************)
(* What the advisory lock guarantees, for any number of requests, of       *)
(* realignments and of journal writes.                                     *)
(***************************************************************************)
EXTENDS CseSyncRace, RulesEngineFacts

(***************************************************************************)
(* The inductive invariant.                                                *)
(***************************************************************************)
(* The advisory lock excludes: one transaction under it at a time.         *)
Exclusive ==
  \A v, w \in Workers :
    tx[v].phase = "decided" /\ tx[w].phase = "decided" => v = w

Evaluated == { "awaiting_cse_opinion", "demarche_completed" }
SecondRound == { "awaiting_revision_choice", "revised_joint_evaluation_chosen" }

(* What was transmitted shows in the status.  Without a second declaration *)
(* nothing is of the second round.                                         *)
Positions ==
  /\ row.status \notin SecondRound
  /\ \A e \in journal : e.type = "joint_evaluation_submit" => e.round = 1
  /\ Recorded(journal, "submit") => row.status # "draft"
  /\ Recorded(journal, "joint_evaluation_submit") => row.status \in Evaluated

(* A decision records one event, which its reading allows, and no reading  *)
(* predates a transmission that is already in the journal.                 *)
Allows(d, e) ==
  /\ OneEvent(d.events, e)
  /\ e.type = "submit" => d.read = "draft"
  /\ e.type = "joint_evaluation_submit" =>
       e.round = 1 /\ d.read = "joint_evaluation_chosen" /\ d.to \in Evaluated

Lawful(d) ==
  /\ d.to \notin SecondRound \union {"draft"}
  /\ \E e \in Event : Allows(d, e)
  /\ Recorded(journal, "submit") => d.read # "draft"
  /\ Recorded(journal, "joint_evaluation_submit") =>
       d.read \in Evaluated /\ d.to \in Evaluated

DecisionsLawful ==
  \A w \in Workers : tx[w].phase = "decided" => Lawful(tx[w])

IInv ==
  /\ TypeOK
  /\ Exclusive
  /\ ReadStaysValid
  /\ Positions
  /\ DecisionsLawful
  /\ TransmittedOnce

(***************************************************************************)
(* The slots of the workers.                                               *)
(***************************************************************************)
LEMMA SlotsTyped ==
  ASSUME TypeOK, NEW w \in Workers
  PROVE  /\ tx[w].phase = "idle" => tx[w] = Idle
         /\ tx[w].phase = "decided" => tx[w] \in Decision
         /\ tx[w].phase \in {"idle", "decided"}
BY DEF TypeOK, Idle, Decision

LEMMA FactsTyped ==
  ASSUME TypeOK
  PROVE  FactsOfRow \in Facts
BY DEF TypeOK, Row, FactsOfRow, Facts

(* The event a lawful decision records is its only one of that type.       *)
LEMMA OneOfAType ==
  ASSUME NEW events, NEW e, OneEvent(events, e), NEW x \in events,
         x.type # "demarche_complete"
  PROVE  x = e
BY DEF OneEvent, Complete, Ev

(***************************************************************************)
(* Steps of a worker.                                                      *)
(***************************************************************************)
(* A worker that decides does so alone, on the status of the moment.       *)
LEMMA DecideKeeps ==
  ASSUME IInv, NEW w \in Workers, NEW moves,
         NEW snapshot \in BOOLEAN, NEW cseRequired \in BOOLEAN,
         \A move \in moves :
           /\ Proper(move)
           /\ move.to \notin SecondRound \union {"draft"}
           /\ \E e \in Event :
                /\ OneEvent(move.events, e)
                /\ e.type = "submit" => row.status = "draft"
                /\ e.type = "joint_evaluation_submit" =>
                     /\ e.round = 1
                     /\ row.status = "joint_evaluation_chosen"
                     /\ move.to \in Evaluated
           /\ Recorded(journal, "joint_evaluation_submit") => move.to \in Evaluated,
         Decide(w, moves, snapshot, cseRequired)
  PROVE  IInv'
<1>1. PICK move \in moves :
        tx' = [tx EXCEPT ![w] =
                 [ phase |-> "decided", read |-> row.status,
                   to |-> move.to, events |-> move.events,
                   snapshot |-> snapshot, cseRequired |-> cseRequired ]]
  BY DEF Decide
<1> DEFINE d == [ phase |-> "decided", read |-> row.status,
                  to |-> move.to, events |-> move.events,
                  snapshot |-> snapshot, cseRequired |-> cseRequired ]
<1>2. d \in Decision
  <2>1. move.events \in SUBSET Event /\ move.to \in Status
    BY <1>1, ProperEvents DEF Proper
  <2>2. row.status \in Status
    BY DEF IInv, TypeOK, Row
  <2>3. QED
    BY <2>1, <2>2 DEF Decision
<1>3. UNCHANGED << row, journal, clock, hasCse, above, sync >>
  BY DEF Decide, company
<1>4. tx \in [Workers -> {Idle} \union Decision]
  BY DEF IInv, TypeOK
<1>5. tx'[w] = d /\ \A v \in Workers : v # w => tx'[v] = tx[v]
  BY <1>1, <1>4
<1>6. \A v \in Workers : v # w => tx'[v].phase = "idle"
  BY <1>5 DEF Decide, Unlocked
<1>7. Lawful(d)
  <2>1. PICK e \in Event :
          /\ OneEvent(move.events, e)
          /\ e.type = "submit" => row.status = "draft"
          /\ e.type = "joint_evaluation_submit" =>
               /\ e.round = 1
               /\ row.status = "joint_evaluation_chosen"
               /\ move.to \in Evaluated
    BY <1>1
  <2>2. Allows(d, e)
    BY <2>1 DEF Allows
  <2>3. QED
    BY <1>1, <2>2 DEF Lawful, IInv, Positions
<1> HIDE DEF d
<1>8. TypeOK'
  BY <1>1, <1>2, <1>3, <1>4 DEF IInv, TypeOK, d
<1>9. Exclusive'
  BY <1>6 DEF Exclusive
<1>10. ReadStaysValid'
  BY <1>3, <1>5, <1>6 DEF ReadStaysValid, d
<1>11. DecisionsLawful'
  <2>1. Lawful(d)'
    BY <1>3, <1>7 DEF Lawful, Allows, Recorded, d
  <2>2. QED
    BY <1>3, <1>5, <1>6, <1>7 DEF DecisionsLawful, Lawful, Allows, Recorded
<1>12. Positions' /\ TransmittedOnce'
  BY <1>3 DEF IInv, Positions, TransmittedOnce, Recorded
<1>13. QED
  BY <1>8, <1>9, <1>10, <1>11, <1>12 DEF IInv

LEMMA SubmitKeeps ==
  ASSUME IInv, NEW w \in Workers, NEW gap \in BOOLEAN, Submit(w, gap)
  PROVE  IInv'
<1>1. above \in BOOLEAN /\ hasCse \in BOOLEAN
  BY DEF IInv, TypeOK
<1> DEFINE moves == SubmitMoves(row.status, above, hasCse, TRUE, gap)
<1>2. ASSUME NEW move \in moves
      PROVE  /\ Proper(move)
             /\ move.to \notin SecondRound \union {"draft"}
             /\ row.status = "draft"
             /\ OneEvent(move.events, Ev("submit"))
  <2>1. row.status \in Status
    BY DEF IInv, TypeOK, Row
  <2>2. Proper(move)
    BY <1>1, <2>1, ProperMoves
  <2>3. /\ row.status = "draft"
        /\ OneEvent(move.events, Ev("submit"))
        /\ move.to \in {"awaiting_compliance_path_choice",
                       "awaiting_cse_opinion", "demarche_completed"}
    BY <1>1, <1>2, SubmitMovesAre
  <2>4. QED
    BY <2>2, <2>3 DEF SecondRound
<1>3. moves # {} => ~Recorded(journal, "joint_evaluation_submit")
  BY <1>2 DEF IInv, Positions, Evaluated
<1>4. Ev("submit") \in Event /\ Ev("submit").type = "submit"
  BY EventsAreEvents DEF Ev
<1>5. CseRequired(above, hasCse) \in BOOLEAN
  BY <1>1 DEF CseRequired
<1>6. Decide(w, moves, TRUE, CseRequired(above, hasCse))
  BY DEF Submit
<1> HIDE DEF moves
<1>7. QED
  BY <1>2, <1>3, <1>4, <1>5, <1>6, DecideKeeps

LEMMA SaveCompliancePathKeeps ==
  ASSUME IInv, NEW w \in Workers, NEW path \in Path, SaveCompliancePath(w, path)
  PROVE  IInv'
<1> DEFINE moves == ChoosePathMoves(FactsOfRow, path)
<1>1. FactsOfRow \in Facts
  BY FactsTyped DEF IInv
<1>2. ASSUME NEW move \in moves
      PROVE  /\ Proper(move)
             /\ move.to \notin SecondRound \union {"draft"}
             /\ OneEvent(move.events, PathChoice(path, 1))
             /\ path = "justify" => move.to \in Evaluated
  <2>1. Proper(move)
    BY <1>1, ProperMoves
  <2>2. /\ FactsOfRow.second = None
        /\ FactsOfRow.currentState = row.status
        /\ row.status \notin SecondRound
    BY DEF FactsOfRow, IInv, Positions
  <2>3. ReplayState(FactsOfRow) # "awaiting_revision_choice"
    BY <2>2 DEF ReplayState, RevisesInitialChoice, RevisesRevisedChoice,
                SecondRound, None
  <2>4. QED
    BY <1>1, <2>1, <2>3, ChoosePathMovesAre DEF Evaluated, SecondRound
<1>3. PathChoice(path, 1) \in Event /\ PathChoice(path, 1).type = "path_choice"
  <2>1. PathChoice(path, 1) \in Event
    BY EventsAreEvents
  <2>2. QED
    BY <2>1 DEF PathChoice
(* Once an evaluation was transmitted no choice may be made.               *)
<1>4. ~Recorded(journal, "joint_evaluation_submit")
  BY DEF SaveCompliancePath, PathChoiceLocked, Recorded, IInv, Positions
<1>5. Decide(w, moves, FALSE, FALSE)
  BY DEF SaveCompliancePath
<1> HIDE DEF moves
<1>6. QED
  BY <1>2, <1>3, <1>4, <1>5, DecideKeeps

LEMMA SubmitJointEvaluationKeeps ==
  ASSUME IInv, NEW w \in Workers, SubmitJointEvaluation(w)
  PROVE  IInv'
<1> DEFINE moves == JointEvaluationMoves(FactsOfRow)
<1>1. FactsOfRow \in Facts /\ FactsOfRow.currentState = row.status
  BY FactsTyped DEF IInv, FactsOfRow
<1>2. ASSUME NEW move \in moves
      PROVE  /\ Proper(move)
             /\ row.status = "joint_evaluation_chosen"
             /\ move.to \in Evaluated
             /\ OneEvent(move.events, RoundEv("joint_evaluation_submit", 1))
  <2>1. Proper(move)
    BY <1>1, ProperMoves
  <2>2. row.status # "revised_joint_evaluation_chosen"
    BY DEF IInv, Positions, SecondRound
  <2>3. QED
    BY <1>1, <2>1, <2>2, JointEvaluationMovesAre DEF Evaluated
<1>3. /\ RoundEv("joint_evaluation_submit", 1) \in Event
      /\ RoundEv("joint_evaluation_submit", 1).type = "joint_evaluation_submit"
      /\ RoundEv("joint_evaluation_submit", 1).round = 1
  BY EventsAreEvents DEF RoundEv
<1>4. Decide(w, moves, FALSE, FALSE)
  BY DEF SubmitJointEvaluation
<1> HIDE DEF moves
<1>5. \A move \in moves : move.to \notin SecondRound \union {"draft"}
  BY <1>2 DEF Evaluated, SecondRound
<1>6. QED
  BY <1>2, <1>3, <1>4, <1>5, DecideKeeps

LEMMA FinalizeCseOpinionKeeps ==
  ASSUME IInv, NEW w \in Workers, FinalizeCseOpinion(w)
  PROVE  IInv'
<1> DEFINE moves == CseOpinionMoves(FactsOfRow)
<1>1. FactsOfRow \in Facts
  BY FactsTyped DEF IInv
<1>2. ASSUME NEW move \in moves
      PROVE  /\ Proper(move)
             /\ move.to = "demarche_completed"
             /\ OneEvent(move.events, Ev("cse_opinion_submit"))
  BY <1>1, ProperMoves, CseOpinionMovesAre
<1>3. /\ Ev("cse_opinion_submit") \in Event
      /\ Ev("cse_opinion_submit").type = "cse_opinion_submit"
  BY EventsAreEvents DEF Ev
<1>4. Decide(w, moves, FALSE, FALSE)
  BY DEF FinalizeCseOpinion
<1> HIDE DEF moves
<1>5. "demarche_completed" \in Evaluated \ (SecondRound \union {"draft"})
  BY DEF Evaluated, SecondRound
<1>6. QED
  BY <1>2, <1>3, <1>4, <1>5, DecideKeeps

(***************************************************************************)
(* The end of a transaction.                                               *)
(***************************************************************************)
LEMMA EndKeeps ==
  ASSUME IInv, NEW w \in Workers, tx[w].phase = "decided",
         tx' = [tx EXCEPT ![w] = Idle]
  PROVE  \A v \in Workers : tx'[v] = Idle /\ tx'[v].phase = "idle"
BY SlotsTyped DEF IInv, TypeOK, Exclusive, Idle

LEMMA AbortKeeps ==
  ASSUME IInv, NEW w \in Workers, Abort(w)
  PROVE  IInv'
<1>1. \A v \in Workers : tx'[v] = Idle /\ tx'[v].phase = "idle"
  BY EndKeeps DEF Abort
<1>2. UNCHANGED << row, journal, clock, hasCse, above, sync >>
  BY DEF Abort, company
<1>3. tx' \in [Workers -> {Idle} \union Decision]
  BY <1>1 DEF Abort, IInv, TypeOK
<1>4. TypeOK'
  BY <1>2, <1>3 DEF IInv, TypeOK
<1>5. Exclusive' /\ ReadStaysValid' /\ DecisionsLawful'
  BY <1>1 DEF Exclusive, ReadStaysValid, DecisionsLawful
<1>6. Positions' /\ TransmittedOnce'
  BY <1>2 DEF IInv, Positions, TransmittedOnce, Recorded
<1>7. QED
  BY <1>4, <1>5, <1>6 DEF IInv

(* What a commit adds to the journal: the decided event, dated, and maybe  *)
(* the completion.                                                         *)
LEMMA CommitKeeps ==
  ASSUME IInv, NEW w \in Workers, Commit(w)
  PROVE  IInv'
<1> DEFINE d == tx[w]
<1>1. d \in Decision /\ Lawful(d)
  BY SlotsTyped DEF Commit, IInv, DecisionsLawful
<1>2. \A v \in Workers : tx'[v] = Idle /\ tx'[v].phase = "idle"
  BY EndKeeps DEF Commit
<1>3. /\ UNCHANGED << hasCse, above, sync >>
      /\ row'.status = d.to
      /\ clock < MaxTime /\ clock' = clock + 1
      /\ journal' = journal \union Dated(d.events)
  BY DEF Commit, company, Record, IInv, TypeOK, Row
<1>4. PICK e \in Event : Allows(d, e)
  BY <1>1 DEF Lawful
<1>5. \A x \in Dated(d.events) :
        /\ x.at = clock + 1
        /\ \/ x.type = "demarche_complete"
           \/ x.type = e.type /\ x.value = e.value /\ x.round = e.round
  BY <1>4 DEF Dated, Allows, OneEvent, Complete, Ev
<1>6. \A x, y \in Dated(d.events) :
        x.type = y.type /\ x.type # "demarche_complete" => x = y
  <2>1. ASSUME NEW a \in d.events, NEW b \in d.events,
               a.type = b.type, a.type # "demarche_complete"
        PROVE  a = b
    BY <1>4, <2>1, OneOfAType DEF Allows
  <2>2. QED
    BY <2>1 DEF Dated
<1>7. TypeOK'
  <2>1. tx' \in [Workers -> {Idle} \union Decision]
    BY <1>2 DEF Commit, IInv, TypeOK
  <2>2. d.events \subseteq Event /\ d.to \in Status
        /\ d.cseRequired \in BOOLEAN /\ d.snapshot \in BOOLEAN
    BY <1>1 DEF Decision
  <2>3. clock' \in 0..MaxTime /\ clock + 1 \in 1..MaxTime
    BY <1>3, RaceAssumption DEF IInv, TypeOK
  <2>4. Dated(d.events) \subseteq
          [ type : EventType, value : Path \union {None},
            round : 0..2, at : 1..MaxTime ]
    BY <2>2, <2>3 DEF Dated, Event
  <2>5. row' \in Row
    <3>1. row \in Row
      BY DEF IInv, TypeOK
    <3>2. ProjectedChoice(d.events, 1, row.first) \in Path \union {None}
      <4>1. Proper([to |-> d.to, events |-> d.events])
        BY <1>4, <2>2 DEF Proper, Allows
      <4>2. QED
        BY <3>1, <4>1, ProperEvents DEF Row
    <3>3. QED
      BY <2>2, <3>1, <3>2 DEF Commit, Row
  <2>6. QED
    BY <1>3, <2>1, <2>3, <2>4, <2>5 DEF IInv, TypeOK
<1>8. Exclusive' /\ ReadStaysValid' /\ DecisionsLawful'
  BY <1>2 DEF Exclusive, ReadStaysValid, DecisionsLawful
<1>9. Positions'
  BY <1>1, <1>3, <1>4, <1>5 DEF Positions, Lawful, Allows, Recorded, IInv, Evaluated
<1>10. TransmittedOnce'
  <2> SUFFICES ASSUME NEW x \in journal', NEW y \in journal',
                      x.type = y.type,
                      x.type \in {"submit", "joint_evaluation_submit"}
               PROVE  x = y
    BY DEF TransmittedOnce
  <2>1. CASE x \in journal /\ y \in journal
    BY <2>1 DEF IInv, TransmittedOnce
  <2>2. CASE x \in Dated(d.events) /\ y \in Dated(d.events)
    BY <1>6, <2>2
(* An old entry of the type the decision records contradicts its reading.  *)
  <2>3. ASSUME NEW old \in journal, NEW new \in Dated(d.events),
               old.type = new.type,
               old.type \in {"submit", "joint_evaluation_submit"}
        PROVE  FALSE
    <3>1. Recorded(journal, old.type) /\ e.type = old.type
      BY <1>5, <2>3 DEF Recorded
    <3>2. QED
      BY <1>1, <1>4, <2>3, <3>1 DEF Lawful, Allows, Evaluated
  <2>4. QED
    BY <1>3, <2>1, <2>2, <2>3
<1>11. QED
  BY <1>7, <1>8, <1>9, <1>10 DEF IInv

(***************************************************************************)
(* Steps of a realignment.                                                 *)
(***************************************************************************)
(* What a realignment owes, as it is kept in its slot.                     *)
LEMMA ResolvedTyped ==
  ASSUME TypeOK, NEW h \in BOOLEAN, NEW a \in BOOLEAN
  PROVE  Resolved(h, a) \in Sync
<1>1. CseRequired(a, h) \in BOOLEAN
  BY DEF CseRequired
<1>2. Reconciliation(row.status, row.cseRequired, CseRequired(a, h))
        \in {"none", "refresh-snapshot", "release"}
  BY DEF Reconciliation
<1>3. QED
  BY <1>1, <1>2 DEF Resolved, Sync

(* A realignment that has not written a status yet disturbs nothing a      *)
(* transaction relies on.                                                  *)
LEMMA QuietSyncKeeps ==
  ASSUME IInv, TypeOK', UNCHANGED << journal, tx >>, row'.status = row.status
  PROVE  IInv'
<1>1. Exclusive' /\ ReadStaysValid'
  BY DEF IInv, Exclusive, ReadStaysValid
<1>2. Positions' /\ TransmittedOnce'
  BY DEF IInv, Positions, TransmittedOnce, Recorded
<1>3. DecisionsLawful'
  BY DEF IInv, DecisionsLawful, Lawful, Recorded, Allows
<1>4. QED
  BY <1>1, <1>2, <1>3 DEF IInv

LEMMA AnswerKeeps ==
  ASSUME IInv, NEW s \in Syncs, NEW answer \in BOOLEAN, Answer(s, answer)
  PROVE  IInv'
<1>1. [ phase |-> "answered", hasCse |-> answer, above |-> above ] \in Sync
  BY DEF IInv, TypeOK, Sync
<1>2. TypeOK'
  BY <1>1 DEF Answer, IInv, TypeOK
<1>3. QED
  BY <1>2, QuietSyncKeeps DEF Answer

LEMMA ReadAnsweredKeeps ==
  ASSUME IInv, NEW s \in Syncs, ReadAnswered(s)
  PROVE  IInv'
<1>1. sync[s].hasCse \in BOOLEAN /\ sync[s].above \in BOOLEAN
  <2>1. sync[s] \in Sync /\ sync[s].phase = "answered"
    BY DEF ReadAnswered, IInv, TypeOK
  <2>2. QED
    BY <2>1 DEF Sync, Idle
<1>2. Resolved(sync[s].hasCse, sync[s].above) \in Sync
  BY <1>1, ResolvedTyped DEF IInv
<1>3. TypeOK'
  BY <1>2 DEF ReadAnswered, company, IInv, TypeOK
<1>4. QED
  BY <1>3, QuietSyncKeeps DEF ReadAnswered

LEMMA ImportGipKeeps ==
  ASSUME IInv, NEW s \in Syncs, NEW headcount \in BOOLEAN,
         ImportGip(s, headcount)
  PROVE  IInv'
<1>1. [ phase |-> "imported" ] \in Sync
  BY DEF Sync
<1>2. TypeOK'
  BY <1>1 DEF ImportGip, IInv, TypeOK
<1>3. QED
  BY <1>2, QuietSyncKeeps DEF ImportGip

LEMMA ReadImportedKeeps ==
  ASSUME IInv, NEW s \in Syncs, ReadImported(s)
  PROVE  IInv'
<1>1. Resolved(hasCse, above) \in Sync /\ Idle \in Sync
  BY ResolvedTyped DEF IInv, TypeOK, Sync
<1>2. TypeOK'
  BY <1>1 DEF ReadImported, company, IInv, TypeOK
<1>3. QED
  BY <1>2, QuietSyncKeeps DEF ReadImported

(* A realignment under way knows what it will store.                       *)
LEMMA RequiredTyped ==
  ASSUME TypeOK, NEW s \in Syncs,
         sync[s].phase \in {"refresh-snapshot", "release"}
  PROVE  sync[s].required \in BOOLEAN /\ Idle \in Sync
<1>1. sync[s] \in Sync
  BY DEF TypeOK
<1>2. QED
  BY <1>1 DEF Sync, Idle

LEMMA RefreshSnapshotKeeps ==
  ASSUME IInv, NEW s \in Syncs, RefreshSnapshot(s)
  PROVE  IInv'
<1>1. sync[s].required \in BOOLEAN /\ Idle \in Sync
  BY RequiredTyped DEF RefreshSnapshot, IInv
<1>2. row' \in Row /\ row'.status = row.status
  BY <1>1 DEF RefreshSnapshot, IInv, TypeOK, Row
<1>3. TypeOK'
  BY <1>1, <1>2 DEF RefreshSnapshot, company, IInv, TypeOK
<1>4. QED
  BY <1>2, <1>3, QuietSyncKeeps DEF RefreshSnapshot

(* A release writes a status behind the back of a transaction, but only    *)
(* the completed one, and journals nothing but the completion.             *)
LEMMA ReleaseKeeps ==
  ASSUME IInv, NEW s \in Syncs, Release(s)
  PROVE  IInv'
<1>1. PICK move \in SyncMoves("awaiting_cse_opinion", sync[s].required) :
        /\ Record(move.events)
        /\ row' = [row EXCEPT !.status = move.to,
                              !.cseRequired = sync[s].required]
  BY DEF Release
<1>2. sync[s].required \in BOOLEAN /\ Idle \in Sync
  BY RequiredTyped DEF Release, IInv
<1>3. move.to = "demarche_completed" /\ OneEvent(move.events, Complete)
  BY <1>1, <1>2, SyncMovesAre
<1>4. /\ UNCHANGED << hasCse, above, tx >>
      /\ row' \in Row
      /\ row'.status = "demarche_completed"
      /\ clock < MaxTime /\ clock' = clock + 1
      /\ journal' = journal \union Dated(move.events)
  BY <1>1, <1>2, <1>3 DEF Release, company, Record, IInv, TypeOK, Row, Status
<1>5. Complete \in Event /\ Complete.type = "demarche_complete"
  BY DEF Complete, Ev, Event, EventType
<1>6. \A x \in Dated(move.events) : x.type = "demarche_complete"
  BY <1>3, <1>5 DEF Dated, OneEvent
<1>7. TypeOK'
  <2>1. clock' \in 0..MaxTime /\ clock + 1 \in 1..MaxTime
    BY <1>4, RaceAssumption DEF IInv, TypeOK
  <2>2. Dated(move.events) \subseteq
          [ type : EventType, value : Path \union {None},
            round : 0..2, at : 1..MaxTime ]
    BY <1>3, <1>5, <2>1 DEF Dated, OneEvent, Event
  <2>3. sync' \in [Syncs -> Sync]
    BY <1>2 DEF Release, IInv, TypeOK
  <2>4. QED
    BY <1>4, <2>1, <2>2, <2>3 DEF IInv, TypeOK
<1>8. Exclusive' /\ ReadStaysValid'
  BY <1>4 DEF IInv, Exclusive, ReadStaysValid
<1>9. \A type \in {"submit", "joint_evaluation_submit"} :
        Recorded(journal', type) => Recorded(journal, type)
  BY <1>4, <1>6 DEF Recorded
<1>10. Positions'
  BY <1>4, <1>6 DEF IInv, Positions, SecondRound, Evaluated
<1>11. DecisionsLawful'
  BY <1>4, <1>9 DEF IInv, DecisionsLawful, Lawful, Allows
<1>12. TransmittedOnce'
  BY <1>4, <1>6 DEF IInv, TransmittedOnce
<1>13. QED
  BY <1>7, <1>8, <1>10, <1>11, <1>12 DEF IInv

(***************************************************************************)
(* The invariant holds in every behaviour.                                 *)
(***************************************************************************)
LEMMA InitEstablishes == Init => IInv
<1> SUFFICES ASSUME Init PROVE IInv
  OBVIOUS
<1>1. TypeOK
  BY RaceAssumption DEF Init, TypeOK, Row, Status, Sync, Idle
<1>2. \A w \in Workers : tx[w].phase # "decided"
  BY DEF Init, Idle
<1>3. Exclusive /\ ReadStaysValid /\ DecisionsLawful
  BY <1>2 DEF Exclusive, ReadStaysValid, DecisionsLawful
<1>4. Positions /\ TransmittedOnce
  BY DEF Init, Positions, TransmittedOnce, Recorded, SecondRound
<1>5. QED
  BY <1>1, <1>3, <1>4 DEF IInv

LEMMA StepKeeps == IInv /\ [Next]_vars => IInv'
<1> SUFFICES ASSUME IInv, [Next]_vars PROVE IInv'
  OBVIOUS
<1>1. ASSUME NEW w \in Workers, NEW gap \in BOOLEAN, Submit(w, gap)
      PROVE  IInv'
  BY <1>1, SubmitKeeps
<1>2. ASSUME NEW w \in Workers, NEW path \in {"justify", "joint_evaluation"},
             SaveCompliancePath(w, path)
      PROVE  IInv'
  BY <1>2, SaveCompliancePathKeeps DEF Path
<1>3. ASSUME NEW w \in Workers, SubmitJointEvaluation(w)
      PROVE  IInv'
  BY <1>3, SubmitJointEvaluationKeeps
<1>4. ASSUME NEW w \in Workers, FinalizeCseOpinion(w)
      PROVE  IInv'
  BY <1>4, FinalizeCseOpinionKeeps
<1>5. ASSUME NEW w \in Workers, Commit(w) \/ Abort(w)
      PROVE  IInv'
  BY <1>5, CommitKeeps, AbortKeeps
<1>6. ASSUME NEW s \in Syncs,
             \/ \E answer \in BOOLEAN : Answer(s, answer)
             \/ ReadAnswered(s)
             \/ \E headcount \in BOOLEAN : ImportGip(s, headcount)
             \/ ReadImported(s)
             \/ RefreshSnapshot(s)
             \/ Release(s)
      PROVE  IInv'
  BY <1>6, AnswerKeeps, ReadAnsweredKeeps, ImportGipKeeps, ReadImportedKeeps,
     RefreshSnapshotKeeps, ReleaseKeeps
<1>7. CASE UNCHANGED vars
  <2>1. TypeOK'
    BY <1>7 DEF vars, company, IInv, TypeOK
  <2>2. QED
    BY <1>7, <2>1, QuietSyncKeeps DEF vars
<1>8. QED
  BY <1>1, <1>2, <1>3, <1>4, <1>5, <1>6, <1>7 DEF Next

(* The rows, the journal and what the transactions carry are well formed.  *)
THEOREM Typing == Spec => []TypeOK
<1>1. IInv => TypeOK
  BY DEF IInv
<1>2. QED
  BY <1>1, InitEstablishes, StepKeeps, PTL DEF Spec

(* lockAndReadDeclaration serialises the mutations: whatever the number of *)
(* requests and of realignments, when a transaction commits the status is  *)
(* the one it read or the démarche was completed under it.                 *)
THEOREM ReadStands == Spec => []ReadStaysValid
<1>1. IInv => ReadStaysValid
  BY DEF IInv
<1>2. QED
  BY <1>1, InitEstablishes, StepKeeps, PTL DEF Spec

(* A double click, in any number, transmits once.                          *)
THEOREM Once == Spec => []TransmittedOnce
<1>1. IInv => TransmittedOnce
  BY DEF IInv
<1>2. QED
  BY <1>1, InitEstablishes, StepKeeps, PTL DEF Spec

(***************************************************************************)
(* Split where it can be, a mutation still does what the rules say, but    *)
(* for two windows that the realignment opens.                             *)
(***************************************************************************)
ReadFacts(s, c) ==
  [ currentState |-> s, cseRequired |-> c, first |-> row.first,
    second |-> None, opinion1 |-> None, opinion2 |-> None ]

(* The row and the journal after one of these moves.                       *)
Applies(moves) ==
  \E move \in moves :
    /\ row'.status = move.to
    /\ row'.first  = ProjectedChoice(move.events, 1, row.first)
    /\ journal'    = journal \union Dated(move.events)

(* One transition of the rule set, from the status and the choice that are *)
(* in the row, with the events that it records.                            *)
Transition ==
  \/ \E a, h, gap \in BOOLEAN : Applies(SubmitMoves(row.status, a, h, TRUE, gap))
  \/ \E c \in BOOLEAN :
       LET f == ReadFacts(row.status, c) IN
       \/ \E path \in Path : Applies(ChoosePathMoves(f, path))
       \/ Applies(JointEvaluationMoves(f))
       \/ Applies(CseOpinionMoves(f))
       \/ Applies(SyncMoves(row.status, c))

(* A commit that a release completed the démarche under.                   *)
Overtaken(w) == Commit(w) /\ row.status # tx[w].read

(* A release that comes when the status it read is no more.                *)
ComesLate(s) == Release(s) /\ row.status # "awaiting_cse_opinion"

RulesDecide ==
  [][\/ UNCHANGED << row.status, row.first, journal >>
     \/ Transition
     \/ \E w \in Workers : Overtaken(w)
     \/ \E s \in Syncs : ComesLate(s)]_vars

(* What a decision will write is a move of the engine, from the status it  *)
(* read and the choice that is still in the row.                           *)
Among(d, moves) ==
  \E move \in moves : d.to = move.to /\ d.events = move.events

Asked(d) ==
  \/ \E a, h, gap \in BOOLEAN : Among(d, SubmitMoves(d.read, a, h, TRUE, gap))
  \/ \E c \in BOOLEAN :
       \/ \E path \in Path : Among(d, ChoosePathMoves(ReadFacts(d.read, c), path))
       \/ Among(d, JointEvaluationMoves(ReadFacts(d.read, c)))
       \/ Among(d, CseOpinionMoves(ReadFacts(d.read, c)))

AllAsked == \A w \in Workers : tx[w].phase = "decided" => Asked(tx[w])

RulesInv == IInv /\ AllAsked

LEMMA DecideAsks ==
  ASSUME IInv, NEW w \in Workers, NEW moves, NEW snapshot, NEW cseRequired,
         Decide(w, moves, snapshot, cseRequired)
  PROVE  /\ row' = row
         /\ tx'[w].read = row.status /\ Among(tx'[w], moves)
         /\ \A v \in Workers \ {w} : tx'[v].phase = "idle"
<1>1. PICK move \in moves :
        tx' = [tx EXCEPT ![w] =
                 [ phase |-> "decided", read |-> row.status,
                   to |-> move.to, events |-> move.events,
                   snapshot |-> snapshot, cseRequired |-> cseRequired ]]
  BY DEF Decide
<1>2. tx \in [Workers -> {Idle} \union Decision]
  BY DEF IInv, TypeOK
<1>3. \A v \in Workers \ {w} : tx'[v] = tx[v]
  BY <1>1, <1>2
<1>4. tx'[w].read = row.status /\ tx'[w].to = move.to
      /\ tx'[w].events = move.events
  BY <1>1, <1>2
<1>5. QED
  BY <1>3, <1>4 DEF Decide, Unlocked, Among

LEMMA AllAskedStep == RulesInv /\ [Next]_vars => AllAsked'
<1> SUFFICES ASSUME RulesInv, [Next]_vars  PROVE AllAsked'
  OBVIOUS
<1>1. IInv /\ AllAsked /\ row.cseRequired \in BOOLEAN
      /\ above \in BOOLEAN /\ hasCse \in BOOLEAN
  BY DEF RulesInv, IInv, TypeOK, Row
<1>2. FactsOfRow = ReadFacts(row.status, row.cseRequired)
  BY DEF FactsOfRow, ReadFacts
<1>3. ASSUME NEW w \in Workers, tx'[w].phase = "decided" => Asked(tx[w])',
             \A v \in Workers \ {w} : tx'[v].phase = "idle"
      PROVE  AllAsked'
  BY <1>3 DEF AllAsked
<1>4. ASSUME NEW w \in Workers, NEW gap \in BOOLEAN, Submit(w, gap)
      PROVE  AllAsked'
  <2>1. Decide(w, SubmitMoves(row.status, above, hasCse, TRUE, gap), TRUE,
               CseRequired(above, hasCse))
    BY <1>4 DEF Submit
  <2>2. /\ tx'[w].read = row.status
        /\ Among(tx'[w], SubmitMoves(row.status, above, hasCse, TRUE, gap))
        /\ \A v \in Workers \ {w} : tx'[v].phase = "idle"
    BY <1>1, <2>1, DecideAsks
  <2>3. Asked(tx[w])'
    BY <1>1, <2>2 DEF Asked, Among
  <2>4. QED
    BY <1>3, <2>2, <2>3
<1>5. ASSUME NEW w \in Workers, NEW moves,
             Decide(w, moves, FALSE, FALSE),
             \/ \E path \in Path : moves = ChoosePathMoves(FactsOfRow, path)
             \/ moves = JointEvaluationMoves(FactsOfRow)
             \/ moves = CseOpinionMoves(FactsOfRow)
      PROVE  AllAsked'
  <2>1. /\ row' = row
        /\ tx'[w].read = row.status
        /\ Among(tx'[w], moves)
        /\ \A v \in Workers \ {w} : tx'[v].phase = "idle"
    BY <1>1, <1>5, DecideAsks
  <2>2. \A s, c : ReadFacts(s, c)' = ReadFacts(s, c)
    BY <2>1 DEF ReadFacts
  <2> DEFINE d == tx'[w]
             c == row.cseRequired
  <2>3. \/ \E path \in Path :
             Among(d, ChoosePathMoves(ReadFacts(d.read, c), path))
        \/ Among(d, JointEvaluationMoves(ReadFacts(d.read, c)))
        \/ Among(d, CseOpinionMoves(ReadFacts(d.read, c)))
    BY <1>2, <1>5, <2>1
  <2>4. Asked(tx[w])'
    BY <1>1, <2>2, <2>3 DEF Asked, Among
  <2>5. QED
    BY <1>3, <2>1, <2>4
<1>6. ASSUME NEW w \in Workers, Commit(w) \/ Abort(w)
      PROVE  AllAsked'
  <2>1. \A v \in Workers : tx'[v].phase = "idle"
    BY <1>1, <1>6, EndKeeps DEF Commit, Abort
  <2>2. QED
    BY <2>1 DEF AllAsked
<1>7. ASSUME tx' = tx, row'.first = row.first
      PROVE  AllAsked'
  <2>1. \A s, c : ReadFacts(s, c)' = ReadFacts(s, c)
    BY <1>7 DEF ReadFacts
  <2>2. \A w \in Workers : Asked(tx[w]) => Asked(tx[w])'
    BY <1>7, <2>1 DEF Asked, Among
  <2>3. QED
    BY <1>1, <1>7, <2>2 DEF AllAsked
<1>8. ASSUME NEW s \in Syncs,
             \/ \E answer \in BOOLEAN : Answer(s, answer)
             \/ ReadAnswered(s)
             \/ \E headcount \in BOOLEAN : ImportGip(s, headcount)
             \/ ReadImported(s)
             \/ RefreshSnapshot(s)
             \/ Release(s)
      PROVE  tx' = tx /\ row'.first = row.first
  BY <1>1, <1>8 DEF Answer, ReadAnswered, ImportGip, ReadImported,
                    RefreshSnapshot, Release, IInv, TypeOK, Row
<1>9. QED
  BY <1>4, <1>5, <1>6, <1>7, <1>8
  DEF Next, SaveCompliancePath, SubmitJointEvaluation, FinalizeCseOpinion,
      vars, Path

(* A commit on the status that its transaction read.                       *)
LEMMA CommitFollows ==
  ASSUME RulesInv, NEW w \in Workers, Commit(w), row.status = tx[w].read
  PROVE  Transition
<1> DEFINE d == tx[w]
<1>1. row \in Row /\ Asked(d)
  BY DEF Commit, RulesInv, AllAsked, IInv, TypeOK
<1>2. /\ row'.status = d.to
      /\ row'.first = ProjectedChoice(d.events, 1, row.first)
      /\ journal' = journal \union Dated(d.events)
      /\ d.read = row.status
  BY <1>1 DEF Commit, Record, Row
<1> HIDE DEF d
<1>3. \A moves : Among(d, moves) => Applies(moves)
  BY <1>2 DEF Among, Applies
<1>4. QED
  BY <1>1, <1>2, <1>3 DEF Asked, Transition

(* A release of a démarche that still waits for the opinion.               *)
LEMMA ReleaseFollows ==
  ASSUME IInv, NEW s \in Syncs, Release(s), row.status = "awaiting_cse_opinion"
  PROVE  Transition
<1> DEFINE c == sync[s].required
<1>1. PICK move \in SyncMoves(row.status, c) :
        /\ row' = [row EXCEPT !.status = move.to, !.cseRequired = c]
        /\ journal' = journal \union Dated(move.events)
  BY DEF Release, Record
<1>2. c \in BOOLEAN
  BY RequiredTyped DEF Release, IInv
<1>3. OneEvent(move.events, Complete)
  BY <1>1, <1>2, SyncMovesAre
<1>4. Complete \in Event /\ Complete.type # "path_choice"
  BY EventsAreEvents DEF Complete, Ev
<1>5. row'.status = move.to /\ row'.first = row.first
  BY <1>1 DEF IInv, TypeOK, Row
<1>6. row'.first = ProjectedChoice(move.events, 1, row.first)
  BY <1>3, <1>4, <1>5, ProjectedChoiceIs
<1> HIDE DEF c
<1>7. Applies(SyncMoves(row.status, c))
  BY <1>1, <1>5, <1>6 DEF Applies
<1>8. QED
  BY <1>2, <1>7 DEF Transition

(* Whatever overlaps, status, choice and journal change together as one    *)
(* transition of the rules says, from the status that is in the row: the   *)
(* advisory lock makes the mutations as good as single steps.  The         *)
(* realignment, which does not take it, opens the only two windows: it     *)
(* completes a démarche under a transaction that commits next, or after    *)
(* the status that it read has moved on.                                   *)
THEOREM Serialised == Spec => RulesDecide
<1>1. Init => RulesInv
  BY InitEstablishes DEF RulesInv, Init, AllAsked, Idle
<1>2. RulesInv /\ [Next]_vars => RulesInv'
  BY StepKeeps, AllAskedStep DEF RulesInv
<1>3. RulesInv /\ [Next]_vars =>
        [\/ UNCHANGED << row.status, row.first, journal >>
         \/ Transition
         \/ \E w \in Workers : Overtaken(w)
         \/ \E s \in Syncs : ComesLate(s)]_vars
  <2> SUFFICES ASSUME RulesInv, Next
               PROVE  \/ UNCHANGED << row.status, row.first, journal >>
                      \/ Transition
                      \/ \E w \in Workers : Overtaken(w)
                      \/ \E s \in Syncs : ComesLate(s)
    OBVIOUS
  <2>1. ASSUME NEW w \in Workers, Commit(w)
        PROVE  Transition \/ Overtaken(w)
    BY <2>1, CommitFollows DEF Overtaken
  <2>2. ASSUME NEW s \in Syncs, Release(s)
        PROVE  Transition \/ ComesLate(s)
    BY <2>2, ReleaseFollows DEF ComesLate, RulesInv
  <2>3. ASSUME NEW s \in Syncs, RefreshSnapshot(s)
        PROVE  UNCHANGED << row.status, row.first, journal >>
    BY <2>3 DEF RefreshSnapshot, RulesInv, IInv, TypeOK, Row
  <2>4. QED
    BY <2>1, <2>2, <2>3
    DEF Next, Submit, SaveCompliancePath, SubmitJointEvaluation,
        FinalizeCseOpinion, Decide, Abort, Answer, ReadAnswered, ImportGip,
        ReadImported
<1>4. QED
  BY <1>1, <1>2, <1>3, PTL DEF Spec, RulesDecide
=============================================================================

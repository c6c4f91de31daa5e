----------------------------- MODULE Demarche -----------------------------
(***************************************************************************)
(* The démarche of one company for one campaign year: the declaration row, *)
(* its journal (declaration_status_history) and the data the rule engine   *)
(* is asked about.  One action per mutation of the routers declaration,    *)
(* cseOpinion, formalNotice, company and adminDeclarations, of the upload  *)
(* pipeline and of the CSE-requirement sync.                               *)
(*                                                                         *)
(* Every mutation of the démarche reads and writes inside one transaction  *)
(* that first takes pg_advisory_xact_lock on the declaration, so each is   *)
(* one step here.  The writers that do not take that lock (sync, cancel)   *)
(* are one step each too: this module is the system as long as they do not *)
(* overlap another transaction; CseSyncRace lets them overlap.             *)
(***************************************************************************)
EXTENDS RulesEngine

CONSTANTS
  MaxDeclarations,    (* rows of (siren, year): one per cancellation, plus one *)
  MaxTime,            (* bound on the journal writes of one declaration        *)
  IndicatorSteps,     (* the A-F steps after step 1: a part of 2..4            *)
  CategoryInputs,     (* what a declarant may enter as categories              *)
  Justifications,     (* the gap justifications a declarant may give           *)
  OpinionInputs,      (* what the CSE may answer                               *)
  Answers,            (* the answers to "do you have a CSE": "yes", "no"       *)
  Headcounts,         (* the sides of 100 employees the GIP file may say       *)
  IndicatorGRequired  (* whether indicator G is mandatory, by side of 100      *)

ASSUME DemarcheAssumption ==
  /\ MaxDeclarations \in Nat \ {0}
  /\ MaxTime \in Nat
  /\ IndicatorSteps \subseteq 2..4
  /\ CategoryInputs \subseteq {"empty", "no_gap", "gap"}
  /\ Justifications \subseteq GapJustification
  /\ OpinionInputs \subseteq Opinion
  /\ Answers \subseteq {"yes", "no"}
  /\ Headcounts \subseteq BOOLEAN
  /\ IndicatorGRequired \in [BOOLEAN -> BOOLEAN]

Declarations == 1..MaxDeclarations

(* What the categories of one declaration type say: no category, none with *)
(* a gap of 5 % or more, or at least one.                                  *)
Categories == { "empty", "no_gap", "gap" }

VARIABLES
  row,        (* declarations: the columns the démarche reads               *)
  journal,    (* declaration_status_history, the step_change rows left out  *)
  clock,      (* how many times the journal was written: its dates are ranks *)
  initial,    (* employee categories of type "initial"                      *)
  correction, (* employee categories of type "correction"                   *)
  report,     (* the joint-evaluation file: 0 when none, else n + 1 when    *)
              (* uploaded after the n-th journal write and before the next   *)
  notice,     (* whether a formal-notice report is on file                  *)
  opinions,   (* stored CSE opinions on the gaps of both declarations       *)
  hasCse,     (* companies.has_cse                                          *)
  above       (* GIP workforce >= 100                                       *)

company == << hasCse, above >>
data    == << initial, correction, report, notice, opinions >>
vars    == << row, journal, clock, data, company >>

Row ==
  [ life : {"absent", "active", "cancelled"},
    status : Status, currentStep : 0..6, secondDeclarationStep : 0..3,
    cseRequired : BOOLEAN,
    first : Path \union {None}, second : Path \union {None},
    firstJustification : GapJustification \union {None},
    secondJustification : GapJustification \union {None} ]

Opinions ==
  [ saved : BOOLEAN,
    first : Opinion \union {None}, second : Opinion \union {None} ]

JournalEntry ==
  [ type : EventType, value : Path \union {None}, round : 0..2, at : 1..MaxTime ]

TypeOK ==
  /\ row        \in [Declarations -> Row]
  /\ journal    \in [Declarations -> SUBSET JournalEntry]
  /\ clock      \in [Declarations -> 0..MaxTime]
  /\ initial    \in [Declarations -> Categories]
  /\ correction \in [Declarations -> Categories]
  /\ report     \in [Declarations -> 0..MaxTime + 1]
  /\ notice     \in [Declarations -> BOOLEAN]
  /\ opinions   \in [Declarations -> Opinions]
  /\ hasCse     \in {"unknown", "yes", "no"}
  /\ above      \in BOOLEAN

(***************************************************************************)
(* Reads.                                                                  *)
(***************************************************************************)
NewRow ==
  [ life |-> "absent", status |-> "draft", currentStep |-> 0,
    secondDeclarationStep |-> 0, cseRequired |-> FALSE,
    first |-> None, second |-> None,
    firstJustification |-> None, secondJustification |-> None ]

NoOpinions == [ saved |-> FALSE, first |-> None, second |-> None ]

Active(d) == row[d].life = "active"

FactsOf(d) ==
  [ currentState |-> row[d].status, cseRequired |-> row[d].cseRequired,
    first |-> row[d].first, second |-> row[d].second,
    opinion1 |-> opinions[d].first, opinion2 |-> opinions[d].second ]

(* Mutant: a first declaration is closed with the démarche, by its status. *)
ModifiableByStatus(d) == row[d].status # "demarche_completed"

Modifiable(d) == ~FirstDeclarationSuperseded(journal[d])

SecondDeclarationWritable(d) ==
  row[d].status \in {"corrective_actions_chosen", "awaiting_revision_choice"}

(* Mutant: only another path choice is a departure. *)
DepartureByChoice(e) == e.type = "path_choice" /\ e.value # "joint_evaluation"

(* A journal entry after which an earlier report no longer counts. *)
Departure(e) ==
  \/ e.type = "second_declaration_submit"
  \/ e.type = "path_choice" /\ e.value # "joint_evaluation"

(* findJointEvaluationFile: the report, unless it predates a departure. *)
HasReport(d) ==
  /\ report[d] > 0
  /\ \A e \in journal[d] : Departure(e) => report[d] > e.at

(* getJustificationRequirements: the gaps the CSE must give an opinion on. *)
OpinionDue(categories, justification) ==
  categories = "gap" /\ justification \in {"all", "partial"}

(***************************************************************************)
(* Writes.                                                                 *)
(***************************************************************************)
Dated(events, t) ==
  { [type |-> e.type, value |-> e.value, round |-> e.round, at |-> t] :
      e \in events }

Record(d, events) ==
  /\ clock[d] < MaxTime
  /\ clock' = [clock EXCEPT ![d] = @ + 1]
  /\ journal' = [journal EXCEPT ![d] = @ \union Dated(events, clock[d] + 1)]

(* The row after a move of the engine: status and path choices. *)
Projected(r, move) ==
  [r EXCEPT !.status = move.to,
            !.first  = ProjectedChoice(move.events, 1, @),
            !.second = ProjectedChoice(move.events, 2, @)]

(***************************************************************************)
(* First declaration.                                                      *)
(***************************************************************************)
GetOrCreate(d) ==
  /\ \A e \in Declarations : ~Active(e)
  /\ row[d].life = "absent"
  /\ \A e \in Declarations : e < d => row[e].life # "absent"
  /\ row' = [row EXCEPT ![d] = [NewRow EXCEPT !.life = "active"]]
  /\ UNCHANGED << journal, clock, data, company >>

(* Changed workforce figures drop every category, corrections included. *)
UpdateStep1(d, hasChanged) ==
  /\ Active(d)
  /\ Modifiable(d)
  /\ row' = [row EXCEPT ![d].currentStep = 1]
  /\ IF hasChanged
     THEN /\ initial'    = [initial EXCEPT ![d] = "empty"]
          /\ correction' = [correction EXCEPT ![d] = "empty"]
     ELSE UNCHANGED << initial, correction >>
  /\ UNCHANGED << journal, clock, report, notice, opinions, company >>

UpdateIndicatorStep(d, step) ==
  /\ Active(d)
  /\ Modifiable(d)
  /\ row' = [row EXCEPT ![d].currentStep = step]
  /\ UNCHANGED << journal, clock, data, company >>

(* The initial categories are deleted with their corrections and rewritten. *)
UpdateEmployeeCategories(d, categories) ==
  /\ Active(d)
  /\ Modifiable(d)
  /\ initial'    = [initial EXCEPT ![d] = categories]
  /\ correction' = [correction EXCEPT ![d] = "empty"]
  /\ row' = [row EXCEPT ![d].currentStep = 5]
  /\ UNCHANGED << journal, clock, report, notice, opinions, company >>

Submit(d) ==
  /\ Active(d)
  /\ Modifiable(d)
  /\ LET hasIndicatorG == initial[d] # "empty"
         hasGap        == initial[d] = "gap"
     IN  /\ hasIndicatorG \/ ~IndicatorGRequired[above]
         /\ \E move \in SubmitMoves(row[d].status, above, hasCse = "yes",
                                    hasIndicatorG, hasGap) :
              /\ Record(d, move.events)
              /\ row' = [row EXCEPT ![d] =
                   [Projected(@, move) EXCEPT
                      !.cseRequired = CseRequired(above, hasCse = "yes"),
                      !.currentStep = 6]]
  /\ UNCHANGED << data, company >>

(***************************************************************************)
(* Compliance path, second declaration, joint evaluation.                  *)
(***************************************************************************)
SaveCompliancePath(d, path, justification) ==
  /\ Active(d)
  /\ LET round == CurrentRound(journal[d]) IN
     /\ ~(round = 2 /\ path = "corrective_action")
     /\ path \in PathsFor(justification, round)
     /\ ~PathChoiceLocked(journal[d], round)
     /\ \E move \in ChoosePathMoves(FactsOf(d), path) :
          /\ Record(d, move.events)
          /\ row' = [row EXCEPT ![d] =
               IF round = 2
               THEN [Projected(@, move) EXCEPT
                       !.secondJustification = justification]
               ELSE [Projected(@, move) EXCEPT
                       !.firstJustification = justification]]
  /\ UNCHANGED << data, company >>

(* Mutant: the step counts the saves. *)
SaveCorrectionCounting(d, categories) ==
  /\ Active(d)
  /\ SecondDeclarationWritable(d)
  /\ categories = "empty" => correction[d] = "empty"
  /\ correction' = [correction EXCEPT ![d] =
                      IF initial[d] = "empty" THEN @ ELSE categories]
  /\ row' = [row EXCEPT ![d].secondDeclarationStep = @ + 1]
  /\ UNCHANGED << journal, clock, initial, report, notice, opinions, company >>

(* Only existing job categories receive a correction; an input that leaves *)
(* some out keeps what they had.                                           *)
SaveCorrection(d, categories) ==
  /\ Active(d)
  /\ SecondDeclarationWritable(d)
  /\ categories = "empty" => correction[d] = "empty"
  /\ correction' = [correction EXCEPT ![d] =
                      IF initial[d] = "empty" THEN @ ELSE categories]
  /\ row' = [row EXCEPT ![d].secondDeclarationStep = 2]
  /\ UNCHANGED << journal, clock, initial, report, notice, opinions, company >>

SubmitSecondDeclaration(d) ==
  /\ Active(d)
  /\ correction[d] # "empty"
  /\ \E move \in SecondDeclarationMoves(FactsOf(d), correction[d] = "gap") :
       /\ Record(d, move.events)
       /\ row' = [row EXCEPT ![d] =
            [Projected(@, move) EXCEPT !.secondDeclarationStep = 3]]
  /\ UNCHANGED << data, company >>

(* resolveCurrentDeclarationId: the active row, else the newest cancelled. *)
CurrentDeclaration(d) ==
  \/ Active(d)
  \/ /\ row[d].life = "cancelled"
     /\ \A e \in Declarations : ~Active(e)
     /\ \A e \in Declarations : e > d => row[e].life = "absent"

UploadReport(d) ==
  /\ CurrentDeclaration(d)
  /\ report' = [report EXCEPT ![d] = clock[d] + 1]
  /\ UNCHANGED << row, journal, clock, initial, correction, notice, opinions, company >>

SubmitJointEvaluation(d) ==
  /\ Active(d)
  /\ HasReport(d)
  /\ \E move \in JointEvaluationMoves(FactsOf(d)) :
       /\ Record(d, move.events)
       /\ row' = [row EXCEPT ![d] = Projected(@, move)]
  /\ UNCHANGED << data, company >>

(***************************************************************************)
(* CSE opinion and formal notice.  What must be on file before an opinion  *)
(* is transmitted (PDFs and their content types) is left open here: the    *)
(* opinion may be transmitted whenever the opinions are saved.             *)
(***************************************************************************)
SaveOpinions(d, firstOpinion, secondOpinion) ==
  /\ Active(d)
  /\ opinions' = [opinions EXCEPT ![d] =
       [ saved  |-> TRUE,
         first  |-> IF OpinionDue(initial[d], row[d].firstJustification)
                    THEN firstOpinion ELSE None,
         second |-> IF OpinionDue(correction[d], row[d].secondJustification)
                    THEN secondOpinion ELSE None ]]
  /\ UNCHANGED << row, journal, clock, initial, correction, report, notice,
                  company >>

FinalizeCseOpinion(d) ==
  /\ Active(d)
  /\ opinions[d].saved
  /\ \E move \in CseOpinionMoves(FactsOf(d)) :
       /\ Record(d, move.events)
       /\ row' = [row EXCEPT ![d] = Projected(@, move)]
  /\ UNCHANGED << data, company >>

UploadFormalNotice(d) ==
  /\ CurrentDeclaration(d)
  /\ FormalNoticeMoves(FactsOf(d)) # {}
  /\ notice' = [notice EXCEPT ![d] = TRUE]
  /\ UNCHANGED << row, journal, clock, initial, correction, report, opinions,
                  company >>

SubmitFormalNotice(d) ==
  /\ Active(d)
  /\ notice[d]
  /\ \E move \in FormalNoticeMoves(FactsOf(d)) :
       /\ Record(d, move.events)
       /\ row' = [row EXCEPT ![d] = Projected(@, move)]
  /\ UNCHANGED << data, company >>

(***************************************************************************)
(* The CSE answer and the GIP headcount, and the sync of the snapshot.     *)
(***************************************************************************)
(* Mutant: the sync closes the démarche itself, whatever state it is in. *)
ReconcileUnasked(d, workforceAbove, answer) ==
  LET required == CseRequired(workforceAbove, answer = "yes") IN
  /\ row' = [row EXCEPT ![d].cseRequired = required,
                        ![d].status = IF required THEN @ ELSE "demarche_completed"]
  /\ UNCHANGED << journal, clock >>

(* applyOutcome on the row d, for a company whose answers are given. *)
Reconcile(d, workforceAbove, answer) ==
  LET required == CseRequired(workforceAbove, answer = "yes")
      outcome  == Reconciliation(row[d].status, row[d].cseRequired, required)
  IN  \/ /\ outcome = "none"
         /\ UNCHANGED << row, journal, clock >>
      \/ /\ outcome = "refresh-snapshot"
         /\ row' = [row EXCEPT ![d].cseRequired = required]
         /\ UNCHANGED << journal, clock >>
      \/ /\ outcome = "release"
         /\ \E move \in SyncMoves(row[d].status, required) :
              /\ Record(d, move.events)
              /\ row' = [row EXCEPT ![d] =
                   [Projected(@, move) EXCEPT !.cseRequired = required]]

(* The answer is stored, then the active row is realigned; the two writes  *)
(* are not one transaction, so the process may stop between them.          *)
UpdateHasCse(answer) ==
  /\ above
  /\ hasCse' = answer
  /\ \/ UNCHANGED << row, journal, clock >>
     \/ \E d \in Declarations : Active(d) /\ Reconcile(d, above, answer)
  /\ UNCHANGED << data, above >>

(* company.get fills an unknown answer from the registry, without a sync. *)
ResolveHasCse(answer) ==
  /\ above
  /\ hasCse = "unknown"
  /\ hasCse' = answer
  /\ UNCHANGED << row, journal, clock, data, above >>

(* A reimport of the GIP file moves the headcount across the threshold. *)
ImportGip ==
  /\ above' \in Headcounts \ {above}
  /\ UNCHANGED << row, journal, clock, data, hasCse >>

(* reconcileCseRequirementForYear, for one row that still claims an opinion. *)
ReconcileYear(d) ==
  /\ Active(d)
  /\ row[d].cseRequired
  /\ Reconcile(d, above, hasCse)
  /\ UNCHANGED << data, company >>

(***************************************************************************)
(* Cancellation by an administrator.                                       *)
(***************************************************************************)
Cancel(d) ==
  /\ Active(d)
  /\ Record(d, {Ev("cancel")})
  /\ row' = [row EXCEPT ![d].life = "cancelled"]
  /\ UNCHANGED << data, company >>

Init ==
  /\ row        = [d \in Declarations |-> NewRow]
  /\ journal    = [d \in Declarations |-> {}]
  /\ clock      = [d \in Declarations |-> 0]
  /\ initial    = [d \in Declarations |-> "empty"]
  /\ correction = [d \in Declarations |-> "empty"]
  /\ report     = [d \in Declarations |-> 0]
  /\ notice     = [d \in Declarations |-> FALSE]
  /\ opinions   = [d \in Declarations |-> NoOpinions]
  /\ hasCse = "unknown"
  /\ above \in Headcounts

Next ==
  \/ \E d \in Declarations :
       \/ GetOrCreate(d)
       \/ \E hasChanged \in BOOLEAN : UpdateStep1(d, hasChanged)
       \/ \E step \in IndicatorSteps : UpdateIndicatorStep(d, step)
       \/ \E c \in CategoryInputs : UpdateEmployeeCategories(d, c)
       \/ Submit(d)
       \/ \E p \in Path, j \in Justifications : SaveCompliancePath(d, p, j)
       \/ \E c \in CategoryInputs : SaveCorrection(d, c)
       \/ SubmitSecondDeclaration(d)
       \/ UploadReport(d)
       \/ SubmitJointEvaluation(d)
       \/ \E o1 \in OpinionInputs, o2 \in OpinionInputs \union {None} :
            SaveOpinions(d, o1, o2)
       \/ FinalizeCseOpinion(d)
       \/ UploadFormalNotice(d)
       \/ SubmitFormalNotice(d)
       \/ ReconcileYear(d)
       \/ Cancel(d)
  \/ \E answer \in Answers : UpdateHasCse(answer) \/ ResolveHasCse(answer)
  \/ ImportGip

Spec == Init /\ [][Next]_vars

(***************************************************************************)
(* resolveExportDeclarationId: the row the export readers are shown.       *)
(***************************************************************************)
(* Mutant: drafts are exported too. *)
TransmittedOrDraft(d) == row[d].life # "absent"

Transmitted(d) == row[d].life # "absent" /\ row[d].status # "draft"

ExportDeclaration(d) ==
  /\ Transmitted(d)
  /\ \/ Active(d)
     \/ \A e \in Declarations : Transmitted(e) => ~Active(e) /\ e <= d

(***************************************************************************)
(* Safety.                                                                 *)
(***************************************************************************)
ChoiceColumn(d, r) == IF r = 1 THEN row[d].first ELSE row[d].second

Choices(d, r) == { e \in journal[d] : e.type = "path_choice" /\ e.round = r }

(* Each path-choice column of the row is the value of the newest choice    *)
(* of that round in the journal, and is empty when there is none: the      *)
(* projection never drifts from the events it is derived from.             *)
ProjectionFollowsJournal ==
  \A d \in Declarations, r \in 1..2 :
    \/ ChoiceColumn(d, r) = None /\ Choices(d, r) = {}
    \/ \E e \in Choices(d, r) :
         /\ ChoiceColumn(d, r) = e.value
         /\ \A o \in Choices(d, r) : o.at <= e.at

(* The round comes from the journal, the state and the columns from the    *)
(* row: a second declaration on record means that the corrective action    *)
(* was the first choice and that the state belongs to the second round,    *)
(* and nothing of the second round exists before it.                       *)
RoundMatchesState ==
  \A d \in Declarations :
    IF CurrentRound(journal[d]) = 2
    THEN /\ row[d].first = "corrective_action"
         /\ row[d].status \in
              { "awaiting_revision_choice", "revised_joint_evaluation_chosen",
                "awaiting_cse_opinion", "demarche_completed" }
    ELSE /\ row[d].second = None
         /\ row[d].status \notin
              {"awaiting_revision_choice", "revised_joint_evaluation_chosen"}

(* The justification stored for a round allows the path stored for it,     *)
(* although the column it goes to is picked from the journal's round and   *)
(* the path's column from the state the choice is replayed from.           *)
JustificationMatchesPath ==
  \A d \in Declarations :
    /\ row[d].first # None
         => row[d].first \in PathsFor(row[d].firstJustification, 1)
    /\ row[d].second # None
         => row[d].second \in PathsFor(row[d].secondJustification, 2)
    /\ row[d].first = None  => row[d].firstJustification = None
    /\ row[d].second = None => row[d].secondJustification = None

(* The state of a row, moved by the transitions, and its path choices,     *)
(* projected from the events, name the same path; a row that waits for a   *)
(* choice has none for that round.                                         *)
StateNamesChoice ==
  \A d \in Declarations :
    LET s == row[d].status IN
    /\ s \in {"draft", "awaiting_compliance_path_choice"}
         => row[d].first = None
    /\ s = "corrective_actions_chosen" => row[d].first = "corrective_action"
    /\ s = "joint_evaluation_chosen"   => row[d].first = "joint_evaluation"
    /\ s = "awaiting_revision_choice"  => row[d].second = None
    /\ s = "revised_joint_evaluation_chosen"
         => row[d].second = "joint_evaluation"

(* A démarche waits for the CSE or is closed only when what its choices    *)
(* call for was transmitted: the second declaration after a corrective     *)
(* action, the joint evaluation of the round that chose one.               *)
CompletionEarned ==
  \A d \in Declarations :
    row[d].status \in {"awaiting_cse_opinion", "demarche_completed"} =>
      /\ row[d].first = "corrective_action"
           => Recorded(journal[d], "second_declaration_submit")
      /\ \A r \in 1..2 : ChoiceColumn(d, r) = "joint_evaluation" =>
           \E e \in journal[d] :
             e.type = "joint_evaluation_submit" /\ e.round = r

(* No démarche is parked on the CSE step while its snapshot says that no   *)
(* opinion is owed: the sync releases it, and no move parks it again.      *)
ParkedOnlyWhenOwed ==
  \A d \in Declarations :
    row[d].status = "awaiting_cse_opinion" => row[d].cseRequired

(* A state that waits for a path choice never comes with an event that     *)
(* locks that choice, which would leave no way out of it.                  *)
AwaitedChoiceIsOpen ==
  \A d \in Declarations :
    /\ row[d].status = "awaiting_compliance_path_choice"
         => ~PathChoiceLocked(journal[d], 1)
    /\ row[d].status = "awaiting_revision_choice"
         => ~PathChoiceLocked(journal[d], 2)

(* A formal-notice evaluation on record keeps answering the justification  *)
(* that exposed the company to it: no later choice may replace that path.  *)
FormalNoticeAnswersJustification ==
  \A d \in Declarations :
    Recorded(journal[d], "formal_notice_joint_evaluation_submit") =>
      \/ row[d].second = "justify"
      \/ row[d].second = None /\ row[d].first = "justify"

(* A closed démarche stays closed: no revision, sync or later submission   *)
(* takes it back to an open state.                                         *)
CompletedIsTerminal ==
  [][\A d \in Declarations :
       row[d].status = "demarche_completed" =>
         row'[d].status = "demarche_completed"]_vars

(* Once a later transmission supersedes the first declaration, its         *)
(* categories and its step never change again.                             *)
SupersededIsFrozen ==
  [][\A d \in Declarations :
       FirstDeclarationSuperseded(journal[d]) =>
         /\ initial'[d] = initial[d]
         /\ row'[d].currentStep = row[d].currentStep]_vars

(* Whatever was submitted stays visible to the export readers, itself or   *)
(* through a later submitted declaration: the draft opened after a         *)
(* cancellation never masks the transmitted declaration it replaces.       *)
ExportNeverMasked ==
  \A d \in Declarations :
    Recorded(journal[d], "submit") =>
      \E e \in Declarations :
        e >= d /\ ExportDeclaration(e) /\ Recorded(journal[e], "submit")

(* The report that a revised joint evaluation transmits was uploaded after *)
(* the second declaration: one left over from an abandoned first choice is *)
(* never sent for the second round.                                        *)
RevisedReportIsNew ==
  [][\A d \in Declarations : \A e \in journal'[d] \ journal[d] :
       e.type = "joint_evaluation_submit" /\ e.round = 2 =>
         \A s \in journal[d] :
           s.type = "second_declaration_submit" => report[d] > s.at]_vars

Engine(d) ==
  INSTANCE RulesMachine
    WITH status <- row[d].status, first <- row[d].first, second <- row[d].second

(* Refinement: every write of a row's state and path choices is one        *)
(* transition of the rule engine taken from the state the row is in; no    *)
(* router, sync or upload moves a démarche on its own authority.  (The     *)
(* conjunction of Engine(d)!Transitions over the rows, in a form that is   *)
(* checked step by step.)                                                  *)
EngineDecides ==
  /\ \A d \in Declarations : Engine(d)!Start
  /\ [][\A d \in Declarations :
          UNCHANGED Engine(d)!progress \/ Engine(d)!Transition]_vars
=============================================================================

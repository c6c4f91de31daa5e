-------------------------- MODULE DemarcheReaders --------------------------
(***************************************************************************)
(* What others conclude from the row, the journal and the files of a       *)
(* démarche, each with rules of its own: the panel of "mon espace" (what   *)
(* the declarant is invited to do) and the reminder queries of the         *)
(* notification worker (who is asked for what).  Nothing here writes; the  *)
(* properties say that these readings agree with what Demarche accepts.    *)
(***************************************************************************)
EXTENDS Demarche

-----------------------------------------------------------------------------
(* The panel of "mon espace"                                               *)

(* getCurrentCompliancePath *)
CurrentPath(d) == IF row[d].second # None THEN row[d].second ELSE row[d].first

CseOpinionResolved(d) ==
  ~row[d].cseRequired \/ Recorded(journal[d], "cse_opinion_submit")

PanelVariant(d) ==
  CASE row[d].status = "draft" -> "start"
    [] row[d].status \in
         {"awaiting_compliance_path_choice", "awaiting_revision_choice"}
       -> "compliance_choice"
    [] row[d].status = "corrective_actions_chosen" -> "compliance"
    [] row[d].status \in
         {"joint_evaluation_chosen", "revised_joint_evaluation_chosen"}
       -> "evaluation"
    [] row[d].status = "awaiting_cse_opinion" -> "cse"
    [] row[d].status = "demarche_completed"
       -> IF CseOpinionResolved(d) THEN "closed" ELSE "cse"

(* Mutant: a corrective action is looked at by its state alone. *)
PathReadOnlyByState(d) ==
  \/ row[d].status = "demarche_completed"
  \/ CurrentPath(d) = "justify" /\ Recorded(journal[d], "cse_opinion_submit")
  \/ /\ CurrentPath(d) = "joint_evaluation"
     /\ Recorded(journal[d], "joint_evaluation_submit")

(* getCompliancePathReadOnlyReason *)
PathReadOnly(d) ==
  \/ row[d].status = "demarche_completed"
  \/ CurrentPath(d) = "justify" /\ Recorded(journal[d], "cse_opinion_submit")
  \/ /\ CurrentPath(d) = "corrective_action"
     /\ Recorded(journal[d], "second_declaration_submit")
  \/ /\ CurrentPath(d) = "joint_evaluation"
     /\ Recorded(journal[d], "joint_evaluation_submit")

PathChoiceModifiable(d) == CurrentPath(d) # None /\ ~PathReadOnly(d)

(* findTransmittedJointEvaluation: the report on file is one that was sent. *)
TransmittedReport(d) ==
  /\ HasReport(d)
  /\ \E e \in journal[d] :
       e.type = "joint_evaluation_submit" /\ report[d] <= e.at

(* saveCompliancePath would accept some choice. *)
PathChoiceAccepted(d) ==
  \E path \in Path, justification \in GapJustification :
    LET round == CurrentRound(journal[d]) IN
    /\ ~(round = 2 /\ path = "corrective_action")
    /\ path \in PathsFor(justification, round)
    /\ ~PathChoiceLocked(journal[d], round)
    /\ ChoosePathMoves(FactsOf(d), path) # {}

(* The panel and the server agree: a path choice is offered, as the step   *)
(* to take or as a choice to modify, exactly when one would be accepted,   *)
(* and the step a panel calls for is one the engine can move on from.      *)
PanelAgreesWithEngine ==
  \A d \in Declarations : Active(d) =>
    /\ PathChoiceAccepted(d) <=>
         PanelVariant(d) = "compliance_choice" \/ PathChoiceModifiable(d)
    /\ PanelVariant(d) = "compliance" =>
         /\ SecondDeclarationWritable(d)
         /\ SecondDeclarationMoves(FactsOf(d), FALSE) # {}
    /\ PanelVariant(d) = "evaluation" => JointEvaluationMoves(FactsOf(d)) # {}
    /\ PanelVariant(d) = "cse" => CseOpinionMoves(FactsOf(d)) # {}

(* A report shown as transmitted is shown until another is uploaded: no    *)
(* later choice makes it the report of an abandoned path.                  *)
TransmittedReportStays ==
  [][\A d \in Declarations :
       TransmittedReport(d) /\ report'[d] = report[d] => TransmittedReport(d)']_vars

-----------------------------------------------------------------------------
(* The reminder queries of eligibility/queries.ts: whether the declaration *)
(* is among the recipients.                                                *)

AwaitingPathChoice(d, r) ==
  /\ Active(d)
  /\ IF r = 1
     THEN row[d].status = "awaiting_compliance_path_choice" /\ row[d].first = None
     ELSE row[d].status = "awaiting_revision_choice" /\ row[d].second = None

CorrectiveSecondDeclarationPending(d) ==
  /\ Active(d)
  /\ row[d].first = "corrective_action"
  /\ row[d].status = "corrective_actions_chosen"
  /\ row[d].secondDeclarationStep = 0

Uploaded(d) == report[d] > 0

(* Mutant: what was chosen since is not looked at, nor the file. *)
JointEvaluationPendingByChoice(d, r) ==
  /\ Active(d)
  /\ ChoiceColumn(d, r) = "joint_evaluation"
  /\ ~(r = 2 /\ Uploaded(d))

JointEvaluationPending(d, r) ==
  /\ Active(d)
  /\ ChoiceColumn(d, r) = "joint_evaluation"
  /\ r = 1 => row[d].second = None
  /\ ~Uploaded(d)

CseOpinionPending(d, variant) ==
  LET chose(path) == row[d].first = path \/ row[d].second = path IN
  /\ Active(d)
  /\ row[d].cseRequired
  /\ ~opinions[d].saved
  /\ CASE variant = "compliance" -> row[d].first = None /\ row[d].second = None
       [] variant = "justify"    -> chose("justify")
       [] variant = "corrective" -> /\ row[d].first = "corrective_action"
                                    /\ row[d].status = "awaiting_cse_opinion"
       [] variant = "joint_eval" -> chose("joint_evaluation") /\ Uploaded(d)

(* The queries read the choices and the files, the panel reads the status: *)
(* a company is reminded of a path choice or of a joint evaluation exactly *)
(* when its panel calls for it (and no report, even one left over from an  *)
(* abandoned choice, is on file), and of the opinion on a justification or *)
(* a corrective action only when its panel calls for the opinion.          *)
RemindersMatchPanel ==
  \A d \in Declarations : Active(d) =>
    /\ (\E r \in 1..2 : AwaitingPathChoice(d, r)) <=>
         PanelVariant(d) = "compliance_choice"
    /\ (\E r \in 1..2 : JointEvaluationPending(d, r)) <=>
         PanelVariant(d) = "evaluation" /\ ~Uploaded(d)
    /\ CseOpinionPending(d, "justify") \/ CseOpinionPending(d, "corrective") =>
         PanelVariant(d) = "cse"

=============================================================================

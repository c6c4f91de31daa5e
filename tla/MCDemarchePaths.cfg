SPECIFICATION Spec
CONSTANTS
  MaxDeclarations = 1
  MaxTime = 6
  IndicatorSteps = {}
  CategoryInputs = {"no_gap", "gap"}
  Justifications = {"all", "partial"}
  OpinionInputs = {"unfavorable"}
  Answers = {"yes"}
  Headcounts = {TRUE}
  IndicatorGRequired <- MCIndicatorGRequired
INVARIANTS
  TypeOK
  ProjectionFollowsJournal
  RoundMatchesState
  JustificationMatchesPath
  CompletionEarned
  AwaitedChoiceIsOpen
  FormalNoticeAnswersJustification
  PanelAgreesWithEngine
  RemindersMatchPanel
PROPERTIES
  SupersededIsFrozen
  RevisedReportIsNew
  TransmittedReportStays

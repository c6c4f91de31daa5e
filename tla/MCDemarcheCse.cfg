SPECIFICATION Spec
CONSTANTS
  MaxDeclarations = 2
  MaxTime = 3
  IndicatorSteps = {2}
  CategoryInputs = {"gap"}
  Justifications = {"all"}
  OpinionInputs = {}
  Answers = {"yes", "no"}
  Headcounts = {TRUE, FALSE}
  IndicatorGRequired <- MCIndicatorGRequired
INVARIANTS
  ParkedOnlyWhenOwed
  ExportNeverMasked
PROPERTIES
  CompletedIsTerminal
  EngineDecides

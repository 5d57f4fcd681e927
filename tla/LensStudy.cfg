CONSTANTS
  honesty = honesty  direction = direction
  Unknown = Unknown  Nothing = Nothing
  TraceCount = 2
  PromptCount = 2
  Concepts = {honesty, direction}
  Direction = direction
  Layouts <- MCLayouts
  Judgments <- MCJudgments
  MaxBeat = 2
SPECIFICATION Spec
INVARIANTS ReadoutIsCausal LensOutcomeIsFinal AnalysisIsFinal
CHECK_DEADLOCK FALSE
